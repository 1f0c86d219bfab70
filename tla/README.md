# Verification of the trading workstation

TLA+ models, TLC runs and TLAPS proofs for the stateful core of the
repository: the paper book, the human approval of live signals, the unattended
scheduler, the Dhan feed with its candle builder, the fleet supervisor, the
batch run that orders from predictions, and the evaluation of predictions.
Paths are relative to the repository's root.

## 1. Inventory

The program is one command (`main.py`), a dashboard and an MCP server over a
set of SQLite databases and CSV files. Most of its code computes: strategies,
indicators, research, statistics, reports. What can go wrong without a test
noticing is in the smaller part that shares state between processes, threads
and restarts.

| Component | State it keeps | Operations | Interacts with |
|---|---|---|---|
| Paper book: `paper/engine.py`, `paper/store.py` | tables of signals, orders, fills, positions, trades, journal, account, bar cursor; in each process a cached account | `submit_signal`, `process_bar`, `close_at_end_of_data`, `refresh_account`, construction | called by live sessions, dashboard, MCP server, `advance.py`, replay, all on one database |
| Account and risk: `risk/` | none of its own: an `Account` value | sizing, vetoes, circuit breakers; open, close, roll, mark | called inside the paper book's transactions, and by the pipeline before a signal is put to a human |
| Approval: `live/pipeline.py`, `live/state_store.py`, `live/workstation.py` | rows of pending approvals, kill switch; in each pipeline a backlog | poll a bar, generate, ask, approve, reject, expire, restore, reconcile | the paper book (another database), a session's prompt, dashboard and MCP requests |
| Scheduler: `scheduler/` | `scheduler_runs`, which is both the lock and the history | tick: reclaim, choose, start, execute, finish | executes commands of `main.py`, which reach the paper book |
| Dhan feed: `live/dhan/market_data_source.py` | connection state and generation, reconnect budget, transports, bar queue | subscribe, poll, open, message, lost, reconnect, close | socket callbacks, timers, reconnect threads, the session that polls |
| Candle builder: `live/dhan/candle_builder.py` | current bucket, timestamp baseline, last price | tick | the feed's receive threads |
| Fleet: `live/fleet_supervisor.py`, `live/heartbeat.py` | worker handles, restart counts; heartbeat and log files | launch, poll, relaunch, shut down | one `paper-live` process per symbol |
| Shadow run: `shadow-run` of `main.py`, `paper/advance.py`, `backtesting/cache.py` | predictions, the paper book, cached CSV files | scan, decide, critique, record, submit, advance | scheduler slots, runs by hand, the kill switch, the provider |
| Predictions: `predictions/`, `live/prediction_recorder.py` | predictions and evaluations | record, list, evaluate, save | sessions, scheduler slots, the cached CSV files |
| LLM budget: `llm/budget.py` | per-day call counts | check, record | every agent |
| Resilience: `market_data/resilience.py` | circuit breaker, retry delays | fetch | every provider |
| Critic gate: `live/critic_gate.py` | cached market context | evaluate, refresh | the pipeline |
| Backtester, research, decision engine, learning, agents, dashboard, core | append-only stores or none | formulas, text, rendering | |

What is hard in this code: several processes on one SQLite database with
caches in memory; statements that autocommit, with a decision taken between
two of them; two databases (approvals and book) that one operation writes;
processes that die between any two of these; a lock that times out while its
owner still works; callbacks of a socket that outlive their connection; ticks
that arrive late, twice or from another day; and a cached file that is served
for ever, or is read while it is written. `PROJECT.json` lists each of these
hazards at its line, with the property that covers it or the reason why none
does.

What makes each component correct:

* paper book: account, tables and journal always tell the same story, each
  signal is decided and traded once, no money appears or vanishes, history is
  not rewritten;
* risk: an approval respects the cash, the free account and every breaker;
* approval: one decision per signal, no order without an approval, claims
  survive crashes, expired signals are decided;
* scheduler: one lock, no overlap except with a run that was given up, no
  rewriting of outcomes, slots at their pace, dead locks released;
* feed: CONNECTED means that the current transport opened, every registered
  symbol is subscribed on it, reconnects stay within their budget, attempts
  and silence end, CLOSED is final;
* candle builder and queue: a candle is what its trades say, whatever the
  wire does; foreign timestamps make no bar and shut nothing out; a full queue
  keeps the newest bars;
* fleet: no worker outlives the supervisor, one worker's failure costs no
  other, restarts stay within their budget, a hang is noticed;
* shadow run: one order for a symbol and entry bar, on a prediction that does
  not block it; halts hold fills; a fill comes after its signal, on current data;
* predictions: an evaluation names the first bar that decides, and every
  prediction gets one.

## 2. Modules

| Module | Models | State and actions |
|---|---|---|
| `Risk` | `risk/account.py`, `risk/engine.py`, `risk/config.py`, `backtesting/costs.py` | operators on an account record; no state |
| `PaperLedger` | what the book promises (abstract) | `status[s]`, the journal outcome of each signal; `Decide`, `Fill`, `Close` |
| `PaperBook` | `paper/engine.py`, `paper/store.py` | `db` (all tables), `mem[p]` (engine and cached account of process p), `looked[p]` (a submission between look-up and transaction) |
| `Approval` | `live/pipeline.py`, `live/state_store.py`, `live/workstation.py`, the `paper-live` loop | `row`, `kill`, `late` in the state store; `status`, `cursor` of the book (an instance of `PaperLedger`); `pending[c]`, `proc[c]` of each caller |
| `Scheduler` | `scheduler/`, `schedule tick` and `schedule loop` | `clock`, `runs`, `tick[p]` |
| `Feed` | the connection state machine of `live/dhan/market_data_source.py` | `state`, `attempts`, `connectedAt`, `lastMessage`, `subscribed`, `timer` of the source; `sock[g]` one transport per generation with what was `sent`; `proc[t]` of the polling thread and of every thread that reports a loss |
| `CandleBuilder` | `live/dhan/candle_builder.py` | `OnTick` and `CompletedBar`, operators on a builder and a tick |
| `LiveData` | `_on_raw_message`, `_handle_packet`, `_enqueue_bar`, `next_bar`; the bar's way through `process_next` | the wire, `recv[r]` of each receive thread, `builder`, `queue`, `cursor`, `buffer` |
| `Fleet` | `live/fleet_supervisor.py`, `live/heartbeat.py`, `fleet-supervise` | the supervisor's `pc`, `todo`, `restarts`, `statuses`; `worker`, `heartbeat`, `log` seen from outside |
| `ShadowRun` | `shadow-run --paper-execute`, `paper/advance.py`, `backtesting/cache.py` | `preds`, `journal`, `pending`, `cursor`, `account`, `kill`, `file[s]`; `run[p]` of each process |
| `Predictions` | `predictions/store.py`, `predictions/tracker.py`, `live/prediction_recorder.py`, `backtesting/cache.py` | the market's `bars`, the cached `file`, `preds`, `latest`; `ev[p]` of each evaluator |
| `MC*` | instances for TLC | constants and symmetry only |
| `PaperBookProofs` | theorems about `Risk` and `PaperBook`, and that the book implements `PaperLedger` | |
| `ApprovalProofs`, `SchedulerProofs`, `FeedProofs`, `FleetProofs`, `ShadowRunProofs`, `PredictionsProofs` | theorems about the module of that name | |
| `LiveDataProofs` | theorems about `CandleBuilder` and `LiveData` | |

How they are composed:

* `PaperBook` extends `Risk` and implements `PaperLedger` (property
  `ImplementsLedger`, `status[s] <- db.journal[s].outcome`).
* `Approval` uses `PaperLedger` for the book, one ledger step for each
  transaction: what it assumes of the book is what `PaperBook` is checked to
  implement.
* `LiveData` extends `CandleBuilder` and puts it between the wire and the
  engine's cursor. It takes from `Feed` that a new connection may come up
  while the receive thread of the old one is at work.
* `Fleet` sees a worker from outside; what the worker does is `Approval`'s
  session. `ShadowRun` keeps of the book only who holds the position, whether
  the account is halted, pending orders and cursors.

### How the models correspond to the code

*Atomicity.* Every writing method of the engine runs in one `BEGIN IMMEDIATE`
transaction, so in `PaperBook` a transaction is a step on `db`; when it raises
`db` is unchanged (ROLLBACK) but the cached account is what the method left in
it (`FailBar`). The live state store autocommits, so in `Approval` each
statement that other callers can see is a step. Reads and writes that commute
are taken together, and where they are (`Sweep`, `GuardFill`) the comment says
so. In `Scheduler` every query and update of a tick is a step; `try_start_run`
is one, being one `BEGIN IMMEDIATE` transaction. In `Feed` a section under
`self._lock` is a step, and so is every call between two sections; a callback
starts on a thread of its own. In `LiveData` `on_tick` is a step (it holds the
builder's lock), and each operation on the queue is one. In `ShadowRun` and
`Predictions` every file access and transaction is a step, and so is a query,
with two exceptions: `Critique` takes the four queries before a verdict
together (prediction, orders, position, kill switch), and `Guard` the queries
about one symbol of the advance (baseline, position, breakers, kill switch).
What `Critique` reads is asked again by the unique index, by `Bridge` and by the
transaction of `Submit`; what `Guard` reads matters to `HaltHoldsFills`, which is
about a process that is alone. Writing the cache file is two steps, since it is
opened in place.

*Data.* Money is an integer number of ticks and divisions round down where the
code has floats: fees are computed by one operator wherever the code computes
them again, so that a difference between two computations is a difference
between formulas, not between roundings. A signal is a record of its levels; a
bar is one of a few shapes. A UUID is the index of its row. Time is a small
counter, or, where only a threshold matters (idle timeout, minimum stable
time, heartbeat age), which side of the threshold it is on.

*Processes.* A process may die (`Crash`, `Fail`, `Restart`) between any two
steps and start again; only its memory is lost.

*Two kinds of callers of Approval.* A session is a `paper-live` process with
one pipeline for its life. A request is one dashboard or MCP call, which
builds a pipeline of its own and so runs the restoration and reconciliation
that the constructor does.

## 3. Runs

| Run | Question | Outcome |
|---|---|---|
| `book_two_processes` | do tables, account and journal stay consistent, and is the ledger implemented, when two processes share a book? | holds |
| `book_one_process` | does the account agree with its trades and history stay, from an empty database, over more bars in any order and with restarts, and are orders that the cash limits affordable? | holds |
| `approval_race` | can a session that asks, one that submits by itself and a request execute a signal twice, without approval, or change a decision? | holds |
| `approval_one` | does one session recover its claims with the right label, and decide what expired? | holds |
| `scheduler` | is the lock exclusive, the history final, overlap limited to runs given up, and a dead lock released? | holds |
| `feed` | do late callbacks, racing reports and resubscriptions leave state, subscriptions and budget right? | holds |
| `feed_settles` | does every attempt end, and is a silent connection given up? | holds |
| `live_data` | are candles, baseline, queue and buffer right under late, repeated, foreign and corrupt ticks? | holds |
| `fleet` | are failing launches, checks and relaunches isolated, and is no worker left behind? | holds |
| `predictions` | does an evaluation on a torn, stale or late frame name the bar that decides, and does everybody get one? | holds |
| `shadow_run` | do overlapping or repeated runs order once, and hold fills while halted? | holds |
| `shadow_lookahead` | can a fill come from a bar that is not after its signal? | violated |

Every property of a passing run is violated by at least one mutant of the code
it is about; the mutants stand in the modules, above the definitions they
change.

Further configurations, run by hand (`tlc -config <file> <module>`), show what
a passing run cannot state, or a larger instance:

| Configuration | Property | Outcome |
|---|---|---|
| `MCPaperBookFirst` | `AccountMatchesTrades` | violated (A) |
| `MCApprovalAudit` | `AuditLabelAgrees` | violated (B) |
| `MCApprovalKill` | `NoApprovalAfterKill` | violated (C) |
| `MCApprovalFill` | `NoFillAfterKill` | violated (D) |
| `MCSchedulerPace` | `SlotsKeepPace` | violated (E) |
| `MCFeedClosed` | `ClosedIsFinal` | violated (F) |
| `MCFleetEnds` | `EndsWhenAllExited` | violated (G) |
| `MCPredictionsLimit` | `EveryPredictionIsEvaluated` | violated (H) |
| `MCShadowRunFresh` | `FetchIsFresh` | violated (I) |
| `MCLiveDataPrice` | `NoPriceShutsOut` | violated (J) |
| `MCPaperBookCash` | `CashStaysPositive` | violated (K) |
| `MCPredictionsForming` | `ResolvingBarsDoNotChange` | violated (L) |
| `MCFeedStable` | those of `feed`, with a connection that becomes stable | holds |

### Findings

* **Look-ahead** (`shadow_lookahead`, `NoLookAhead`). `paper/advance.py:56`
  takes the last bar the engine processed for a symbol as the baseline, also
  when a pending order is younger. A symbol that was advanced, lay idle and
  then gets a new order is advanced from its old cursor, and the first of the
  bars between, at the latest the one that generated the order, fills it.
  `paper/advance.py:14-19` says "NO LOOK-AHEAD BIAS BY CONSTRUCTION".
* **A.** `PaperTradingEngine.__init__` reads the account and then saves a new
  one outside a transaction: of two processes that start on a new database the
  slower overwrites the account the other has traded with. Later starts are
  safe, so the passing run with two processes assumes that the row exists
  (`AccountRowAtStart`), and the theorems about the account that it exists or
  that only one process starts (`StartsAlone`).
* **B.** The constructor's reconciliation takes every `HUMAN_APPROVED` row for
  an orphan. Built by a request while another caller is between claim and
  finalize, it labels a live claim. With one session and no requests
  (`approval_one`) the label is right.
* **C, D.** The kill switch is read before the order is created, and before
  the fill, in another database: the documented guarantee has a window. The
  checks in the code make the window small; the configurations show it is not
  empty. The same window is in `ShadowRun` (`Bridge` before `Submit`, `Guard`
  before the bars), so `HaltHoldsFills` speaks of runs during which the switch
  does not move.
* **E.** The due slot is chosen before the lock is taken, and the lock does
  not check it again.
* **F.** `close()` changes the state but not the connection generation, so an
  open callback of the current connection that waited for the lock turns
  CLOSED into CONNECTED.
* **G.** The end of a supervision cycle is decided on statuses taken before the
  cycle's relaunches: the loop can print that every worker has exited and shut
  down a worker it has just started.
* **H.** `list_predictions_needing_evaluation` takes the oldest predictions up
  to its limit, resolved ones included, and filters those: a prediction beyond
  the limit is never evaluated.
* **I.** The advance reads through a cache that is never refreshed, so its bars
  are not "freshly fetched ... AT CALL TIME": once a file is there, orders and
  predictions stall on it until it is deleted.
* **J.** The very first tick is accepted whatever its price
  (`docs/LIVE_DATA_STRESS_TESTING.md:60-62`). When that price is a corrupt one,
  the baseline of times is confirmed by the trades that follow, but no trade of
  the day is near the price, and no bucket ever opens: `NoPriceShutsOut`.
* **K.** A size is reduced to the cash at the price of the signal, and the fill,
  at the open of a later bar with slippage and fee, does not look at the cash
  again (`paper/engine.py:430-459`), where the backtester does
  (`backtesting/engine.py:113-120`): cash can become negative, `CashStaysPositive`.
* **L.** A resolved prediction is not evaluated again, "since the bars that
  resolved them don't change" (`predictions/store.py:196-198`), and
  `market/data_provider.py:71-73` wants prediction evaluation to check for
  partial bars; but
  `evaluate_prediction` decides on the last bar of its frame while that bar
  still forms. In the trace a bar reaches the target, the prediction is saved as
  TARGET_HIT, and the bar then reaches the stop too, which would have come
  first: `ResolvingBarsDoNotChange`. An EXPIRED that precedes a late target is
  the same disagreement.

Behaviour that is visible in the models and that no document rules out:

* `Feed`: a FAILED feed whose last transport opens late becomes CONNECTED; the
  idle check reads the age of the message before the generation, so a
  reconnect in between is itself reported lost; two overlapping episodes can
  leave a superseded transport unclosed; a reconnect that was granted before a
  new `subscribe()` adds one dial to the new budget.
* `LiveData`: two receive threads can overlap at a reconnect, although the
  comment at `market_data_source.py:763-768` counts on one producer; a corrupt
  price completes a bucket and opens none, so a late tick can open a completed
  bucket again. `overlapped` is a condition of what counts on one producer: the
  volume half of `CandleIsItsTrades` (a redelivered trade is recognised only if
  it is the next tick) and `NewestBarsSurvive`; the prices of a candle and the
  order of the bars are right when threads overlap. `odd = 0` is a condition of
  `ClosedBucketStaysClosed` alone.
* `Fleet`: Ctrl+C while the fleet is being launched, and while `shutdown_fleet`
  waits for the workers, is outside the handler (`Interrupt` is neither); a
  relaunched worker is judged by its predecessor's heartbeat and log until it
  writes its own; a relaunch that raises does not use up the budget.
* `ShadowRun`: a death between `save_prediction` and `submit` loses the order
  for good, since the prediction blocks the entry.
* `Predictions`: a failed fetch or a torn, empty file is saved as
  `INSUFFICIENT_DATA`, which is final.

### Bounds

All bounds stand in guards, so a bounded run simply stops exploring there.
Symmetry is used only in runs without liveness, over processes, threads,
symbols and prices that no definition tells apart.

* `book_*`: two signals of one symbol and one of another are what is needed
  for a race of one signal, of two signals of a symbol, and of two symbols for
  the one account. Two processes are the fewest that interleave; a transaction
  is one step, so a third adds no new kind of overlap. One bar timestamp with
  two processes, two with one, give a fill and an exit in one bar, in two, and
  an expiry; `BarsPerDay = 2` lets the day change. The loss limits are small
  enough (soft limit 1, hard limit 2) for two losing trades to reach them, and
  the limits on exposure and drawdown are in reach of one loss.
  `book_one_process` has limits so wide that a signal with a tight stop asks for
  more than the cash and is reduced to it, beside one that is not; with two bar
  timestamps a bar can arrive again or after a later one.
* `approval_race`: one signal, a session that asks, one that submits by itself,
  a request, two bars and one death: every pair of kinds of callers races.
  `approval_one`: two signals and three bars for one session with two deaths
  let a signal be generated while another is pending, and be restored by the
  session that starts again. The clock is `late`: a signal may expire at any time after it is
  saved.
* `scheduler`: a day of four ticks, staleness 2, a once-a-day and a periodic
  slot. Six clock values cross a day's end. Two rows of history are enough for
  a reclaimed run and its successor; `MaxFailures = 1` is a death or a locked
  database anywhere in a tick.
* `feed`: two watchers (a loss is reported by two threads at once, or one
  reports while the other reconnects), two symbols, so that a second
  `subscribe()` meets the first one's connection, and a budget of one retry.
  `feed_settles` lets one connection become stable; with one symbol
  `subscribe()` comes once.
* `live_data`: three buckets of two units, trades up to one unit late, two odd
  ticks out of snapshots of another day (two that agree with each other), a
  timestamp far ahead, a zero price and a price far off; two receive threads,
  a queue of two bars, a buffer of two, one restart.
* `fleet`: two workers, one restart each, one failing launch or check, one
  stop: a failure of one worker in any phase of the other.
* `predictions`: two evaluators, four bars of two shapes (one touches stop and
  target at once, and is an anomaly after the other), a lookback of two, a
  horizon of two, two predictions of which the first always raises, and one
  fault: a fetch that fails, a file deleted at rest or just before it is read, or
  a death. `Limit = 2` holds both predictions: see H.
* `shadow_run`: two processes over two symbols, two prices of one bar (two
  signal ids for one entry), two bars, two runs, and each fault once.

Deadlock is checked where the system can always go on (book, approval,
scheduler). A closed feed, a market that closed, a fleet that stopped, a batch
that ended all stop rightly, so `CHECK_DEADLOCK FALSE` stands in their
configurations.

### Fairness

* `Approval!FairSpec`: weak fairness of each caller's steps and of starting a
  session. A session is a loop that polls with a timeout, its prompt is
  answered by a human or by `--auto-approve` / `--auto-reject`, and a session
  that dies is started again (`fleet-supervise` does it, or the operator). No
  fairness of bars, of the kill switch or of crashes is assumed. Without a
  later session or request nothing would reconcile a claim: a dashboard
  request that dies in the middle leaves its row `HUMAN_APPROVED` until a
  pipeline is built.
* `Scheduler!FairSpec`: weak fairness of each process's tick, which is what
  `schedule loop` does for ever. It includes that what a slot executes ends:
  `OPERATIONS_GUIDE.md:152-162` documents that a hung slot is not covered. The
  clock itself is not fair: `StaleLockIsReleased` only speaks of locks that are
  stale.
* `Feed!FairSpec`: threads run, an armed timer fires, a callback that has begun
  ends, the session polls; and a transport that was asked to close ends
  (strong fairness, as the callback may have to wait for a free watcher).
  Nothing is assumed of the network: a handshake may neither complete nor fail,
  a connection may stay up and silent. That a connection falls silent is not
  assumed either.
* `Fleet!FairSpec`: the supervisor's loop runs and its sleep ends, a heartbeat
  that is not renewed becomes stale. Workers may do anything or nothing.
* `Predictions!FairSpec`: some evaluator goes on as long as one can, since
  sessions and the scheduler evaluate again and again; any single one may stop
  for ever.

## 4. Proofs

Checked by TLAPS for every value of the constants that satisfies the named
assumptions (`...Assumption`) in `Risk`, `PaperBook`, `Approval`, `Scheduler`,
`Feed`, `CandleBuilder`, `LiveData`, `Fleet`, `ShadowRun` and `Predictions`;
TLC evaluates each of them on the runs. Every invariant that a run checks is a
theorem, and so are its action properties and the refinement. A theorem that
supposes more than its module's assumptions says so below.

**Paper book** (`PaperBookProofs`). One lemma, `NextIsDatabaseStep`, groups the
steps of all processes by what they do to the tables (a submission, a fill, a
close, the row of a new account, none), so that an invariant is proved once per
kind of change and not once per action.

* `EvaluateSafe`: an approved signal has a positive quantity, a free account, no
  halt reason, and costs no more than the cash at the reference price. The
  argument is arithmetic about the reduction of the quantity to the cash.
* `TypeCorrect` (`TypeOK`). It is not inductive alone, since the rows name
  orders by index: `TypeInv` adds `Linked`, every index stored is one of a row.
  It holds `OneInFlight` too: a process that is up has one submission in flight
  at most.
* `OrdersStayAffordable` (`OrdersAreAffordable`), from `TypeInv` and
  `EvaluateSafe`, with nothing supposed about how processes start: the decision
  is taken on the committed account, inside the transaction, and no other step
  adds an order.
* `JournalIsTrue` (`JournalMatchesBook`) and `HistoryStaysFinal`
  (`HistoryIsFinal`), from `LedgerInv`: `TypeInv` and `Truthful`, which says row
  by row which outcome the journal has. Nothing is supposed about how processes
  start: the tables tell one story even where the account does not.
* `AccountInStep` (`AccountHoldsThePosition`) and `CashIsConserved`
  (`CashConserved`), under `StartsAlone`. `AccountInv` adds that a process about
  to create the account finds nobody trading on it (`FirstStart`, the place
  where finding A would break it), that account and positions fit (`Fits`) and
  that the books balance (`Balanced`).
* `BookImplementsLedger` (`ImplementsLedger`), under `StartsAlone`, from both
  invariants: each kind of change of the tables turns one outcome of the journal
  by one step of `PaperLedger`, or none. A fill is a step of the ledger only
  because no position is open, and that is what `AccountInv` knows.
* `LedgerIsReconciled` (`LedgerReconciles`), under `StartsAlone`: realized
  profit, trade count, loss streak, peak and quantity are what the tables sum up
  to. `TallyInv` needs `AccountInv` too, because an exit sells the account's
  quantity. A sum is the recursive function `Total`; that it exists, is the same
  on a common beginning and grows by the row appended is proved by the least
  counterexample (`WFMin`), where an induction theorem could not be applied.

**Approval** (`ApprovalProofs`), for any sessions, requests and signals.

* `ApprovalTypes` (`TypeOK`: types, `BacklogIsSaved`, a backlog only names saved
  rows, and `WorksOnSignal`, a caller in the middle of an operation has its
  signal), `ClaimsAreExclusive` (`ClaimExclusive`),
  `OrdersAreApproved` (`NoOrderWithoutApproval`) from `ApprovalInv`: the columns
  of a row agree (`RowsAreConsistent`), only saved rows are of past bars
  (`KnownIsPast`), a caller works on a signal it read or saved
  (`WorksOnSignal`, `WorkIsKnown`), an order in the book has its approval
  (`OrderIsApproved`), and the two exclusions: of those that carry a fresh
  signal, and of those between claim and end. A claim is exclusive because it is
  one conditional update, whoever else claims, expires or restores.
* `DecisionsAreFinal` (`DecisionIsFinal`): each step moves a row along the same
  way, a verdict only to the end that belongs to it.
* `AuditLabelOfOneCaller` (`AuditLabelAgrees`) supposes one caller, as the run
  `approval_one` does: with more it is finding B. Half of it holds for any
  callers and is `ExecutedIsOrdered`: a row that says EXECUTED has its order.

**Scheduler** (`SchedulerProofs`). `LockIsExclusive` (`OneLock`),
`OverlapIsStale` (`OverlapOnlyWhenStale`), `HistoryIsAudit` (`OutcomeIsFinal`)
and `SchedulerTypeCorrect` (`TypeOK`). `SchedulerInv` ties a process that
executes to the row it started: the row is its own (`OwnersDiffer`), and RUNNING
unless it was reclaimed when stale (`ExecutingOwns`); rows listed for reclaim are
stale by the reading of the tick, hence by the clock (`ListedAreStale`). The
lock then excludes two RUNNING rows, and so two executions unless one was given
up. `try_start_run` keeps it because its check and its insert are one
transaction, `finish_run` because it writes only a RUNNING row.

**Feed** (`FeedProofs`), for any number of connections, watchers and symbols.
`FeedTypeCorrect` (`TypeOK`), `ConnectedMeansOpened` (`ConnectedIsOpen`),
`NoSubscriptionForgotten` (`SubscriptionSent`) and `BudgetBoundsTheStorm`
(`StormBounded`) from `FeedInv`:

* a CONNECTED feed's transport has opened, and a thread that dials holds a
  transport of its own (`OpenOnce`, `Dialers`);
* a symbol registered and not sent is in the hands of an open callback or of
  the polling thread (`Registered`, `UnderWay`): no interleaving drops it
  between two owners;
* each dial is charged: dials and granted reconnects together never exceed the
  attempts (`Charged`). The bound alone is not inductive, since a thread that was
  granted its reconnect dials only later.

**Candle builder and live data** (`LiveDataProofs`). `on_tick` is one operator
with its effect stated once by cases (`OnTickCases`).

* `LiveTypeCorrect` (`TypeOK`) and `OldestBarsGoFirst` (`NewestBarsSurvive`, for
  any capacity) from `LiveInv`. The bounds of queue and buffer are proved only;
  the run checks what is in them.
* `ColdStartEnds` (`ColdStartRecovers`) supposes `PricesAreSteady`, below: after
  two current ticks in a row the baseline is confirmed and a bucket is open. The
  property itself excepts a last accepted price that is not of the day: finding J.
* `PricesAreOfItsTrades`: the prices of a candle are those of its trades, for
  any ticks, threads and restarts. It is the price half of `CandleIsItsTrades`.
* `CandlesAreTheirTrades` (`CandleIsItsTrades`), `BarsAreOfToday`
  (`BarsAreCurrent`) and `BucketsStayClosed` (`ClosedBucketStaysClosed`) suppose
  something of the day; the conditions stand at the end of `LiveData`, and
  `MCLiveData` assumes them, so that TLC evaluates them on the ticks of the run.
  - `PricesAreSteady`: no genuine price is off by more than the permitted
    deviation. After a real jump the builder takes the trade for a corrupt one
    and is left without an open bucket, and a late tick is late to nothing.
  - `OddTicksAreForeign`: an odd tick is of another day or has a time of this
    one; between the two lie timestamps that the skew test lets pass.
  - `NoTwoAhead`: two corrupt ticks ahead of the clock do not follow each other
    into later buckets. If they could, the second would complete the bucket of
    the first before its time.
  - `OddPricesAreFar`: a corrupt price is not near a price of the day. If it
    were, it would be merged, and the trade before it, delivered again, would be
    counted twice: only consecutive duplicates are recognised.
  - `OddTicksAreUnits`: an odd tick is of one unit, as the trades of the model are.

**Fleet** (`FleetProofs`). `NoWorkerOutlives` (`NoOrphans`), `FailureIsIsolated`
(`HealthyKept`) and `FleetTypeCorrect` (`TypeOK`, which holds the restart
budget). `FleetInv` says what the supervisor's place in a loop means: what it
has still to launch (`LaunchingHasWork`), that a symbol it has visited in this
cycle has a status and only a symbol it has visited (`VisitedHaveStatus`), and
that a worker it has waited for is gone (`WaitedAreGone`). Nothing can start a
worker once the loop has ended, so the last one waited for leaves none alive.

**Shadow run** (`ShadowRunProofs`).

* `OneOrder` (`OneOrderPerPrediction`) and `ShadowTypeCorrect` (`TypeOK`). A
  stored prediction is a token that at most one order can use: the process that
  stored it holds the token until it submits or gives up (`HoldersAreBacked`,
  `HoldersDiffer`), it is the first to use it (`HoldersAreFirst`), and the
  journal's entries have used theirs (`EntriesAreBacked`, `EntriesDiffer`). The
  unique index, which is checked in the statement that inserts, is what hands a
  token out once; the look before it (`has_prediction_for_entry`) plays no part.
* `HaltsHoldFills` (`HaltHoldsFills`). `HaltInv`: a held symbol has no pending
  order, and in a calm run the process that runs is alone, its engine remembers
  the account as it is, and a process that advances a symbol passed the guard
  for it (`Cleared`). A halt that one symbol's bars bring does not break this
  for the next symbol, whose guard is asked again.

**Predictions** (`PredictionsProofs`), for any evaluators, horizon and lookback.
`FirstBarResolves` (`ResolvedByTheFirstBar`): an evaluation names the first bar
of the market that decides, and its outcome is that bar's if the frame went
beyond it; of a frame that ended with the bar it does not say so, because there
it is false (finding L). The market only goes on (`Onward`: bars are added,
the last one widens), every frame is what the market was at some time, torn or
not (`Snapshot`), and an evaluation that stands on it stands for ever, because
no later bar can decide before the one it names (`Sound`). `ResolutionsAgree`
follows: two evaluators that saw whole bars agree on bar and outcome, so it does
not matter whose row is taken for the newest. For this the model has the
deciding bar as the least of those that decide, not as a walk.

Model-checked only: liveness (`ClaimsResolve`, `ExpiredIsDecided`,
`StaleLockIsReleased`, `AttemptsSettle`, `SilenceDetected`, `HangIsReported`,
`EveryPredictionIsEvaluated`), which is out of the prover's reach here. The
properties of findings A to L and of the violated run are false, so there is
nothing to prove of them.

## 5. Not modelled

* Wording, rendering, logging, statistics and indicator arithmetic. The
  backtester and its experiments, quantitative research, the decision engine,
  learning and market intelligence, hypothesis registry and agents make up most
  of the repository's lines. They are one process each, sequential, over floats
  and text, and keep append-only stores or none: a model would repeat their
  formulas and have nothing to interleave. That is why a large share of the
  repository's lines stands for no definition here. The execution rules the
  backtester shares with the paper book are modelled there.
* Network I/O of feeds, providers and language models; byte layout of packets.
* Float rounding: whether sums of floats stay within reconciliation's
  tolerance is not a question for these models.
* SQLite itself: a transaction is atomic and durable, a `BEGIN IMMEDIATE`
  excludes other writers. A busy timeout is an error of the call (`Fail`,
  `Crash`).
* The display tables of the state store (feed status, rejections, skew), which
  no decision reads; gap alerts, start-up checks and age messages.
* `Feed`: `unsubscribe()`, which nothing calls. `CandleBuilder`: values that are
  not finite, which fail the same test as a price of zero. `LiveData`: the wire repeats
  only the last tick that was received (`Redeliver`).
* `ShadowRun`: `--skip-critic` and runs without `--paper-execute`, which take a
  subset of the steps; of the critic, only the hard checks on shared state are
  modelled, its verdict is a choice. An engine that meets a bar older than its
  cursor raises (`OldBar`); with two bars only the equal one occurs. A prediction
  database that holds duplicates already, on which the unique index is skipped
  (`predictions/store.py:94-106`): without it `OneOrderPerPrediction` is not
  claimed.
* `Risk`: the exception of `close_position` at quantity 0, which only two first
  starts (A) could bring about.
* `Predictions`: a torn file that ends in the middle of a row (a torn file has
  some of its rows, whole); summaries, and the direction forecasts, which run the same
  statements on another table.
* The resume index of a historical replay session, LLM budget and
  `market_data/resilience.py`: planned.

## 6. Plan

1. `Budget` and `Breaker`: check-then-record of `llm/budget.py` under
   concurrent calls, and the circuit breaker of `market_data/resilience.py`,
   whose retry loop does not ask `allow_request` again between two attempts.
2. The resume index of a replay session, on `PaperBook`: which signals a death
   between bar and submission loses.
3. Stronger conditions in place of `overlapped`, `calm` and the conditions on
   odd ticks: which of the properties survive the overlap of receive threads or
   of runs, and the types of `Predictions` as a theorem of their own.
