------------------------------ MODULE PaperBook ------------------------------
(***************************************************************************)
(* The paper-trading engine (paper/engine.py) over its SQLite store        *)
(* (paper/store.py), shared by the processes of the workstation: paper-live*)
(* sessions, the dashboard, the MCP server, batch commands.                *)
(*                                                                         *)
(* Every method of the engine that writes runs in one BEGIN IMMEDIATE      *)
(* transaction, so the database is one value, db, and a transaction is one *)
(* step that replaces it or, when the method raises, leaves it alone       *)
(* (ROLLBACK).  What is not atomic is a process: its cached account is     *)
(* loaded when the engine is built, submit_signal looks the signal up      *)
(* before its transaction begins, and a process may stop between any two   *)
(* steps.                                                                  *)
(***************************************************************************)
EXTENDS Risk, Sequences

CONSTANTS
  Proc,            \* processes holding a PaperTradingEngine on this database
  Symbol,
  Signal,          \* the signals strategies may produce; the record is its stable_id
  BarShape,        \* prices a bar may have
  MaxTime,         \* bound: bar timestamps are 1..MaxTime
  BarsPerDay,      \* bar timestamps per calendar day
  MaxHoldingBars,  \* max_holding_bars, 0 for None (unlimited hold)
  AccountRowAtStart \* TRUE when an earlier session has created the account row

ASSUME SignalAssumption == Signal \subseteq SignalOf(Symbol)

ASSUME BarAssumption ==
  /\ BarShape \subseteq [open : Nat, high : Nat, low : Nat, close : Nat]
  /\ \A b \in BarShape : {b.open, b.close} \subseteq b.low .. b.high

ASSUME BookAssumption ==
  /\ MaxTime \in Nat /\ BarsPerDay \in Nat \ {0} /\ MaxHoldingBars \in Nat
  /\ AccountRowAtStart \in BOOLEAN

VARIABLES
  db,       \* the committed content of paper_trading.db
  mem,      \* mem[p]: the engine of process p and its self.account
  looked    \* looked[p]: the signal submit_signal looked up without finding it,
            \* as a set that is empty between calls

vars == <<db, mem, looked>>

-----------------------------------------------------------------------------
(* The rows of the store.  A random UUID is the row's index in its table.  *)

JournalOutcome ==
  {"NONE", "REJECTED", "SKIPPED_ALREADY_ACTIVE", "APPROVED_PENDING",
   "APPROVED_FILLED_OPEN", "APPROVED_FILLED_CLOSED"}

Ordered == {"APPROVED_PENDING", "APPROVED_FILLED_OPEN", "APPROVED_FILLED_CLOSED"}
WithPosition == Ordered \ {"APPROVED_PENDING"}

JournalEntry == [outcome : JournalOutcome, order : Nat, position : Nat, trade : Nat]
PaperOrder   == [signal : Signal, quantity : Nat, status : {"PENDING", "FILLED"}]
PaperFill    == [order : Nat, kind : {"ENTRY", "EXIT"}, quantity : Nat]
Position     == [order : Nat, status : {"OPEN", "CLOSED"}, quantity : Nat,
                 entry_price : Int, bars_held : Nat,
                 entry_fill : Nat, exit_fill : Nat, trade : Nat]
Trade        == [position : Nat, net_pnl : Int,
                 reason : {"STOP", "TARGET", "EXPIRED", "END_OF_DATA"}]

Database ==
  [account : Account, account_exists : BOOLEAN,
   journal : [Signal -> JournalEntry], signals : SUBSET Signal, orders : Seq(PaperOrder), fills : Seq(PaperFill),
   positions : Seq(Position), trades : Seq(Trade), bar_cursor : [Symbol -> Nat]]

NoEntry == [outcome |-> "NONE", order |-> 0, position |-> 0, trade |-> 0]

EmptyDatabase ==
  [account |-> NewAccount, account_exists |-> AccountRowAtStart,
   journal |-> [s \in Signal |-> NoEntry], signals |-> {},
   orders |-> <<>>, fills |-> <<>>, positions |-> <<>>, trades |-> <<>>,
   bar_cursor |-> [x \in Symbol |-> 0]]

SymbolOfPosition(d, i) == d.orders[d.positions[i].order].signal.symbol

PendingOrders(d, x) ==
  {i \in DOMAIN d.orders : d.orders[i].status = "PENDING" /\ d.orders[i].signal.symbol = x}

OpenPositions(d, x) ==
  {i \in DOMAIN d.positions : d.positions[i].status = "OPEN" /\ SymbolOfPosition(d, i) = x}

\* get_pending_order and get_open_position: ORDER BY time LIMIT 1.
Oldest(rows) == CHOOSE i \in rows : \A j \in rows : i <= j

-----------------------------------------------------------------------------
(* submit_signal *)

\* Mutant of Refreshed: the account the process has cached.
Cached(p) == mem[p].account

\* refresh_account, called first in every transaction: the account the
\* process works on is the committed one, whatever it had cached.
Refreshed(p) == db.account

\* Mutant of AlreadyActive: pending orders are not looked at.
AlreadyOpen(d, x) == OpenPositions(d, x) # {}

AlreadyActive(d, x) == PendingOrders(d, x) # {} \/ OpenPositions(d, x) # {}

\* The body of _submit_signal_transaction for a signal that is not stored.
Submitted(d, s, account) ==
  LET decision == Evaluate(s, account)
      entry(outcome, order) ==
        [outcome |-> outcome, order |-> order, position |-> 0, trade |-> 0]
      known == [d EXCEPT !.signals = @ \cup {s}]
  IN  IF ~decision.approved
      THEN [known EXCEPT !.journal[s] = entry("REJECTED", 0)]
      ELSE IF AlreadyActive(d, s.symbol)
      THEN [known EXCEPT !.journal[s] = entry("SKIPPED_ALREADY_ACTIVE", 0)]
      ELSE [known EXCEPT
              !.orders = Append(@, [signal |-> s, quantity |-> decision.quantity,
                                    status |-> "PENDING"]),
              !.journal[s] = entry("APPROVED_PENDING", Len(d.orders) + 1)]

-----------------------------------------------------------------------------
(* process_bar *)

\* _fill_pending_order: order i fills at the bar's open.
Filled(d, i, bar) ==
  LET order == d.orders[i]
      price == EntryPrice(bar.open)
      n     == Len(d.positions) + 1
  IN  [d EXCEPT
        !.fills = Append(@, [order |-> i, kind |-> "ENTRY", quantity |-> order.quantity]),
        !.orders[i].status = "FILLED",
        !.positions = Append(@, [order |-> i, status |-> "OPEN",
                                 quantity |-> order.quantity, entry_price |-> price,
                                 bars_held |-> 0, entry_fill |-> Len(d.fills) + 1,
                                 exit_fill |-> 0, trade |-> 0]),
        !.account = OpenAccountPosition(@, order.quantity, price,
                                        CostForFill(order.quantity * price)),
        !.journal[order.signal] = [@ EXCEPT !.position = n,
                                           !.outcome = "APPROVED_FILLED_OPEN"]]

\* _close_position: position i leaves at a price already adjusted for slippage.
Closed(d, i, price, reason) ==
  LET position == d.positions[i]
      signal   == d.orders[position.order].signal
      fee      == CostForFill(price * position.quantity)
      net_pnl  == (price - position.entry_price) * position.quantity
                    - (CostForFill(position.entry_price * position.quantity) + fee)
      t        == Len(d.trades) + 1
  IN  [d EXCEPT
        !.fills = Append(@, [order |-> position.order, kind |-> "EXIT",
                             quantity |-> position.quantity]),
        !.trades = Append(@, [position |-> i, net_pnl |-> net_pnl, reason |-> reason]),
        !.positions[i] = [@ EXCEPT !.status = "CLOSED", !.exit_fill = Len(d.fills) + 1,
                                   !.trade = t],
        !.account = CloseAccountPosition(@, price, fee, net_pnl),
        !.journal[signal] = [@ EXCEPT !.trade = t, !.outcome = "APPROVED_FILLED_CLOSED"]]

\* _process_open_position: the bar marks position i to market and may close
\* it.  check_exit takes the stop when the bar reaches both levels.
Managed(d, i, bar) ==
  LET marked == [d EXCEPT !.account = MarkToMarket(@, bar.close)]
      signal == d.orders[d.positions[i].order].signal
      held   == d.positions[i].bars_held + 1
  IN  IF bar.low <= signal.stop THEN Closed(marked, i, signal.stop, "STOP")
      ELSE IF bar.high >= signal.target THEN Closed(marked, i, signal.target, "TARGET")
      ELSE IF MaxHoldingBars = 0 THEN marked
      ELSE IF held >= MaxHoldingBars
      THEN Closed(marked, i, ExitPrice(bar.close), "EXPIRED")
      ELSE [marked EXCEPT !.positions[i].bars_held = held]

\* The position-affecting part of process_bar: nothing on a stale bar, an
\* open position is managed, otherwise a pending order fills if it may.
Traded(d, x, bar, is_fresh, allow_new_fill) ==
  IF ~is_fresh THEN d
  ELSE IF OpenPositions(d, x) # {} THEN Managed(d, Oldest(OpenPositions(d, x)), bar)
  ELSE IF PendingOrders(d, x) = {} \/ ~allow_new_fill THEN d
  ELSE Managed(Filled(d, Oldest(PendingOrders(d, x)), bar), Len(d.positions) + 1, bar)

WouldFill(d, x, is_fresh, allow_new_fill) ==
  is_fresh /\ allow_new_fill /\ OpenPositions(d, x) = {} /\ PendingOrders(d, x) # {}

\* Account.open_position raises: the account already holds a position, of
\* another symbol, since the one account serves them all.
FillRaises(d, x, is_fresh, allow_new_fill) ==
  /\ WouldFill(d, x, is_fresh, allow_new_fill)
  /\ ~CanOpen(d.account, d.orders[Oldest(PendingOrders(d, x))].quantity)

Day(t) == t \div BarsPerDay

-----------------------------------------------------------------------------
(* Processes *)

\* "creating": __init__ found no account row and is about to save a new one.
Engine == [state : {"down", "creating", "up"}, account : Account]
DownEngine == [state |-> "down", account |-> NewAccount]
Up(account) == [state |-> "up", account |-> account]

Idle(p) == mem[p].state = "up" /\ looked[p] = {}

Init ==
  /\ db = EmptyDatabase
  /\ mem = [p \in Proc |-> DownEngine]
  /\ looked = [p \in Proc |-> {}]

\* PaperTradingEngine.__init__: get_account ...
Start(p) ==
  /\ mem[p].state = "down"
  /\ mem' = [mem EXCEPT ![p] = IF db.account_exists THEN Up(db.account)
                               ELSE [state |-> "creating", account |-> NewAccount]]
  /\ UNCHANGED <<db, looked>>

\* ... and, when there was none, save_account: an upsert outside any transaction.
CreateAccount(p) ==
  /\ mem[p].state = "creating"
  /\ db' = [db EXCEPT !.account = NewAccount, !.account_exists = TRUE]
  /\ mem' = [mem EXCEPT ![p] = Up(NewAccount)]
  /\ UNCHANGED looked

\* The process ends, or dies between two steps: only its memory is lost.
Crash(p) ==
  /\ mem[p].state # "down"
  /\ mem' = [mem EXCEPT ![p] = DownEngine]
  /\ looked' = [looked EXCEPT ![p] = {}]
  /\ UNCHANGED db

\* refresh_account called by the display functions, outside a transaction.
RefreshAccount(p) ==
  /\ Idle(p)
  /\ mem' = [mem EXCEPT ![p] = Up(db.account)]
  /\ UNCHANGED <<db, looked>>

\* submit_signal, first statement: a journal entry that exists is returned
\* and nothing happens; otherwise the transaction follows.
LookUp(p, s) ==
  /\ Idle(p)
  /\ db.journal[s].outcome = "NONE"
  /\ looked' = [looked EXCEPT ![p] = {s}]
  /\ UNCHANGED <<db, mem>>

\* Mutant of Submit: the row of a signal stored meanwhile is replaced.
SubmitTwice(p) ==
  \E s \in looked[p] :
    /\ db' = Submitted(db, s, Refreshed(p))
    /\ mem' = [mem EXCEPT ![p] = Up(Refreshed(p))]
    /\ looked' = [looked EXCEPT ![p] = {}]

\* The transaction of submit_signal.  A signal that another process stored
\* since the look-up violates the primary key: ROLLBACK, and the other
\* process's entry is returned.
Submit(p) ==
  \E s \in looked[p] :
    /\ db' = IF s \in db.signals THEN db ELSE Submitted(db, s, Refreshed(p))
    /\ mem' = [mem EXCEPT ![p] = Up(Refreshed(p))]
    /\ looked' = [looked EXCEPT ![p] = {}]

\* process_bar on a bar that is not newer than the cursor: DUPLICATE_SKIPPED,
\* or OutOfOrderBarError; only the cached account is refreshed.
SkipBar(p, x, t) ==
  /\ Idle(p)
  /\ t <= db.bar_cursor[x]
  /\ mem' = [mem EXCEPT ![p] = Up(Refreshed(p))]
  /\ UNCHANGED <<db, looked>>

\* Mutant of NewBar: an out-of-order bar is taken for a newer one.
OtherBar(p, x, t) == Idle(p) /\ t # db.bar_cursor[x]

\* A cursor of 0 is a symbol without a row: every bar is newer.
NewBar(p, x, t) == Idle(p) /\ t > db.bar_cursor[x]

\* process_bar on a newer bar.
ProcessBar(p, x, t, bar, is_fresh, allow_new_fill) ==
  LET rolled == [db EXCEPT !.account = RollToDay(Refreshed(p), Day(t))]
      traded == Traded(rolled, x, bar, is_fresh, allow_new_fill)
  IN  /\ NewBar(p, x, t)
      /\ ~FillRaises(db, x, is_fresh, allow_new_fill)
      /\ db' = [traded EXCEPT !.bar_cursor[x] = t]
      /\ mem' = [mem EXCEPT ![p] = Up(traded.account)]
      /\ UNCHANGED looked

\* process_bar when the fill raises: the transaction rolls back, and the
\* account left in memory is the refreshed one, rolled to the bar's day.
FailBar(p, x, t) ==
  /\ NewBar(p, x, t)
  /\ FillRaises(db, x, TRUE, TRUE)
  /\ mem' = [mem EXCEPT ![p] = Up(RollToDay(Refreshed(p), Day(t)))]
  /\ UNCHANGED <<db, looked>>

\* close_at_end_of_data, at the end of a historical replay.
CloseAtEndOfData(p, x, bar) ==
  /\ Idle(p)
  /\ OpenPositions(db, x) # {}
  /\ db' = Closed([db EXCEPT !.account = Refreshed(p)], Oldest(OpenPositions(db, x)),
                  ExitPrice(bar.close), "END_OF_DATA")
  /\ mem' = [mem EXCEPT ![p] = Up(db'.account)]
  /\ UNCHANGED looked

Next ==
  \E p \in Proc :
    \/ Start(p) \/ CreateAccount(p) \/ Crash(p) \/ RefreshAccount(p)
    \/ \E s \in Signal : LookUp(p, s)
    \/ Submit(p)
    \/ \E x \in Symbol, t \in 1 .. MaxTime : SkipBar(p, x, t) \/ FailBar(p, x, t)
    \/ \E x \in Symbol, t \in 1 .. MaxTime, bar \in BarShape,
          is_fresh \in BOOLEAN, allow_new_fill \in BOOLEAN :
         ProcessBar(p, x, t, bar, is_fresh, allow_new_fill)
    \/ \E x \in Symbol, bar \in BarShape : CloseAtEndOfData(p, x, bar)

Spec == Init /\ [][Next]_vars

-----------------------------------------------------------------------------
(* Type invariant *)

\* Every table holds rows of its type, every process is down, starting or
\* up, and a process has at most one submission in flight, which only a
\* process that is up can have: what it looked up before its transaction dies
\* with it (submit_signal, paper/engine.py).
OneInFlight(p) ==
  /\ \A s, t \in looked[p] : s = t
  /\ looked[p] # {} => mem[p].state = "up"

TypeOK ==
  /\ db \in Database
  /\ mem \in [Proc -> Engine]
  /\ looked \in [Proc -> SUBSET Signal]
  /\ \A p \in Proc : OneInFlight(p)

-----------------------------------------------------------------------------
(* What the book guarantees *)

\* The one account and the position table never disagree: the account is
\* flat exactly when no position is open, otherwise exactly one position of
\* all symbols is open and the account carries its quantity and entry price
\* (_fill_pending_order and _close_position change both, and an interleaved
\* process or a rollback must not separate them).
OpenPositionIds(d) == {i \in DOMAIN d.positions : d.positions[i].status = "OPEN"}

AccountHoldsThePosition ==
  IF db.account.quantity = 0 THEN OpenPositionIds(db) = {}
  ELSE \E i \in OpenPositionIds(db) :
         /\ OpenPositionIds(db) = {i}
         /\ db.account.quantity = db.positions[i].quantity
         /\ db.account.entry_price = db.positions[i].entry_price

\* The journal tells the truth about every signal, whatever interleaving of
\* submissions led there: it names the only order of the signal, the only
\* position of that order and the only trade of that position, and its
\* outcome is the state those rows are in.
JournalMatchesBook ==
  \A s \in Signal :
    LET entry       == db.journal[s]
        ordersOf    == {i \in DOMAIN db.orders : db.orders[i].signal = s}
        positionsOf == {i \in DOMAIN db.positions : db.positions[i].order \in ordersOf}
        tradesOf    == {i \in DOMAIN db.trades : db.trades[i].position \in positionsOf}
    IN  /\ s \in db.signals <=> entry.outcome # "NONE"
        /\ entry.outcome \notin Ordered => ordersOf = {}
        /\ entry.outcome \in Ordered =>
             /\ ordersOf = {entry.order}
             /\ db.orders[entry.order].status = "PENDING"
                  <=> entry.outcome = "APPROVED_PENDING"
        /\ entry.outcome \notin WithPosition => positionsOf = {}
        /\ entry.outcome \in WithPosition =>
             /\ positionsOf = {entry.position}
             /\ db.positions[entry.position].status = "CLOSED"
                  <=> entry.outcome = "APPROVED_FILLED_CLOSED"
        /\ tradesOf = IF entry.outcome = "APPROVED_FILLED_CLOSED"
                      THEN {entry.trade} ELSE {}

\* No money appears or vanishes: cash is the initial capital plus the
\* realized profit, less what an open position cost with its entry fee
\* (open_position, close_position and close_trade compute the fees of a
\* round trip separately and must agree on them).
CashConserved ==
  LET a == db.account IN
    a.cash = InitialCapital + a.realized_pnl
               - (IF a.quantity = 0 THEN 0
                  ELSE a.quantity * a.entry_price
                         + CostForFill(a.quantity * a.entry_price))

\* Whoever decides on a signal, and however old the account it has cached or
\* looked at before, an order is only ever added when the committed account is
\* flat, no circuit breaker is tripped, and its cash pays for the quantity at
\* the price of the signal: RiskEngine.evaluate, which
\* reduces the size to the cash at hand, on the account that submit_signal
\* refreshes inside its transaction.
OrdersAreAffordable ==
  [][\A i \in DOMAIN db'.orders \ DOMAIN db.orders :
       LET order == db'.orders[i] IN
       /\ order.quantity >= 1
       /\ order.quantity * order.signal.reference <= db.account.cash
       /\ db.account.quantity = 0 /\ HaltReasons(db.account) = {}]_vars

\* What the price of the signal paid for, the fill may not: it is at the open of
\* a later bar, with slippage and fee, and _fill_pending_order does not look at
\* the cash again as the backtester does (backtesting/engine.py, "rather than
\* silently letting cash go negative").
CashStaysPositive == db.account.cash >= 0

\* The sum of the values of a table, row by row.
Total(values) ==
  LET sum[n \in 0 .. Len(values)] == IF n = 0 THEN 0 ELSE sum[n - 1] + values[n]
  IN  sum[Len(values)]

Pnls(d) == [i \in DOMAIN d.trades |-> d.trades[i].net_pnl]

\* What each fill bought, or sold.
Bought(d) ==
  [i \in DOMAIN d.fills |->
     IF d.fills[i].kind = "ENTRY" THEN d.fills[i].quantity ELSE - d.fills[i].quantity]

\* Check 2 of paper/reconciliation.py, "realized PnL agrees with the trade
\* ledger": the account's realized profit and trade count are those of the
\* trades table, whichever processes wrote the two.
AccountMatchesTrades ==
  /\ db.account.realized_pnl = Total(Pnls(db))
  /\ db.account.total_trades = Len(db.trades)

\* The last n trades were losses, and the one before them was not.
IsLossStreak(n, trades) ==
  /\ n \in 0 .. Len(trades)
  /\ \A i \in Len(trades) - n + 1 .. Len(trades) : trades[i].net_pnl < 0
  /\ n < Len(trades) => trades[Len(trades) - n].net_pnl >= 0

\* The account agrees with the tables in what paper/reconciliation.py checks
\* and in what it leaves out: the loss streak is the number of losses since
\* the last trade that was not one, the peak is no less than equity, and the
\* quantity bought by entry fills and not sold by exit fills is the one held.
LedgerReconciles ==
  /\ AccountMatchesTrades
  /\ IsLossStreak(db.account.consecutive_losses, db.trades)
  /\ db.account.peak_equity >= Equity(db.account)
  /\ db.account.quantity = Total(Bought(db))

\* What is final stays final, across transactions of all processes: a filled
\* order, a closed position, a fill and a trade never change, a rejected or
\* closed journal entry keeps its outcome, and no bar cursor goes back.
RowsKept(old, new, kept(_)) ==
  /\ Len(old) <= Len(new)
  /\ \A i \in DOMAIN old : kept(old[i]) => new[i] = old[i]

HistoryIsFinal ==
  [][LET any(row) == TRUE
         filled(row) == row.status = "FILLED"
         closed(row) == row.status = "CLOSED"
     IN  /\ RowsKept(db.orders, db'.orders, filled)
         /\ RowsKept(db.positions, db'.positions, closed)
         /\ RowsKept(db.fills, db'.fills, any)
         /\ RowsKept(db.trades, db'.trades, any)
         /\ \A s \in Signal :
              db.journal[s].outcome \in {"REJECTED", "SKIPPED_ALREADY_ACTIVE",
                                         "APPROVED_FILLED_CLOSED"}
                => db'.journal[s] = db.journal[s]
         /\ \A x \in Symbol : db'.bar_cursor[x] >= db.bar_cursor[x]]_vars

\* The book implements the ledger of signal outcomes.
Ledger == INSTANCE PaperLedger
            WITH status <- [s \in Signal |-> db.journal[s].outcome],
                 SymbolOf <- [s \in Signal |-> s.symbol]

ImplementsLedger == Ledger!Spec
=============================================================================
