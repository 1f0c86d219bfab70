------------------------------ MODULE ShadowRun ------------------------------
(***************************************************************************)
(* The batch command shadow-run --paper-execute (main.py): scan a universe,*)
(* decide on each candidate, put it to the critic, record a prediction and *)
(* hand a BUY to the paper engine; then advance the pending orders and     *)
(* open positions of the account bar by bar (paper/advance.py).            *)
(*                                                                         *)
(* Several runs overlap: a scheduler slot, a run by hand, another machine's*)
(* tick.  They share the prediction store, the paper database and the CSV  *)
(* cache of market data, and each has an in-memory copy of the account.    *)
(* The scan and the advance read through the cache, which never refreshes; *)
(* the decision prices its signal from the provider itself.  PaperBook has *)
(* the engine in full; here an order is its signal, the account is who     *)
(* holds its one position and whether a circuit breaker is tripped.        *)
(***************************************************************************)
EXTENDS Naturals

CONSTANTS
  Process, Symbol,
  NoSymbol,      \* not a symbol
  Price,         \* reference prices the signals of one bar may have
  FreeVerdict,   \* verdicts of the critic when its modelled hard checks pass
  MaxBar,        \* bound: bars published per symbol
  MaxRuns, MaxToggles, MaxDeletes, MaxCrashes  \* bounds on the environment

Blocking == {"REJECT", "INSUFFICIENT_EVIDENCE"}
Verdict  == {"APPROVE", "DOWNGRADE"} \cup Blocking

ASSUME ShadowAssumption ==
  /\ NoSymbol \notin Symbol
  /\ FreeVerdict \subseteq Verdict
  /\ MaxBar \in Nat \ {0}
  /\ {MaxRuns, MaxToggles, MaxDeletes, MaxCrashes} \subseteq Nat

VARIABLES
  shown,    \* shown[s]: bars 1..shown[s] of s exist at the provider
  file,     \* file[s]: last bar of the cached CSV of s, 0 when there is no file
  preds,    \* the predictions table
  journal,  \* the journal: one entry per submitted signal
  pending,  \* pending[s]: bar of the signal of the pending order of s, or 0
  cursor,   \* cursor[s]: get_last_bar_timestamp, 0 for none
  account,  \* the committed account
  kill,     \* the kill switch
  run,      \* run[p]: where process p is in its run
  calm,     \* history: runs never overlapped, the switch never moved during one
  spent     \* bounds

vars == <<shown, file, preds, journal, pending, cursor, account, kill, run, calm, spent>>
book == <<pending, cursor, account>>

Bar0 == 0 .. MaxBar

\* A signal's stable_id: symbol, bar and price; the rest is a function of these.
SignalId == [sym : Symbol, entry : 1 .. MaxBar, price : Price]
Account  == [open : Symbol \cup {NoSymbol}, halted : BOOLEAN]

Run ==
  [pc : {"idle", "decide", "critique", "save", "bridge", "submit",
         "advance", "fetch", "bars"},
   todo : SUBSET Symbol,              \* symbols left in the current loop
   signal : SignalId \cup {NoSymbol}, verdict : Verdict,
   sym : Symbol \cup {NoSymbol},      \* symbol being advanced
   next : 0 .. MaxBar + 1, last : Bar0,  \* bars left for it
   mem : Account]                     \* engine.account

NewAccount == [open |-> NoSymbol, halted |-> FALSE]
IdleRun ==
  [pc |-> "idle", todo |-> {}, signal |-> NoSymbol, verdict |-> "REJECT",
   sym |-> NoSymbol, next |-> 0, last |-> 0, mem |-> NewAccount]

Init ==
  /\ shown = [s \in Symbol |-> 1] /\ file = [s \in Symbol |-> 0]
  /\ preds = {} /\ journal = {}
  /\ pending = [s \in Symbol |-> 0] /\ cursor = [s \in Symbol |-> 0]
  /\ account = NewAccount /\ kill = FALSE
  /\ run = [p \in Process |-> IdleRun]
  /\ calm = TRUE
  /\ spent = [runs |-> 0, toggles |-> 0, deletes |-> 0, crashes |-> 0]

Active == {p \in Process : run[p].pc # "idle"}

\* The run leaves the symbol it is at, for the next one of the loop pc.
Back(r, pc) ==
  [IdleRun EXCEPT !.pc = pc, !.todo = r.todo, !.mem = r.mem]

-----------------------------------------------------------------------------
(* Scan, decide, record, submit *)

\* The engine is built, which loads the account; run_scan reads every symbol
\* through the cache and excludes the ones that fail.
Start(p) ==
  /\ run[p].pc = "idle" /\ spent.runs < MaxRuns
  /\ spent' = [spent EXCEPT !.runs = @ + 1]
  /\ \E scanned \in SUBSET Symbol :
       /\ file' = [s \in Symbol |->
                     IF s \in scanned /\ file[s] = 0 THEN shown[s] ELSE file[s]]
       /\ run' = [run EXCEPT ![p] = [IdleRun EXCEPT !.pc = "decide", !.todo = scanned,
                                                    !.mem = account]]
  /\ calm' = (calm /\ Active = {})
  /\ UNCHANGED <<shown, preds, journal, book, kill>>

\* A candidate that does not become a signal: its label is not BUY (never BUY
\* while the symbol is held), there is no usable ATR, or a stage fails.
Pass(p, s) ==
  /\ run[p].pc = "decide" /\ s \in run[p].todo
  /\ run' = [run EXCEPT ![p].todo = @ \ {s}]
  /\ UNCHANGED <<shown, file, preds, journal, book, kill, calm, spent>>

\* make_decision says BUY and the signal is priced from get_market_context.
Decide(p, s) ==
  /\ run[p].pc = "decide" /\ s \in run[p].todo
  /\ account.open # s
  /\ \E price \in Price :
       run' = [run EXCEPT ![p].todo = @ \ {s}, ![p].pc = "critique",
                 ![p].signal = [sym |-> s, entry |-> shown[s], price |-> price]]
  /\ UNCHANGED <<shown, file, preds, journal, book, kill, calm, spent>>

Predicted(signal) ==
  \E prediction \in preds : prediction.sym = signal.sym /\ prediction.entry = signal.entry

\* The critic's hard checks on shared state: KILL_SWITCH, DUPLICATE_EXPOSURE.
HardFailure(s) == kill \/ pending[s] # 0 \/ account.open = s

\* has_prediction_for_entry, then critic.engine.evaluate.  The prediction, the
\* orders, the positions and the kill switch are queried one after the other, and
\* taken together here: Duplicate, Bridge and Submit ask again what is at stake.
Critique(p) ==
  LET r == run[p] IN
  /\ r.pc = "critique"
  /\ IF Predicted(r.signal)
     THEN run' = [run EXCEPT ![p] = Back(r, "decide")]
     ELSE \E v \in IF HardFailure(r.signal.sym) THEN {"REJECT"} ELSE FreeVerdict :
            run' = [run EXCEPT ![p].pc = "save", ![p].verdict = v]
  /\ UNCHANGED <<shown, file, preds, journal, book, kill, calm, spent>>

\* Mutant of Duplicate: there is no unique index, only the check before.
NeverDuplicate(signal) == FALSE

\* The unique index on (symbol, entry_time) refuses the row.  On a database that
\* already holds duplicates the store goes without it; that is left out.
Duplicate(signal) == Predicted(signal)

\* Mutant of Blocks: only missing evidence blocks an order.
BlocksUnknown(verdict) == verdict = "INSUFFICIENT_EVIDENCE"

\* critic_blocks_execution
Blocks(verdict) == verdict \in Blocking

\* save_prediction; DuplicatePredictionError ends this candidate.
SavePrediction(p) ==
  LET r == run[p]
      goOn == ~Duplicate(r.signal) /\ ~Blocks(r.verdict)
  IN
  /\ r.pc = "save"
  /\ preds' = IF Duplicate(r.signal) THEN preds
              ELSE preds \cup {[sym |-> r.signal.sym, entry |-> r.signal.entry,
                                verdict |-> r.verdict]}
  /\ run' = [run EXCEPT ![p] = IF goOn THEN [r EXCEPT !.pc = "bridge"]
                               ELSE Back(r, "decide")]
  /\ UNCHANGED <<shown, file, journal, book, kill, calm, spent>>

\* _bridge_to_paper_execution looks at the kill switch ...
Bridge(p) ==
  LET r == run[p] IN
  /\ r.pc = "bridge"
  /\ run' = [run EXCEPT ![p] = IF kill THEN Back(r, "decide") ELSE [r EXCEPT !.pc = "submit"]]
  /\ UNCHANGED <<shown, file, preds, journal, book, kill, calm, spent>>

\* ... and submits.  A known signal_id returns its entry; otherwise the
\* transaction refreshes the account and the risk engine may veto, must when
\* the account holds a position or is halted.
Submit(p) ==
  LET r == run[p]
      s == r.signal.sym
      mayApprove == account.open = NoSymbol /\ ~account.halted
  IN
  /\ r.pc = "submit"
  /\ IF \E e \in journal : e.signal = r.signal
     THEN /\ run' = [run EXCEPT ![p] = Back(r, "decide")]
          /\ UNCHANGED <<journal, pending>>
     ELSE \E approved \in IF mayApprove THEN BOOLEAN ELSE {FALSE} :
            LET ordered == approved /\ pending[s] = 0 IN
            /\ journal' = journal \cup {[signal |-> r.signal, ordered |-> ordered]}
            /\ pending' = IF ordered THEN [pending EXCEPT ![s] = r.signal.entry] ELSE pending
            /\ run' = [run EXCEPT ![p] = [Back(r, "decide") EXCEPT !.mem = account]]
  /\ UNCHANGED <<shown, file, preds, cursor, account, kill, calm, spent>>

-----------------------------------------------------------------------------
(* advance_pending_paper_orders *)

Gather(p) ==
  /\ run[p].pc = "decide" /\ run[p].todo = {}
  /\ run' = [run EXCEPT ![p].pc = "advance",
               ![p].todo = {s \in Symbol : pending[s] # 0 \/ account.open = s}]
  /\ UNCHANGED <<shown, file, preds, journal, book, kill, calm, spent>>

\* _baseline_timestamp_for
Baseline(s) == IF cursor[s] # 0 THEN cursor[s] ELSE pending[s]

\* Mutant of HeldBack: the circuit breakers are not asked again.
HeldByPosition(s, mem) == account.open # s /\ (mem.open # NoSymbol \/ kill)

\* A bare pending order waits while the account, as this process knows it,
\* holds another position or is halted, or the kill switch is on.
HeldBack(s, mem) == account.open # s /\ (mem.open # NoSymbol \/ mem.halted \/ kill)

\* One symbol of the advance: baseline and guards, read once.  The list is
\* sorted by name; which symbol has which name is left open.  Its queries are one
\* step: HaltHoldsFills, which rests on them, is about a process that is alone.
Guard(p, s) ==
  LET r == run[p]
      left == [r EXCEPT !.todo = @ \ {s}]
      proceed == Baseline(s) # 0 /\ ~HeldBack(s, r.mem)
  IN
  /\ r.pc = "advance" /\ s \in r.todo
  /\ run' = [run EXCEPT ![p] =
               IF proceed THEN [left EXCEPT !.pc = "fetch", !.sym = s, !.next = Baseline(s) + 1]
               ELSE left]
  /\ UNCHANGED <<shown, file, preds, journal, book, kill, calm, spent>>

\* fetch_ohlcv through the cache: a file is served as it is.
Fetch(p) ==
  LET r == run[p]
      end == IF file[r.sym] # 0 THEN file[r.sym] ELSE shown[r.sym]
  IN
  /\ r.pc = "fetch"
  /\ file' = [file EXCEPT ![r.sym] = end]
  /\ run' = [run EXCEPT ![p] = IF r.next > end THEN Back(r, "advance")
                               ELSE [r EXCEPT !.pc = "bars", !.last = end]]
  /\ UNCHANGED <<shown, preds, journal, book, kill, calm, spent>>

\* Without a file the provider is asked, and may fail: the symbol is left.
FetchFails(p) ==
  /\ run[p].pc = "fetch" /\ file[run[p].sym] = 0
  /\ run' = [run EXCEPT ![p] = Back(run[p], "advance")]
  /\ UNCHANGED <<shown, file, preds, journal, book, kill, calm, spent>>

\* The run after it committed bar r.next, with the account it saved.
AfterBar(r, acct) ==
  IF r.next = r.last THEN [Back(r, "advance") EXCEPT !.mem = acct]
  ELSE [r EXCEPT !.next = @ + 1, !.mem = acct]

\* process_bar on a bar that is not new: equal is skipped, older raises.
OldBar(p) ==
  LET r == run[p] IN
  /\ r.pc = "bars" /\ r.next <= cursor[r.sym]
  /\ run' = [run EXCEPT ![p] = IF r.next = cursor[r.sym] THEN AfterBar(r, account)
                               ELSE [Back(r, "advance") EXCEPT !.mem = account]]
  /\ UNCHANGED <<shown, file, preds, journal, book, kill, calm, spent>>

\* A fill raises, and its transaction is rolled back, when the account
\* already holds another symbol.
BarRaises(p) ==
  LET r == run[p] IN
  /\ r.pc = "bars" /\ r.next > cursor[r.sym]
  /\ pending[r.sym] # 0 /\ account.open \notin {NoSymbol, r.sym}
  /\ run' = [run EXCEPT ![p] = [Back(r, "advance") EXCEPT !.mem = account]]
  /\ UNCHANGED <<shown, file, preds, journal, book, kill, calm, spent>>

\* The committed account after a bar of s: its position stays or is closed,
\* and equity moves with it; otherwise only a new day can lift a halt.
AccountAfter(s) ==
  IF account.open = s \/ pending[s] # 0
  THEN [open : {s, NoSymbol}, halted : BOOLEAN]
  ELSE [open : {account.open}, halted : {FALSE, account.halted}]

NewBarProcessed(p) ==
  LET r == run[p]
      s == r.sym
  IN
  /\ r.pc = "bars" /\ r.next > cursor[s]
  /\ pending[s] = 0 \/ account.open \in {NoSymbol, s}
  /\ cursor' = [cursor EXCEPT ![s] = r.next]
  /\ pending' = IF account.open = s THEN pending ELSE [pending EXCEPT ![s] = 0]
  /\ account' \in AccountAfter(s)
  /\ run' = [run EXCEPT ![p] = AfterBar(r, account')]
  /\ UNCHANGED <<shown, file, preds, journal, kill, calm, spent>>

Finish(p) ==
  /\ run[p].pc = "advance" /\ run[p].todo = {}
  /\ run' = [run EXCEPT ![p] = IdleRun]
  /\ UNCHANGED <<shown, file, preds, journal, book, kill, calm, spent>>

-----------------------------------------------------------------------------
(* The environment *)

Publish(s) ==
  /\ shown[s] < MaxBar
  /\ shown' = [shown EXCEPT ![s] = @ + 1]
  /\ UNCHANGED <<file, preds, journal, book, kill, run, calm, spent>>

ToggleKill ==
  /\ spent.toggles < MaxToggles
  /\ spent' = [spent EXCEPT !.toggles = @ + 1]
  /\ kill' = ~kill
  /\ calm' = (calm /\ Active = {})
  /\ UNCHANGED <<shown, file, preds, journal, book, run>>

\* "Delete the file to refresh it" (backtesting/cache.py), some or all of them.
DeleteFiles ==
  /\ spent.deletes < MaxDeletes
  /\ spent' = [spent EXCEPT !.deletes = @ + 1]
  /\ \E deleted \in (SUBSET {s \in Symbol : file[s] # 0}) \ {{}} :
       file' = [s \in Symbol |-> IF s \in deleted THEN 0 ELSE file[s]]
  /\ UNCHANGED <<shown, preds, journal, book, kill, run, calm>>

Crash(p) ==
  /\ run[p].pc # "idle" /\ spent.crashes < MaxCrashes
  /\ spent' = [spent EXCEPT !.crashes = @ + 1]
  /\ run' = [run EXCEPT ![p] = IdleRun]
  /\ UNCHANGED <<shown, file, preds, journal, book, kill, calm>>

RunNext(p) ==
  \/ Start(p) \/ Critique(p) \/ SavePrediction(p) \/ Bridge(p) \/ Submit(p)
  \/ Gather(p) \/ Fetch(p) \/ FetchFails(p) \/ OldBar(p) \/ BarRaises(p)
  \/ NewBarProcessed(p) \/ Finish(p) \/ Crash(p)
  \/ \E s \in Symbol : Pass(p, s) \/ Decide(p, s) \/ Guard(p, s)

Next ==
  \/ \E p \in Process : RunNext(p)
  \/ \E s \in Symbol : Publish(s)
  \/ ToggleKill \/ DeleteFiles

Spec == Init /\ [][Next]_vars

-----------------------------------------------------------------------------
(* Properties *)

\* Types; a prediction is unique in its symbol and entry bar, nothing is
\* cached or processed that was not published, and an order's signal neither.
TypeOK ==
  /\ shown \in [Symbol -> 1 .. MaxBar] /\ file \in [Symbol -> Bar0]
  /\ preds \subseteq [sym : Symbol, entry : 1 .. MaxBar, verdict : Verdict]
  /\ \A a, b \in preds : a.sym = b.sym /\ a.entry = b.entry => a = b
  /\ journal \subseteq [signal : SignalId, ordered : BOOLEAN]
  /\ pending \in [Symbol -> Bar0] /\ cursor \in [Symbol -> Bar0]
  /\ account \in Account /\ kill \in BOOLEAN /\ calm \in BOOLEAN
  /\ run \in [Process -> Run]
  /\ \A s \in Symbol : file[s] <= shown[s] /\ cursor[s] <= shown[s] /\ pending[s] <= shown[s]

\* Runs that race on one bar, with different prices, or after a crash, place
\* at most one order for a symbol and entry bar, and only for a stored
\* prediction whose verdict does not block.
OneOrderPerPrediction ==
  /\ \A a, b \in {e \in journal : e.ordered} :
       a.signal.sym = b.signal.sym /\ a.signal.entry = b.signal.entry => a = b
  /\ \A e \in journal : \E prediction \in preds :
       /\ prediction.sym = e.signal.sym /\ prediction.entry = e.signal.entry
       /\ prediction.verdict \notin Blocking

FillsOn(s) == pending[s] # 0 /\ pending'[s] = 0

\* While no run overlaps another and the switch does not move during a run, an
\* old order never fills once the account is halted or the switch is on, also
\* when the halt comes from another symbol of the same advance.
HaltHoldsFills ==
  [][calm => \A s \in Symbol : FillsOn(s) => ~account.halted /\ ~kill]_vars

\* paper/advance.py: "NO LOOK-AHEAD BIAS BY CONSTRUCTION ... That baseline is
\* never the bar that generated the order": every fill is after its signal.
NoLookAhead ==
  [][\A s \in Symbol : FillsOn(s) => cursor'[s] > pending[s]]_vars

\* paper/advance.py: "every bar fed to process_bar() here is freshly fetched
\* from the provider AT CALL TIME": what the advance fetches is up to date.
FetchIsFresh ==
  [][\A p \in Process :
       run[p].pc = "fetch" /\ run'[p].pc \in {"bars", "advance"}
         => file'[run[p].sym] \in {0, shown[run[p].sym]}]_vars
=============================================================================
