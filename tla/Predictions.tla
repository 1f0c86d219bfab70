----------------------------- MODULE Predictions -----------------------------
(***************************************************************************)
(* Shadow predictions and their evaluation: predictions/store.py and       *)
(* predictions/tracker.py, as `evaluate`, `shadow-run` and the paper-live  *)
(* sessions (live/prediction_recorder.py) drive them at the same time on   *)
(* one database.                                                           *)
(*                                                                         *)
(* One symbol.  Its last bar is still forming, so its range may widen until*)
(* the next bar begins; the provider returns no more than the last Lookback*)
(* bars (_INTRADAY_MAX_LOOKBACK_PERIOD); the cache file is written in place*)
(* and, once there, served for ever (backtesting/cache.py).                *)
(***************************************************************************)
EXTENDS Integers, Sequences, FiniteSetsExt

CONSTANTS
  Evaluator,     \* processes evaluating on this database
  BarShape,      \* prices a bar may have
  Broken,        \* the oldest predictions: of a symbol the cache refuses, with a ValueError
  HorizonBars,   \* horizon_bars
  Lookback,      \* bars the provider returns at most
  Limit,         \* limit of list_predictions
  MaxBars, MaxPredictions,  \* bounds
  MaxFaults      \* bound: failed fetches, deleted files and crashes, together

ASSUME PredictionAssumption ==
  /\ BarShape \subseteq [low : Nat, high : Nat, close : Nat]
  /\ {HorizonBars, Lookback, Limit, MaxBars} \subseteq Nat \ {0}
  /\ {MaxPredictions, MaxFaults} \subseteq Nat
  /\ Broken \in 0 .. MaxPredictions

VARIABLES
  bars,      \* the market: the last bar is forming
  file,      \* the cached frame, or NoFile
  preds,     \* the predictions table, in the order of created_at
  latest,    \* latest[i]: outcome of the newest evaluation of prediction i
  resolved,  \* history: every evaluation saved that was not ACTIVE
  ev,        \* ev[p]: where process p is in its batch
  faults     \* faults so far

vars == <<bars, file, preds, latest, resolved, ev, faults>>

PredictionId == 1 .. MaxPredictions
Outcome == {"ACTIVE", "TARGET_HIT", "STOP_HIT", "EXPIRED", "INSUFFICIENT_DATA"}

\* A data frame: bars from, from + 1, ... of the market.
Frame  == [from : 1 .. MaxBars, rows : UNION {[1 .. n -> BarShape] : n \in 0 .. MaxBars}]
NoFile == [from |-> 0, rows |-> <<>>]
Last(frame) == frame.from + Len(frame.rows) - 1

\* An evaluation: the bar that decided it, the first bar it looked at (0 for
\* none), and whether its frame went beyond the deciding bar.
Evaluation ==
  [pred : PredictionId, outcome : Outcome, bar : 0 .. MaxBars,
   first : 0 .. MaxBars + 1, whole : BOOLEAN]

-----------------------------------------------------------------------------
(* evaluate_prediction *)

StopOf(price)   == price - 1
TargetOf(price) == price + 1

\* ANOMALOUS_BAR_GAP_THRESHOLD: half of the previous close, either way.
Anomalous(bar, previous_close) ==
  2 * bar.low < previous_close \/ 2 * bar.high > 3 * previous_close

\* Mutant of CheckExit: the target is looked at first.
TargetFirst(price, bar) ==
  IF bar.high >= TargetOf(price) THEN "TARGET_HIT"
  ELSE IF bar.low <= StopOf(price) THEN "STOP_HIT" ELSE "NONE"

\* backtesting.execution.check_exit: the stop when a bar reaches both.
CheckExit(price, bar) ==
  IF bar.low <= StopOf(price) THEN "STOP_HIT"
  ELSE IF bar.high >= TargetOf(price) THEN "TARGET_HIT" ELSE "NONE"

\* The first row of the frame after the entry bar.
FirstBar(entry, frame) == IF entry < frame.from THEN frame.from ELSE entry + 1

\* The loop over the subsequent bars returns at the first that decides.
Evaluated(i, frame) ==
  LET price == preds[i].price
      first == FirstBar(preds[i].entry, frame)
      last  == Last(frame)
      row(k) == frame.rows[k - frame.from + 1]
      decision(k) ==
        IF Anomalous(row(k), IF k = first THEN price ELSE row(k - 1).close)
        THEN "INSUFFICIENT_DATA"
        ELSE IF CheckExit(price, row(k)) # "NONE" THEN CheckExit(price, row(k))
        ELSE IF k - first + 1 >= HorizonBars THEN "EXPIRED" ELSE "NONE"
      result(outcome, k) ==
        [pred |-> i, outcome |-> outcome, bar |-> k, first |-> first, whole |-> k < last]
      returns(k) == decision(k) # "NONE" /\ \A j \in first .. k - 1 : decision(j) = "NONE"
  IN  IF \E k \in first .. last : returns(k)
      THEN CHOOSE e \in {result(decision(k), k) : k \in first .. last} : returns(e.bar)
      ELSE result("ACTIVE", 0)

\* A failed fetch is INSUFFICIENT_DATA too.
Failed(i) ==
  [pred |-> i, outcome |-> "INSUFFICIENT_DATA", bar |-> 0, first |-> 0, whole |-> FALSE]

-----------------------------------------------------------------------------
(* The batch *)

NoEvaluation == Failed(1)
IdleEvaluator ==
  [pc |-> "idle", todo |-> {}, row |-> NoEvaluation, frame |-> NoFile, raced |-> FALSE]

Init ==
  /\ \E bar \in BarShape : bars = <<bar>>
  /\ file = NoFile /\ resolved = {}
  /\ preds = [i \in 1 .. Broken |-> [entry |-> 0, price |-> 0]]
  /\ latest = [i \in PredictionId |-> "NONE"]
  /\ ev = [p \in Evaluator |-> IdleEvaluator]
  /\ faults = 0

\* The prediction a batch is at: it takes them in the order of created_at.
Current(e) == Min(e.todo)

\* list_predictions_needing_evaluation: of the oldest Limit predictions, those
\* without an evaluation and those whose newest one is ACTIVE.
Needing ==
  {i \in 1 .. Min({Limit, Len(preds)}) : latest[i] \in {"NONE", "ACTIVE"}}

List(p) ==
  /\ ev[p].pc = "idle" /\ Needing # {}
  /\ ev' = [ev EXCEPT ![p] = [IdleEvaluator EXCEPT !.pc = "next", !.todo = Needing]]
  /\ UNCHANGED <<bars, file, preds, latest, resolved, faults>>

\* What a cached file is read as.  Of one without a row, the header may be there
\* (an empty frame, nothing decided yet) or not (a MarketDataError).
ReadAs(i, frame) ==
  {Evaluated(i, frame)} \cup (IF frame.rows = <<>> THEN {Failed(i)} ELSE {})

\* The next prediction, through the cache: a file that is there is read as it is.
Take(p) ==
  LET e == ev[p]
  IN
  /\ e.pc = "next" /\ Current(e) > Broken
  /\ \/ /\ file = NoFile
        /\ ev' = [ev EXCEPT ![p].pc = "fetch"]
     \/ /\ file # NoFile
        /\ \E row \in ReadAs(Current(e), file) :
             ev' = [ev EXCEPT ![p] = [e EXCEPT !.pc = "save", !.row = row]]
  /\ UNCHANGED <<bars, file, preds, latest, resolved, faults>>

\* The provider answers; _write opens the file, which holds some of the rows
\* until it is written.
Fetch(p) ==
  LET from  == Max({1, Len(bars) - Lookback + 1})
      frame == [from |-> from, rows |-> SubSeq(bars, from, Len(bars))]
  IN
  /\ ev[p].pc = "fetch"
  /\ \E n \in 0 .. Len(frame.rows) - 1 :
       file' = [frame EXCEPT !.rows = SubSeq(@, 1, n)]
  /\ ev' = [ev EXCEPT ![p].pc = "write", ![p].frame = frame]
  /\ UNCHANGED <<bars, preds, latest, resolved, faults>>

FetchFails(p) ==
  /\ ev[p].pc = "fetch" /\ faults < MaxFaults
  /\ faults' = faults + 1
  /\ ev' = [ev EXCEPT ![p].pc = "save", ![p].row = Failed(Current(ev[p]))]
  /\ UNCHANGED <<bars, file, preds, latest, resolved>>

Write(p) ==
  /\ ev[p].pc = "write"
  /\ file' = ev[p].frame
  /\ ev' = [ev EXCEPT ![p].pc = "save", ![p].frame = NoFile,
              ![p].row = Evaluated(Current(ev[p]), ev[p].frame)]
  /\ UNCHANGED <<bars, preds, latest, resolved, faults>>

\* On to the next prediction of the batch, or its end.
Rest(e) ==
  LET left == e.todo \ {Current(e)}
  IN  IF left = {} THEN IdleEvaluator
      ELSE [IdleEvaluator EXCEPT !.pc = "next", !.todo = left]

\* save_evaluation.  Rows are ordered by evaluated_at, taken before the fetch:
\* of two evaluations that overlapped, either may be the newest.
Save(p) ==
  LET e == ev[p]
      i == e.row.pred
      overlapping(q) == q # p /\ ev[q].pc \in {"fetch", "write", "save"} /\ Current(ev[q]) = i
  IN
  /\ e.pc = "save"
  /\ \/ latest' = [latest EXCEPT ![i] = e.row.outcome]
     \/ e.raced /\ UNCHANGED latest
  /\ resolved' = IF e.row.outcome = "ACTIVE" THEN resolved ELSE resolved \cup {e.row}
  /\ ev' = [q \in Evaluator |->
              IF q = p THEN Rest(e)
              ELSE IF overlapping(q) THEN [ev[q] EXCEPT !.raced = TRUE] ELSE ev[q]]
  /\ UNCHANGED <<bars, file, preds, faults>>

\* Mutant of AfterError: the batch ends with the first exception.
BatchAborted(e) == IdleEvaluator

\* except Exception: ... continuing with the rest of the batch.
AfterError(e) == Rest(e)

\* fetch_ohlcv raises something else than a MarketDataError.
Skip(p) ==
  /\ ev[p].pc = "next" /\ Current(ev[p]) <= Broken
  /\ ev' = [ev EXCEPT ![p] = AfterError(ev[p])]
  /\ UNCHANGED <<bars, file, preds, latest, resolved, faults>>

\* The file is deleted between exists() and read_csv: a FileNotFoundError, which
\* is no MarketDataError either.
Vanishes(p) ==
  /\ ev[p].pc = "next" /\ Current(ev[p]) > Broken
  /\ file # NoFile /\ faults < MaxFaults
  /\ faults' = faults + 1
  /\ file' = NoFile
  /\ ev' = [ev EXCEPT ![p] = AfterError(ev[p])]
  /\ UNCHANGED <<bars, preds, latest, resolved>>

-----------------------------------------------------------------------------
(* The environment *)

NextBar ==
  /\ Len(bars) < MaxBars
  /\ \E bar \in BarShape : bars' = Append(bars, bar)
  /\ UNCHANGED <<file, preds, latest, resolved, ev, faults>>

\* The forming bar trades at new extremes.
Widen ==
  /\ \E bar \in BarShape \ {bars[Len(bars)]} :
       /\ bar.low <= bars[Len(bars)].low /\ bar.high >= bars[Len(bars)].high
       /\ bars' = [bars EXCEPT ![Len(bars)] = bar]
  /\ UNCHANGED <<file, preds, latest, resolved, ev, faults>>

\* has_prediction_for_entry, and the unique index behind it.
Recordable(entry) == \A i \in DOMAIN preds : preds[i].entry # entry

\* save_prediction of a signal priced at the close of the current bar.
Record ==
  /\ Len(preds) < MaxPredictions /\ Recordable(Len(bars))
  /\ preds' = Append(preds, [entry |-> Len(bars), price |-> bars[Len(bars)].close])
  /\ UNCHANGED <<bars, file, latest, resolved, ev, faults>>

DeleteFile ==
  /\ file # NoFile /\ faults < MaxFaults
  /\ faults' = faults + 1
  /\ file' = NoFile
  /\ UNCHANGED <<bars, preds, latest, resolved, ev>>

Crash(p) ==
  /\ ev[p].pc # "idle" /\ faults < MaxFaults
  /\ faults' = faults + 1
  /\ ev' = [ev EXCEPT ![p] = IdleEvaluator]
  /\ UNCHANGED <<bars, file, preds, latest, resolved>>

Evaluate(p) ==
  \/ List(p) \/ Take(p) \/ Fetch(p) \/ FetchFails(p) \/ Write(p)
  \/ Save(p) \/ Skip(p)

Next ==
  \/ \E p \in Evaluator : Evaluate(p) \/ Vanishes(p) \/ Crash(p)
  \/ NextBar \/ Widen \/ Record \/ DeleteFile

Spec == Init /\ [][Next]_vars

\* The scheduler and the sessions run a batch again and again: some evaluator
\* always goes on, though any one of them may stop for ever.
FairSpec == Spec /\ WF_vars(\E p \in Evaluator : Evaluate(p))

-----------------------------------------------------------------------------
(* Properties *)

PreviousClose(i, k) == IF k <= preds[i].entry + 1 THEN preds[i].price ELSE bars[k - 1].close

\* The outcome bar k would decide for prediction i, worst first; "NONE" if none.
Verdict(i, k) ==
  IF Anomalous(bars[k], PreviousClose(i, k)) THEN "INSUFFICIENT_DATA"
  ELSE IF bars[k].low <= preds[i].price - 1  THEN "STOP_HIT"
  ELSE IF bars[k].high >= preds[i].price + 1 THEN "TARGET_HIT"
  ELSE IF k = preds[i].entry + HorizonBars   THEN "EXPIRED"
  ELSE "NONE"

\* Whoever evaluated it, whenever and on whatever frame, torn or stale: a
\* resolution that saw the first bar after the entry names the first bar of
\* the market that decides, and its outcome is that bar's, unless the frame
\* ended with that bar, which may then have been forming: see below.
ResolvedByTheFirstBar ==
  \A e \in resolved :
    e.first \in 1 .. preds[e.pred].entry + 1 =>
      /\ \A k \in e.first .. e.bar - 1 : Verdict(e.pred, k) = "NONE"
      /\ e.whole => e.outcome = Verdict(e.pred, e.bar)

\* "Resolved predictions ... are left alone, since the bars that resolved them
\* don't change" (predictions/store.py): what a resolution says is what its bar
\* decides, whether or not it was forming when it was read.  evaluate_prediction
\* never asks whether the last bar of its frame is complete, so it does change.
ResolvingBarsDoNotChange ==
  \A e \in resolved :
    e.first \in 1 .. preds[e.pred].entry + 1 => e.outcome = Verdict(e.pred, e.bar)

\* A prediction whose evaluation always raises never keeps the others from
\* being evaluated: "A prediction needs evaluation if it has no evaluation yet"
\* (predictions/store.py), and then gets one.
EveryPredictionIsEvaluated ==
  \A i \in Broken + 1 .. MaxPredictions : i \in DOMAIN preds ~> latest[i] # "NONE"
=============================================================================
