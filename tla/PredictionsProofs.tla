--------------------------- MODULE PredictionsProofs ---------------------------
(***************************************************************************)
(* What TLAPS proves of Predictions, for any evaluators, bars, horizons,   *)
(* lookbacks and faults: an evaluation that resolves a prediction names the*)
(* first bar of the market that decides it, although it may be computed    *)
(* from a frame that is torn, old, or ends in a bar that was still forming *)
(* (of whose own outcome nothing can be proved: that bar may change).      *)
(***************************************************************************)
EXTENDS Predictions, SequenceTheorems, WellFoundedInduction, TLAPS

\* How the market goes on: bars are added, the last one may change.
Onward(old, new) ==
  /\ new \in Seq(BarShape) /\ Len(old) <= Len(new)
  /\ \A k \in 1 .. Len(old) - 1 : new[k] = old[k]

\* A frame that was once read from the market: its rows are the market's bars,
\* but the last one may have been read while it was forming.
Row(frame, k) == frame.rows[k - frame.from + 1]
AnyFrame == [from : Nat, rows : Seq(BarShape)]

Snapshot(frame, market) ==
  /\ frame \in AnyFrame
  /\ Last(frame) <= Len(market)
  /\ frame.rows # <<>> => frame.from >= 1
  /\ \A k \in frame.from .. Last(frame) - 1 : Row(frame, k) = market[k]

\* What a bar decides, from its prices, the previous close, the price of the
\* signal, and whether the horizon ends with it.
Decided(bar, previous, price, ends) ==
  IF Anomalous(bar, previous) THEN "INSUFFICIENT_DATA"
  ELSE IF bar.low <= price - 1 THEN "STOP_HIT"
  ELSE IF bar.high >= price + 1 THEN "TARGET_HIT"
  ELSE IF ends THEN "EXPIRED" ELSE "NONE"

\* Verdict, of the market and the prediction given.
VerdictOn(prediction, market, k) ==
  Decided(market[k],
          IF k <= prediction.entry + 1 THEN prediction.price ELSE market[k - 1].close,
          prediction.price, k = prediction.entry + HorizonBars)

\* An evaluation that stands, whenever it was made: if it resolves and began
\* with the first bar, no bar before the one it names decides, and that bar
\* decides as it says, if the frame went beyond it.
Resolves(e, prediction) == e.outcome # "ACTIVE" /\ e.first \in 1 .. prediction.entry + 1

Stands(e, prediction, market) ==
  Resolves(e, prediction) =>
    /\ e.first = prediction.entry + 1 /\ e.bar \in e.first .. Len(market)
    /\ \A k \in e.first .. e.bar - 1 : VerdictOn(prediction, market, k) = "NONE"
    /\ e.whole => e.bar < Len(market) /\ e.outcome = VerdictOn(prediction, market, e.bar)

Prediction == [entry : Nat, price : Nat]
AnyEvaluation == [pred : Nat, outcome : Outcome, bar : Int, first : Int, whole : BOOLEAN]

Sound(e, table, market) ==
  e \in AnyEvaluation /\ e.pred \in 1 .. Len(table) /\ Stands(e, table[e.pred], market)

AnyEvaluator ==
  [pc : {"idle", "next", "fetch", "write", "save"}, todo : SUBSET Nat, row : AnyEvaluation,
   frame : AnyFrame, raced : BOOLEAN]

\* An evaluator's batch is of stored predictions, its frame was read from the
\* market, and the evaluation it is about to save stands.
Working(e, table, market) ==
  /\ e \in AnyEvaluator /\ e.todo \subseteq 1 .. Len(table)
  /\ e.pc # "idle" => e.todo # {}
  /\ Snapshot(e.frame, market)
  /\ e.pc = "save" => Sound(e.row, table, market)

ResolvedInv ==
  /\ bars \in Seq(BarShape) /\ bars # <<>> /\ preds \in Seq(Prediction)
  /\ Snapshot(file, bars)
  /\ DOMAIN ev = Evaluator /\ \A p \in Evaluator : Working(ev[p], preds, bars)
  /\ \A e \in resolved : e.outcome # "ACTIVE" /\ Sound(e, preds, bars)

-----------------------------------------------------------------------------
(* The least of a set of numbers, which FiniteSetsExt defines by CHOOSE *)

LEMMA MinIsLeast ==
  ASSUME NEW S \in SUBSET Nat, S # {}
  PROVE  Min(S) \in S /\ \A k \in S : Min(S) <= k
  <1> DEFINE Less == {ss \in Nat \X Nat : ss[1] < ss[2]}
  <1>1. IsWellFoundedOn(Less, Nat)
    BY NatLessThanWellFounded, Zenon DEF OpToRel
  <1>2. PICK least \in S : \A k \in S : ~(<<k, least>> \in Less)
    <2> HIDE DEF Less
    <2> QED
      BY <1>1, WFMin
  <1>3. ASSUME NEW k \in S PROVE least <= k
    <2>1. <<k, least>> \in Nat \X Nat
      OBVIOUS
    <2>2. ~(k < least)
      BY <1>2, <2>1
    <2> QED
      BY <2>2
  <1> QED
    BY <1>3 DEF Min

LEMMA MaxOfTwo ==
  ASSUME NEW m \in Int, NEW n \in Int
  PROVE  Max({m, n}) \in {m, n} /\ m <= Max({m, n}) /\ n <= Max({m, n})
  <1>1. \E x \in {m, n} : \A y \in {m, n} : x >= y
    BY SMT
  <1> QED
    BY <1>1 DEF Max

-----------------------------------------------------------------------------
(* Bars, and what they decide *)

LEMMA BarFields ==
  ASSUME NEW bar \in BarShape
  PROVE  bar.low \in Nat /\ bar.high \in Nat /\ bar.close \in Nat
  BY PredictionAssumption

\* Verdict is the verdict on the prediction and the market of the state.
LEMMA VerdictIs ==
  ASSUME NEW i, NEW k
  PROVE  Verdict(i, k) = VerdictOn(preds[i], bars, k)
  BY Zenon DEF Verdict, VerdictOn, Decided, PreviousClose

-----------------------------------------------------------------------------
(* Frames and evaluations stand as the market goes on *)

LEMMA SnapshotStands ==
  ASSUME NEW old \in Seq(BarShape), NEW new, Onward(old, new),
         NEW frame, Snapshot(frame, old)
  PROVE  Snapshot(frame, new)
  <1>1. frame.from \in Nat /\ frame.rows \in Seq(BarShape) /\ new \in Seq(BarShape)
    BY DEF Snapshot, AnyFrame, Onward
  <1>2. Last(frame) \in Int /\ Last(frame) = frame.from + Len(frame.rows) - 1
    BY <1>1 DEF Last
  <1>3. Last(frame) <= Len(old) /\ Len(old) <= Len(new) /\ Len(old) \in Nat
    BY DEF Snapshot, Onward
  <1>4. ASSUME NEW k \in frame.from .. Last(frame) - 1
        PROVE  Row(frame, k) = new[k]
    <2>1. frame.from >= 1
      <3>1. frame.rows # <<>>
        BY <1>1, <1>2, <1>4
      <3> QED
        BY <3>1 DEF Snapshot
    <2>2. k \in 1 .. Len(old) - 1
      BY <1>1, <1>2, <1>3, <1>4, <2>1
    <2>3. new[k] = old[k]
      BY <2>2 DEF Onward
    <2> QED
      BY <1>4, <2>3 DEF Snapshot
  <1> QED
    BY <1>2, <1>3, <1>4 DEF Snapshot

\* A bar that is no longer forming decides what it decided.
LEMMA VerdictIsFinal ==
  ASSUME NEW old \in Seq(BarShape), NEW new, Onward(old, new),
         NEW prediction \in Prediction, NEW k \in 1 .. Len(old) - 1
  PROVE  VerdictOn(prediction, new, k) = VerdictOn(prediction, old, k)
  <1>1. new[k] = old[k]
    BY DEF Onward
  <1>2. ~(k <= prediction.entry + 1) => new[k - 1] = old[k - 1]
    BY DEF Onward, Prediction
  <1> QED
    BY <1>1, <1>2, Zenon DEF VerdictOn

LEMMA StandsStands ==
  ASSUME NEW old \in Seq(BarShape), NEW new, Onward(old, new),
         NEW prediction \in Prediction, NEW e \in AnyEvaluation, Stands(e, prediction, old)
  PROVE  Stands(e, prediction, new)
  <1> SUFFICES ASSUME Resolves(e, prediction)
               PROVE  /\ e.first = prediction.entry + 1 /\ e.bar \in e.first .. Len(new)
                      /\ \A k \in e.first .. e.bar - 1 : VerdictOn(prediction, new, k) = "NONE"
                      /\ e.whole => e.bar < Len(new) /\ e.outcome = VerdictOn(prediction, new, e.bar)
    BY DEF Stands
  <1>1. /\ e.first = prediction.entry + 1 /\ e.bar \in e.first .. Len(old)
        /\ \A k \in e.first .. e.bar - 1 : VerdictOn(prediction, old, k) = "NONE"
        /\ e.whole => e.bar < Len(old) /\ e.outcome = VerdictOn(prediction, old, e.bar)
    BY DEF Stands
  <1>2. e.first \in Int /\ e.bar \in Int /\ prediction.entry \in Nat /\ e.first >= 1
    BY <1>1 DEF AnyEvaluation, Prediction
  <1>3. Len(old) \in Nat /\ Len(new) \in Nat /\ Len(old) <= Len(new)
    BY DEF Onward
  <1>4. \A k \in e.first .. e.bar - 1 : VerdictOn(prediction, new, k) = "NONE"
    BY <1>1, <1>2, <1>3, VerdictIsFinal
  <1>5. CASE e.whole
    <2>1. e.bar \in 1 .. Len(old) - 1
      BY <1>1, <1>2, <1>3, <1>5
    <2> QED
      BY <1>1, <1>2, <1>3, <1>4, <1>5, <2>1, VerdictIsFinal
  <1>6. CASE ~e.whole
    BY <1>1, <1>2, <1>3, <1>4, <1>6
  <1> QED
    BY <1>5, <1>6

\* Whatever the market does and whatever is recorded, an evaluation stands and
\* a batch works on.
LEMMA SoundStands ==
  ASSUME NEW old \in Seq(BarShape), NEW new, Onward(old, new),
         NEW table \in Seq(Prediction), NEW longer \in Seq(Prediction),
         Len(table) <= Len(longer), \A i \in 1 .. Len(table) : longer[i] = table[i],
         NEW e, Sound(e, table, old)
  PROVE  Sound(e, longer, new)
  <1>1. e \in AnyEvaluation /\ e.pred \in 1 .. Len(table) /\ Stands(e, table[e.pred], old)
    BY DEF Sound
  <1>2. table[e.pred] \in Prediction /\ longer[e.pred] = table[e.pred]
    BY <1>1
  <1>3. Stands(e, longer[e.pred], new)
    BY <1>1, <1>2, StandsStands
  <1>4. e.pred \in 1 .. Len(longer)
    BY <1>1
  <1> QED
    BY <1>1, <1>3, <1>4 DEF Sound

LEMMA WorkingStands ==
  ASSUME NEW old \in Seq(BarShape), NEW new, Onward(old, new),
         NEW table \in Seq(Prediction), NEW longer \in Seq(Prediction),
         Len(table) <= Len(longer), \A i \in 1 .. Len(table) : longer[i] = table[i],
         NEW e, Working(e, table, old)
  PROVE  Working(e, longer, new)
  <1>1. e.pc = "save" => Sound(e.row, longer, new)
    BY SoundStands DEF Working
  <1>2. Snapshot(e.frame, new)
    BY SnapshotStands DEF Working
  <1>3. e \in AnyEvaluator /\ e.todo \subseteq 1 .. Len(longer) /\ (e.pc # "idle" => e.todo # {})
    BY DEF Working
  <1> QED
    BY <1>1, <1>2, <1>3 DEF Working

\* Nothing may also happen to the market.
LEMMA OnwardAlone ==
  ASSUME NEW market \in Seq(BarShape)
  PROVE  Onward(market, market)
  BY DEF Onward

-----------------------------------------------------------------------------
(* What evaluate_prediction returns *)

\* What a row of the frame decides.
Decides(i, frame, k) ==
  Decided(Row(frame, k),
          IF k = FirstBar(preds[i].entry, frame) THEN preds[i].price
          ELSE Row(frame, k - 1).close,
          preds[i].price, k - FirstBar(preds[i].entry, frame) + 1 >= HorizonBars)

Answer(i, frame, outcome, k) ==
  [pred |-> i, outcome |-> outcome, bar |-> k, first |-> FirstBar(preds[i].entry, frame),
   whole |-> k < Last(frame)]

Returns(i, frame, k) ==
  /\ Decides(i, frame, k) # "NONE"
  /\ \A j \in FirstBar(preds[i].entry, frame) .. k - 1 : Decides(i, frame, j) = "NONE"

LEMMA EvaluatedIs ==
  ASSUME NEW i, NEW frame
  PROVE  \/ Evaluated(i, frame) = Answer(i, frame, "ACTIVE", 0)
         \/ \E k \in FirstBar(preds[i].entry, frame) .. Last(frame) :
              /\ Returns(i, frame, k)
              /\ Evaluated(i, frame) = Answer(i, frame, Decides(i, frame, k), k)
  <1> DEFINE price == preds[i].price
             first == FirstBar(preds[i].entry, frame)
             last  == Last(frame)
             row(k) == frame.rows[k - frame.from + 1]
             decision(k) ==
               IF Anomalous(row(k), IF k = first THEN price ELSE row(k - 1).close)
               THEN "INSUFFICIENT_DATA"
               ELSE IF CheckExit(price, row(k)) # "NONE" THEN CheckExit(price, row(k))
               ELSE IF k - first + 1 >= HorizonBars THEN "EXPIRED" ELSE "NONE"
             result(outcome, k) ==
               [pred |-> i, outcome |-> outcome, bar |-> k, first |-> first, whole |-> k < last]
             returns(k) == decision(k) # "NONE" /\ \A j \in first .. k - 1 : decision(j) = "NONE"
             found == {result(decision(k), k) : k \in first .. last}
  <1>1. Evaluated(i, frame) =
          IF \E k \in first .. last : returns(k)
          THEN CHOOSE e \in found : returns(e.bar) ELSE result("ACTIVE", 0)
    BY Zenon DEF Evaluated
  <1>2. ASSUME NEW k
        PROVE  decision(k) = Decides(i, frame, k)
    <2> DEFINE x == row(k)
               y == IF k = first THEN price ELSE row(k - 1).close
    <2>1. decision(k) = IF Anomalous(x, y) THEN "INSUFFICIENT_DATA"
                        ELSE IF CheckExit(price, x) # "NONE" THEN CheckExit(price, x)
                        ELSE IF k - first + 1 >= HorizonBars THEN "EXPIRED" ELSE "NONE"
      OBVIOUS
    <2>2. Decides(i, frame, k) = Decided(x, y, price, k - first + 1 >= HorizonBars)
      BY Zenon DEF Decides, Row
    <2> DEFINE anomalous == Anomalous(x, y)
               stop == x.low <= price - 1
               target == x.high >= price + 1
               ends == k - first + 1 >= HorizonBars
    <2>3. CheckExit(price, x) = IF stop THEN "STOP_HIT" ELSE IF target THEN "TARGET_HIT" ELSE "NONE"
      BY Zenon DEF CheckExit, StopOf, TargetOf
    <2>4. Decided(x, y, price, ends) =
            IF anomalous THEN "INSUFFICIENT_DATA" ELSE IF stop THEN "STOP_HIT"
            ELSE IF target THEN "TARGET_HIT" ELSE IF ends THEN "EXPIRED" ELSE "NONE"
      BY Zenon DEF Decided
    <2> HIDE DEF x, y, decision, price, first, anomalous, stop, target, ends
    <2>5. decision(k) = IF anomalous THEN "INSUFFICIENT_DATA"
                        ELSE IF CheckExit(price, x) # "NONE" THEN CheckExit(price, x)
                        ELSE IF ends THEN "EXPIRED" ELSE "NONE"
      BY <2>1, Zenon DEF anomalous, ends
    <2>6. Decides(i, frame, k) = Decided(x, y, price, ends)
      BY <2>2, Zenon DEF ends
    <2> QED
      BY <2>3, <2>4, <2>5, <2>6
  <1>3. ASSUME NEW k
        PROVE  /\ result(decision(k), k) = Answer(i, frame, Decides(i, frame, k), k)
               /\ result("ACTIVE", 0) = Answer(i, frame, "ACTIVE", 0)
               /\ result(decision(k), k).bar = k
    <2>1. result("ACTIVE", 0) = Answer(i, frame, "ACTIVE", 0)
      BY Zenon DEF Answer
    <2> HIDE DEF decision
    <2> QED
      BY <1>2, <2>1 DEF Answer
  <1>4. ASSUME NEW k, returns(k)
        PROVE  Returns(i, frame, k)
    <2> HIDE DEF decision
    <2> QED
      BY <1>2, <1>4 DEF Returns
  <1> HIDE DEF first, last, result, decision
  <1>5. CASE \E k \in first .. last : returns(k)
    <2>1. PICK k0 \in first .. last : returns(k0)
      BY <1>5
    <2>2. result(decision(k0), k0) \in found /\ returns(result(decision(k0), k0).bar)
      BY <2>1, <1>3
    <2>3. Evaluated(i, frame) \in found /\ returns(Evaluated(i, frame).bar)
      <3> HIDE DEF found, returns
      <3> QED
        BY <1>1, <1>5, <2>2, Zenon
    <2>4. PICK k \in first .. last : Evaluated(i, frame) = result(decision(k), k)
      BY <2>3
    <2>5. returns(k)
      <3> HIDE DEF returns
      <3> QED
        BY <2>3, <2>4, <1>3
    <2> HIDE DEF returns
    <2> QED
      BY <2>4, <2>5, <1>3, <1>4 DEF first, last
  <1>6. CASE ~\E k \in first .. last : returns(k)
    BY <1>1, <1>3, <1>6
  <1> QED
    BY <1>5, <1>6

\* A decision is one of the four outcomes that resolve.
LEMMA DecidedOutcome ==
  ASSUME NEW bar, NEW previous, NEW price, NEW ends, Decided(bar, previous, price, ends) # "NONE"
  PROVE  Decided(bar, previous, price, ends) \in Outcome \ {"ACTIVE"}
  <1> DEFINE a == Anomalous(bar, previous)
             b == bar.low <= price - 1
             c == bar.high >= price + 1
  <1>1. Decided(bar, previous, price, ends) =
          IF a THEN "INSUFFICIENT_DATA" ELSE IF b THEN "STOP_HIT"
          ELSE IF c THEN "TARGET_HIT" ELSE IF ends THEN "EXPIRED" ELSE "NONE"
    BY Zenon DEF Decided
  <1> HIDE DEF a, b, c
  <1> QED
    BY <1>1 DEF Outcome

\* A frame that holds the first bar after the entry: what its rows decide, up
\* to the first that does and but for the last, is what the market does.
LEMMA DecidesAsTheMarket ==
  ASSUME bars \in Seq(BarShape), preds \in Seq(Prediction), NEW frame, Snapshot(frame, bars),
         NEW i \in 1 .. Len(preds), FirstBar(preds[i].entry, frame) = preds[i].entry + 1,
         NEW k \in preds[i].entry + 1 .. Last(frame) - 1, k <= preds[i].entry + HorizonBars
  PROVE  Decides(i, frame, k) = VerdictOn(preds[i], bars, k)
  <1> DEFINE p == preds[i]
             first == p.entry + 1
             ends == k = p.entry + HorizonBars
             before == IF k = first THEN p.price ELSE bars[k - 1].close
  <1>1. p.entry \in Nat /\ p.price \in Nat
    <2>1. p \in Prediction
      OBVIOUS
    <2> QED
      BY <2>1 DEF Prediction
  <1>2. frame.from \in Nat /\ frame.rows \in Seq(BarShape) /\ Last(frame) \in Int
        /\ Last(frame) = frame.from + Len(frame.rows) - 1 /\ Last(frame) <= Len(bars)
    BY DEF Snapshot, AnyFrame, Last
  <1>3. frame.from <= first
    BY <1>1, <1>2 DEF FirstBar
  <1>4. HorizonBars \in Nat \ {0}
    BY PredictionAssumption
  <1>5. k \in frame.from .. Last(frame) - 1 /\ k \in Int
    BY <1>1, <1>2, <1>3
  <1>6. \A j \in frame.from .. Last(frame) - 1 : Row(frame, j) = bars[j]
    BY DEF Snapshot
  <1>7. Decides(i, frame, k) = Decided(Row(frame, k), before, p.price, ends)
    <2>1. k # first => k - 1 \in frame.from .. Last(frame) - 1
      <3>1. first \in Nat /\ first <= k
        BY <1>1, <1>5
      <3> HIDE DEF first
      <3> QED
        BY <1>2, <1>3, <1>5, <3>1
    <2>2. k # first => Row(frame, k - 1) = bars[k - 1]
      BY <2>1, <1>6
    <2>3. (k - first + 1 >= HorizonBars) = ends
      BY <1>1, <1>4, <1>5
    <2>4. Decides(i, frame, k) =
            Decided(Row(frame, k), IF k = first THEN p.price ELSE Row(frame, k - 1).close,
                    p.price, k - first + 1 >= HorizonBars)
      BY Zenon DEF Decides
    <2>5. before = IF k = first THEN p.price ELSE Row(frame, k - 1).close
      BY <2>2
    <2> HIDE DEF p, first, ends, before
    <2> QED
      BY <2>3, <2>4, <2>5
  <1>8. VerdictOn(p, bars, k) = Decided(bars[k], before, p.price, ends)
    <2>1. (k <= p.entry + 1) = (k = first)
      BY <1>1, <1>5
    <2>2. VerdictOn(p, bars, k) =
            Decided(bars[k], IF k <= p.entry + 1 THEN p.price ELSE bars[k - 1].close, p.price, ends)
      BY Zenon DEF VerdictOn
    <2>3. before = IF k <= p.entry + 1 THEN p.price ELSE bars[k - 1].close
      BY <2>1
    <2> HIDE DEF p, first, ends, before
    <2> QED
      BY <2>2, <2>3
  <1>9. Row(frame, k) = bars[k]
    BY <1>5, <1>6
  <1> HIDE DEF before, ends, first
  <1> QED
    BY <1>7, <1>8, <1>9

LEMMA EvaluatedSound ==
  ASSUME bars \in Seq(BarShape), preds \in Seq(Prediction), NEW frame, Snapshot(frame, bars),
         NEW i \in 1 .. Len(preds)
  PROVE  Sound(Evaluated(i, frame), preds, bars)
  <1> DEFINE p == preds[i]
             first == FirstBar(p.entry, frame)
             e == Evaluated(i, frame)
  <1>1. p \in Prediction /\ p.entry \in Nat
    <2>1. p \in Prediction
      OBVIOUS
    <2> QED
      BY <2>1 DEF Prediction
  <1>2. frame.from \in Nat /\ Last(frame) \in Int /\ Last(frame) <= Len(bars) /\ first \in Nat
    BY <1>1 DEF Snapshot, AnyFrame, Last, FirstBar
  <1>3. CASE e = Answer(i, frame, "ACTIVE", 0)
    <2>1. e \in AnyEvaluation /\ e.pred = i /\ e.outcome = "ACTIVE"
      BY <1>2, <1>3 DEF Answer, AnyEvaluation, Outcome
    <2> QED
      BY <2>1 DEF Sound, Stands, Resolves
  <1>4. ASSUME NEW k \in first .. Last(frame), Returns(i, frame, k),
               e = Answer(i, frame, Decides(i, frame, k), k)
        PROVE  Sound(e, preds, bars)
    <2>1. Decides(i, frame, k) \in Outcome \ {"ACTIVE"}
      BY <1>4, DecidedOutcome DEF Returns, Decides
    <2>2. /\ e \in AnyEvaluation /\ e.pred = i /\ e.outcome = Decides(i, frame, k)
          /\ e.bar = k /\ e.first = first /\ e.whole = (k < Last(frame))
      BY <1>2, <1>4, <2>1 DEF Answer, AnyEvaluation
    <2>3. ASSUME first \in 1 .. p.entry + 1
          PROVE  /\ first = p.entry + 1 /\ k \in first .. Len(bars)
                 /\ \A j \in first .. k - 1 : VerdictOn(p, bars, j) = "NONE"
                 /\ k < Last(frame) => Decides(i, frame, k) = VerdictOn(p, bars, k)
      <3>1. first = p.entry + 1
        BY <1>1, <1>2, <2>3 DEF FirstBar
      <3>2. HorizonBars \in Nat \ {0}
        BY PredictionAssumption
      <3>3. k <= p.entry + HorizonBars
        <4> DEFINE h == p.entry + HorizonBars
        <4>1. SUFFICES ASSUME k > h PROVE FALSE
          BY <1>1, <1>2, <3>2
        <4>2. h \in first .. k - 1 /\ h - first + 1 >= HorizonBars
          BY <1>1, <1>2, <3>1, <3>2, <4>1
        <4>3. Decides(i, frame, h) = "NONE"
          BY <1>4, <4>2 DEF Returns
        <4>4. Decides(i, frame, h) # "NONE"
          <5>1. h - FirstBar(preds[i].entry, frame) + 1 >= HorizonBars
            BY <4>2
          <5> HIDE DEF h
          <5> DEFINE a == Anomalous(Row(frame, h), IF h = FirstBar(preds[i].entry, frame)
                                    THEN preds[i].price ELSE Row(frame, h - 1).close)
                     b == Row(frame, h).low <= preds[i].price - 1
                     c == Row(frame, h).high >= preds[i].price + 1
          <5>2. Decides(i, frame, h) =
                  IF a THEN "INSUFFICIENT_DATA" ELSE IF b THEN "STOP_HIT"
                  ELSE IF c THEN "TARGET_HIT" ELSE "EXPIRED"
            BY <5>1, Zenon DEF Decides, Decided
          <5> HIDE DEF a, b, c
          <5> QED
            BY <5>2
        <4> QED
          BY <4>3, <4>4
      <3>4. ASSUME NEW j \in first .. k, j < Last(frame)
            PROVE  Decides(i, frame, j) = VerdictOn(p, bars, j)
        <4>1. j \in preds[i].entry + 1 .. Last(frame) - 1 /\ j <= preds[i].entry + HorizonBars
          BY <1>1, <1>2, <3>1, <3>2, <3>3, <3>4
        <4>2. FirstBar(preds[i].entry, frame) = preds[i].entry + 1
          BY <3>1
        <4> QED
          BY <4>1, <4>2, DecidesAsTheMarket
      <3>5. \A j \in first .. k - 1 : VerdictOn(p, bars, j) = "NONE"
        <4>1. ASSUME NEW j \in first .. k - 1
              PROVE  VerdictOn(p, bars, j) = "NONE"
          <5>1. j \in first .. k /\ j < Last(frame)
            BY <1>2
          <5>2. Decides(i, frame, j) = "NONE"
            BY <1>4 DEF Returns
          <5> QED
            BY <3>4, <5>1, <5>2
        <4> QED
          BY <4>1
      <3>6. k \in first .. k /\ k \in first .. Len(bars)
        BY <1>2
      <3> QED
        BY <3>1, <3>4, <3>5, <3>6
    <2>4. k < Last(frame) => k < Len(bars)
      BY <1>2
    <2> HIDE DEF e, first
    <2>5. Stands(e, p, bars)
      BY <2>2, <2>3, <2>4 DEF Stands, Resolves
    <2> QED
      BY <2>2, <2>5 DEF Sound
  <1> QED
    BY <1>3, <1>4, EvaluatedIs

LEMMA FailedSound ==
  ASSUME NEW i, i \in 1 .. Len(preds), preds \in Seq(Prediction)
  PROVE  Sound(Failed(i), preds, bars)
  <1>1. Failed(i) \in AnyEvaluation /\ Failed(i).pred = i /\ Failed(i).first = 0
    BY DEF Failed, AnyEvaluation, Outcome
  <1> QED
    BY <1>1 DEF Sound, Stands, Resolves

-----------------------------------------------------------------------------
(* The batch *)

LEMMA CurrentIsDue ==
  ASSUME NEW e, NEW table, NEW market, Working(e, table, market), e.pc # "idle"
  PROVE  Current(e) \in e.todo /\ Current(e) \in 1 .. Len(table)
  <1>1. e.todo \subseteq 1 .. Len(table) /\ e.todo # {} /\ e.todo \in SUBSET Nat
    BY DEF Working, AnyEvaluator
  <1> QED
    BY <1>1, MinIsLeast, Zenon DEF Current

LEMMA EmptyFrameStands ==
  ASSUME NEW market \in Seq(BarShape)
  PROVE  Snapshot(NoFile, market)
  BY DEF Snapshot, AnyFrame, NoFile, Last

LEMMA IdleFields ==
  /\ IdleEvaluator \in AnyEvaluator
  /\ IdleEvaluator.pc = "idle" /\ IdleEvaluator.todo = {} /\ IdleEvaluator.frame = NoFile
  <1>1. NoEvaluation \in AnyEvaluation
    BY DEF NoEvaluation, Failed, AnyEvaluation, Outcome
  <1>2. NoFile \in AnyFrame
    BY DEF NoFile, AnyFrame
  <1> QED
    BY <1>1, <1>2 DEF IdleEvaluator, AnyEvaluator

LEMMA IdleWorks ==
  ASSUME NEW table, NEW market \in Seq(BarShape)
  PROVE  Working(IdleEvaluator, table, market)
  BY IdleFields, EmptyFrameStands DEF Working

\* An evaluator with predictions of the table to do.
LEMMA NextWorks ==
  ASSUME NEW table, NEW market \in Seq(BarShape), NEW todo \in SUBSET Nat,
         todo \subseteq 1 .. Len(table), todo # {},
         NEW e, e = [IdleEvaluator EXCEPT !.pc = "next", !.todo = todo]
  PROVE  Working(e, table, market)
  <1>1. e \in AnyEvaluator /\ e.pc = "next" /\ e.todo = todo /\ e.frame = NoFile
    BY IdleFields DEF AnyEvaluator
  <1>2. Snapshot(e.frame, market)
    BY <1>1, EmptyFrameStands
  <1> QED
    BY <1>1, <1>2 DEF Working

LEMMA RestWorks ==
  ASSUME NEW e, NEW table, NEW market \in Seq(BarShape), Working(e, table, market)
  PROVE  Working(Rest(e), table, market)
  <1> DEFINE left == e.todo \ {Current(e)}
  <1>1. left \in SUBSET Nat /\ left \subseteq 1 .. Len(table)
    BY DEF Working, AnyEvaluator
  <1>2. Rest(e) = IF left = {} THEN IdleEvaluator
                  ELSE [IdleEvaluator EXCEPT !.pc = "next", !.todo = left]
    BY Zenon DEF Rest
  <1> HIDE DEF left
  <1>3. CASE left = {}
    BY <1>2, <1>3, IdleWorks, Zenon
  <1>4. CASE left # {}
    BY <1>1, <1>2, <1>4, NextWorks
  <1> QED
    BY <1>3, <1>4

\* An evaluator about to save.
LEMMA SaveWorks ==
  ASSUME NEW table, NEW market, NEW e, Working(e, table, market), e.pc # "idle",
         NEW row, Sound(row, table, market), NEW frame \in {e.frame, NoFile},
         market \in Seq(BarShape),
         NEW f, f = [e EXCEPT !.pc = "save", !.frame = frame, !.row = row]
  PROVE  Working(f, table, market)
  <1>1. row \in AnyEvaluation /\ frame \in AnyFrame /\ Snapshot(frame, market)
    BY EmptyFrameStands DEF Sound, Snapshot, Working
  <1>2. f \in AnyEvaluator /\ f.pc = "save" /\ f.todo = e.todo /\ f.frame = frame /\ f.row = row
    BY <1>1 DEF Working, AnyEvaluator
  <1> QED
    BY <1>1, <1>2 DEF Working

LEMMA NeedingIsStored ==
  ASSUME preds \in Seq(Prediction)
  PROVE  Needing \in SUBSET Nat /\ Needing \subseteq 1 .. Len(preds)
  <1> DEFINE last == Min({Limit, Len(preds)})
  <1>1. Limit \in Nat /\ Len(preds) \in Nat
    BY PredictionAssumption
  <1>2. last \in Nat /\ last <= Len(preds)
    BY <1>1, MinIsLeast
  <1>3. Needing \subseteq 1 .. last
    BY Zenon DEF Needing
  <1> HIDE DEF last
  <1> QED
    BY <1>1, <1>2, <1>3

-----------------------------------------------------------------------------
(* What the provider answers *)

LEMMA OldestAsked ==
  ASSUME NEW length \in Nat \ {0}
  PROVE  Max({1, length - Lookback + 1}) \in 1 .. length
  <1>1. Lookback \in Nat \ {0}
    BY PredictionAssumption
  <1> DEFINE n == length - Lookback + 1
  <1>2. n \in Int /\ n <= length
    BY <1>1
  <1> HIDE DEF n
  <1>3. Max({1, n}) \in {1, n} /\ 1 <= Max({1, n})
    BY <1>2, MaxOfTwo
  <1>4. Max({1, n}) \in 1 .. length
    BY <1>2, <1>3
  <1> QED
    BY <1>4 DEF n

\* A frame of n bars of the market, as they are.
LEMMA PartIsSnapshot ==
  ASSUME NEW market \in Seq(BarShape), NEW from \in 1 .. Len(market),
         NEW n \in 0 .. Len(market) - from + 1, NEW frame \in AnyFrame,
         frame.from = from, Len(frame.rows) = n,
         \A j \in 1 .. n : frame.rows[j] = market[from + j - 1]
  PROVE  Snapshot(frame, market)
  <1>1. Last(frame) = from + n - 1
    BY DEF Last
  <1>2. ASSUME NEW k \in from .. from + n - 1
        PROVE  Row(frame, k) = market[k]
    <2>1. k - from + 1 \in 1 .. n /\ from + (k - from + 1) - 1 = k
      OBVIOUS
    <2> QED
      BY <2>1, Zenon DEF Row
  <1>3. Last(frame) <= Len(market) /\ frame.from >= 1
    BY <1>1
  <1>4. \A k \in frame.from .. Last(frame) - 1 : Row(frame, k) = market[k]
    BY <1>1, <1>2
  <1> QED
    BY <1>3, <1>4 DEF Snapshot

LEMMA AnswerIsSnapshot ==
  ASSUME NEW market \in Seq(BarShape), market # <<>>
  PROVE  LET from  == Max({1, Len(market) - Lookback + 1})
             frame == [from |-> from, rows |-> SubSeq(market, from, Len(market))]
         IN  /\ Snapshot(frame, market)
             /\ \A n \in 0 .. Len(frame.rows) - 1 :
                  Snapshot([frame EXCEPT !.rows = SubSeq(@, 1, n)], market)
  <1> DEFINE from  == Max({1, Len(market) - Lookback + 1})
             rows  == SubSeq(market, from, Len(market))
             frame == [from |-> from, rows |-> rows]
  <1>1. from \in 1 .. Len(market)
    <2>1. Len(market) \in Nat \ {0}
      OBVIOUS
    <2> QED
      BY <2>1, OldestAsked
  <1> HIDE DEF from
  <1>2. /\ rows \in Seq(BarShape) /\ Len(rows) = Len(market) - from + 1
        /\ \A j \in 1 .. Len(rows) : rows[j] = market[from + j - 1]
    <2>1. \A k \in from .. Len(market) : market[k] \in BarShape
      BY <1>1
    <2>2. from \in Int /\ Len(market) \in Int /\ from <= Len(market)
      BY <1>1
    <2>3. /\ rows \in Seq(BarShape) /\ Len(rows) = Len(market) - from + 1
          /\ \A j \in 1 .. Len(market) - from + 1 : rows[j] = market[from + j - 1]
      BY <2>1, <2>2, SubSeqProperties
    <2> QED
      BY <2>3
  <1> HIDE DEF rows
  <1>3. frame \in AnyFrame /\ frame.from = from /\ frame.rows = rows
    BY <1>1, <1>2 DEF AnyFrame
  <1>4. Snapshot(frame, market)
    <2> DEFINE n == Len(rows)
    <2> HIDE DEF frame
    <2>1. n \in 0 .. Len(market) - from + 1 /\ Len(frame.rows) = n
      BY <1>1, <1>2, <1>3
    <2>2. \A j \in 1 .. n : frame.rows[j] = market[from + j - 1]
      BY <1>2, <1>3
    <2> HIDE DEF n
    <2> QED
      BY <1>1, <1>3, <2>1, <2>2, PartIsSnapshot
  <1>5. ASSUME NEW n \in 0 .. Len(rows) - 1
        PROVE  Snapshot([frame EXCEPT !.rows = SubSeq(@, 1, n)], market)
    <2> DEFINE part == SubSeq(rows, 1, n)
               shown == [from |-> from, rows |-> part]
    <2>1. [frame EXCEPT !.rows = SubSeq(@, 1, n)] = shown
      <3>1. [frame EXCEPT !.rows = SubSeq(@, 1, n)] = [frame EXCEPT !.rows = SubSeq(frame.rows, 1, n)]
        BY Zenon
      <3>2. SubSeq(frame.rows, 1, n) = part
        OBVIOUS
      <3> HIDE DEF part
      <3>3. [frame EXCEPT !.rows = part] = shown
        OBVIOUS
      <3> HIDE DEF frame, shown
      <3> QED
        BY <3>1, <3>2, <3>3, Zenon
    <2>2. part \in Seq(BarShape) /\ Len(part) = n /\ \A j \in 1 .. n : part[j] = rows[j]
      <3>1. \A k \in 1 .. n : rows[k] \in BarShape
        BY <1>2
      <3>2. n \in Nat /\ 1 \in Int /\ n \in Int
        BY <1>2
      <3>3. /\ part \in Seq(BarShape) /\ Len(part) = IF 1 <= n THEN n - 1 + 1 ELSE 0
            /\ \A j \in 1 .. n - 1 + 1 : part[j] = rows[1 + j - 1]
        BY <3>1, <3>2, SubSeqProperties
      <3> HIDE DEF part
      <3> QED
        BY <3>2, <3>3
    <2> HIDE DEF part
    <2>3. shown \in AnyFrame /\ shown.from = from /\ shown.rows = part
      BY <1>1, <2>2 DEF AnyFrame
    <2> HIDE DEF shown
    <2>4. Snapshot(shown, market)
      <3>1. n \in 0 .. Len(market) - from + 1
        BY <1>1, <1>2
      <3>2. \A j \in 1 .. n : shown.rows[j] = market[from + j - 1]
        BY <1>1, <1>2, <2>2, <2>3
      <3> QED
        BY <1>1, <2>2, <2>3, <3>1, <3>2, PartIsSnapshot
    <2> QED
      BY <2>1, <2>4
  <1>6. \A n \in 0 .. Len(frame.rows) - 1 :
          Snapshot([frame EXCEPT !.rows = SubSeq(@, 1, n)], market)
    <2>1. frame.rows = rows
      BY <1>3
    <2> HIDE DEF frame
    <2> QED
      BY <1>5, <2>1
  <1> QED
    BY <1>4, <1>6, Zenon DEF frame, rows, from

-----------------------------------------------------------------------------
(* Every step keeps the invariant *)

\* A step of one evaluator that saves nothing.
LEMMA OneWorks ==
  ASSUME ResolvedInv, NEW p \in Evaluator, NEW r, Working(r, preds, bars),
         ev' = [ev EXCEPT ![p] = r], Snapshot(file', bars), UNCHANGED <<bars, preds, resolved>>
  PROVE  ResolvedInv'
  <1>1. DOMAIN ev' = Evaluator /\ \A q \in Evaluator : Working(ev'[q], preds, bars)
    <2>1. DOMAIN ev = Evaluator /\ \A q \in Evaluator : Working(ev[q], preds, bars)
      BY DEF ResolvedInv
    <2>2. \A q \in Evaluator : ev'[q] = IF q = p THEN r ELSE ev[q]
      BY <2>1, Zenon
    <2>3. DOMAIN ev' = Evaluator
      BY <2>1, Zenon
    <2>4. ASSUME NEW q \in Evaluator
          PROVE  Working(ev'[q], preds, bars)
      BY <2>1, <2>2, Zenon
    <2> QED
      BY <2>3, <2>4
  <1>2. /\ bars \in Seq(BarShape) /\ bars # <<>> /\ preds \in Seq(Prediction)
        /\ \A e \in resolved : e.outcome # "ACTIVE" /\ Sound(e, preds, bars)
    BY Zenon DEF ResolvedInv
  <1>3. bars' = bars /\ preds' = preds /\ resolved' = resolved
    BY Zenon
  <1> QED
    BY <1>1, <1>2, <1>3, Zenon DEF ResolvedInv

LEMMA ListKeeps ==
  ASSUME ResolvedInv, NEW p \in Evaluator, List(p)
  PROVE  ResolvedInv'
  <1> DEFINE r == [IdleEvaluator EXCEPT !.pc = "next", !.todo = Needing]
  <1>1. /\ Needing # {} /\ ev' = [ev EXCEPT ![p] = r]
        /\ UNCHANGED <<bars, file, preds, resolved>>
    BY Zenon DEF List
  <1>2. bars \in Seq(BarShape) /\ preds \in Seq(Prediction) /\ Snapshot(file, bars)
    BY Zenon DEF ResolvedInv
  <1>3. Working(r, preds, bars)
    <2>1. Needing \in SUBSET Nat /\ Needing \subseteq 1 .. Len(preds)
      BY <1>2, NeedingIsStored
    <2> HIDE DEF r
    <2>2. r = [IdleEvaluator EXCEPT !.pc = "next", !.todo = Needing]
      BY Zenon DEF r
    <2> QED
      BY <1>1, <1>2, <2>1, <2>2, NextWorks
  <1> HIDE DEF r
  <1> QED
    BY <1>1, <1>2, <1>3, OneWorks

LEMMA TakeKeeps ==
  ASSUME ResolvedInv, NEW p \in Evaluator, Take(p)
  PROVE  ResolvedInv'
  <1> DEFINE e == ev[p]
  <1>1. e.pc = "next" /\ UNCHANGED <<bars, file, preds, resolved>>
    BY Zenon DEF Take
  <1>2. /\ bars \in Seq(BarShape) /\ preds \in Seq(Prediction) /\ Snapshot(file, bars)
        /\ Working(e, preds, bars)
    BY Zenon DEF ResolvedInv
  <1>3. Current(e) \in 1 .. Len(preds) /\ e.pc # "idle"
    BY <1>1, <1>2, CurrentIsDue
  <1>4. CASE ev' = [ev EXCEPT ![p].pc = "fetch"]
    <2> DEFINE r == [e EXCEPT !.pc = "fetch"]
    <2>1. /\ r \in AnyEvaluator /\ r.pc = "fetch" /\ r.todo = e.todo /\ r.frame = e.frame
      BY <1>2 DEF Working, AnyEvaluator
    <2>2. ev' = [ev EXCEPT ![p] = r]
      BY <1>4, Zenon
    <2> HIDE DEF r, e
    <2>3. Working(r, preds, bars)
      BY <1>2, <1>3, <2>1 DEF Working
    <2> QED
      BY <1>1, <1>2, <2>2, <2>3, OneWorks
  <1>5. ASSUME NEW row \in ReadAs(Current(e), file),
               ev' = [ev EXCEPT ![p] = [e EXCEPT !.pc = "save", !.row = row]]
        PROVE  ResolvedInv'
    <2> DEFINE r == [e EXCEPT !.pc = "save", !.row = row]
    <2>1. Sound(row, preds, bars)
      <3>1. Sound(Failed(Current(e)), preds, bars)
        BY <1>2, <1>3, FailedSound
      <3>2. Sound(Evaluated(Current(e), file), preds, bars)
        BY <1>2, <1>3, EvaluatedSound
      <3>3. row \in {Evaluated(Current(e), file), Failed(Current(e))}
        BY <1>5, Zenon DEF ReadAs
      <3> QED
        BY <3>1, <3>2, <3>3, Zenon
    <2>2. ev' = [ev EXCEPT ![p] = r]
      BY <1>5
    <2> HIDE DEF e
    <2>3. r = [e EXCEPT !.pc = "save", !.frame = e.frame, !.row = row]
      BY <1>2 DEF Working, AnyEvaluator
    <2> HIDE DEF r
    <2>4. Working(r, preds, bars)
      BY <1>2, <1>3, <2>1, <2>3, SaveWorks
    <2> QED
      BY <1>1, <1>2, <2>2, <2>4, OneWorks
  <1> QED
    BY <1>4, <1>5, Zenon DEF Take

LEMMA FetchKeeps ==
  ASSUME ResolvedInv, NEW p \in Evaluator, Fetch(p)
  PROVE  ResolvedInv'
  <1> DEFINE from  == Max({1, Len(bars) - Lookback + 1})
             frame == [from |-> from, rows |-> SubSeq(bars, from, Len(bars))]
             e == ev[p]
             r == [e EXCEPT !.pc = "write", !.frame = frame]
  <1>1. /\ e.pc = "fetch"
        /\ \E n \in 0 .. Len(frame.rows) - 1 : file' = [frame EXCEPT !.rows = SubSeq(@, 1, n)]
        /\ ev' = [ev EXCEPT ![p].pc = "write", ![p].frame = frame]
        /\ UNCHANGED <<bars, preds, resolved>>
    BY Zenon DEF Fetch
  <1>2. /\ bars \in Seq(BarShape) /\ bars # <<>> /\ Working(e, preds, bars)
        /\ DOMAIN ev = Evaluator
    BY Zenon DEF ResolvedInv
  <1>3. /\ Snapshot(frame, bars)
        /\ \A n \in 0 .. Len(frame.rows) - 1 :
             Snapshot([frame EXCEPT !.rows = SubSeq(@, 1, n)], bars)
    BY <1>2, AnswerIsSnapshot, Zenon
  <1>4. Snapshot(file', bars)
    <2> HIDE DEF frame
    <2> QED
      BY <1>1, <1>3, Zenon
  <1> HIDE DEF frame
  <1>5. ev' = [ev EXCEPT ![p] = r]
    BY <1>1, Zenon
  <1>6. Working(r, preds, bars)
    <2>1. frame \in AnyFrame
      BY <1>3 DEF Snapshot
    <2>2. r \in AnyEvaluator /\ r.pc = "write" /\ r.todo = e.todo /\ r.frame = frame
      BY <1>2, <2>1 DEF Working, AnyEvaluator
    <2> HIDE DEF r, e
    <2>3. e.pc # "idle" /\ e.todo \subseteq 1 .. Len(preds) /\ e.todo # {}
      BY <1>1, <1>2 DEF Working
    <2> QED
      BY <1>3, <2>2, <2>3 DEF Working
  <1> HIDE DEF r
  <1> QED
    BY <1>1, <1>4, <1>5, <1>6, OneWorks

LEMMA FetchFailsKeeps ==
  ASSUME ResolvedInv, NEW p \in Evaluator, FetchFails(p)
  PROVE  ResolvedInv'
  <1> DEFINE e == ev[p]
             row == Failed(Current(e))
             r == [e EXCEPT !.pc = "save", !.frame = e.frame, !.row = row]
  <1>1. /\ e.pc = "fetch" /\ ev' = [ev EXCEPT ![p].pc = "save", ![p].row = row]
        /\ UNCHANGED <<bars, file, preds, resolved>>
    BY Zenon DEF FetchFails
  <1>2. /\ bars \in Seq(BarShape) /\ preds \in Seq(Prediction) /\ Snapshot(file, bars)
        /\ Working(e, preds, bars)
    BY Zenon DEF ResolvedInv
  <1>3. Current(e) \in 1 .. Len(preds) /\ e.pc # "idle"
    BY <1>1, <1>2, CurrentIsDue
  <1>4. Sound(row, preds, bars)
    BY <1>2, <1>3, FailedSound
  <1> HIDE DEF row
  <1>5. ev' = [ev EXCEPT ![p] = r]
    <2>1. ev' = [ev EXCEPT ![p] = [e EXCEPT !.pc = "save", !.row = row]]
      BY <1>1, Zenon
    <2>2. [e EXCEPT !.pc = "save", !.row = row] = r
      <3> HIDE DEF e
      <3> QED
        BY <1>2 DEF Working, AnyEvaluator
    <2> QED
      BY <2>1, <2>2, Zenon
  <1>6. Working(r, preds, bars)
    <2>1. r = [e EXCEPT !.pc = "save", !.frame = e.frame, !.row = row]
      OBVIOUS
    <2> HIDE DEF r, e
    <2> QED
      BY <1>2, <1>3, <1>4, <2>1, SaveWorks
  <1> HIDE DEF r
  <1> QED
    BY <1>1, <1>2, <1>5, <1>6, OneWorks

LEMMA WriteKeeps ==
  ASSUME ResolvedInv, NEW p \in Evaluator, Write(p)
  PROVE  ResolvedInv'
  <1> DEFINE e == ev[p]
             row == Evaluated(Current(e), e.frame)
             r == [e EXCEPT !.pc = "save", !.frame = NoFile, !.row = row]
  <1>1. /\ e.pc = "write" /\ file' = e.frame
        /\ ev' = [ev EXCEPT ![p].pc = "save", ![p].frame = NoFile, ![p].row = row]
        /\ UNCHANGED <<bars, preds, resolved>>
    BY Zenon DEF Write
  <1>2. bars \in Seq(BarShape) /\ preds \in Seq(Prediction) /\ Working(e, preds, bars)
    BY Zenon DEF ResolvedInv
  <1>3. Current(e) \in 1 .. Len(preds) /\ e.pc # "idle"
    BY <1>1, <1>2, CurrentIsDue
  <1>4. Snapshot(e.frame, bars)
    BY <1>2 DEF Working
  <1>5. Sound(row, preds, bars)
    BY <1>2, <1>3, <1>4, EvaluatedSound
  <1> HIDE DEF row
  <1>6. ev' = [ev EXCEPT ![p] = r]
    BY <1>1, Zenon
  <1>7. Working(r, preds, bars)
    <2>1. r = [e EXCEPT !.pc = "save", !.frame = NoFile, !.row = row]
      OBVIOUS
    <2> HIDE DEF r, e
    <2> QED
      BY <1>2, <1>3, <1>5, <2>1, SaveWorks
  <1>8. Snapshot(file', bars)
    BY <1>1, <1>4
  <1> HIDE DEF r
  <1> QED
    BY <1>1, <1>6, <1>7, <1>8, OneWorks

LEMMA SaveKeeps ==
  ASSUME ResolvedInv, NEW p \in Evaluator, Save(p)
  PROVE  ResolvedInv'
  <1> DEFINE e == ev[p]
             overlapping(q) ==
               q # p /\ ev[q].pc \in {"fetch", "write", "save"} /\ Current(ev[q]) = e.row.pred
             after(q) == IF q = p THEN Rest(e)
                         ELSE IF overlapping(q) THEN [ev[q] EXCEPT !.raced = TRUE] ELSE ev[q]
  <1>1. /\ e.pc = "save"
        /\ resolved' = IF e.row.outcome = "ACTIVE" THEN resolved ELSE resolved \cup {e.row}
        /\ ev' = [q \in Evaluator |-> after(q)]
        /\ UNCHANGED <<bars, file, preds>>
    BY Zenon DEF Save
  <1>2. /\ bars \in Seq(BarShape) /\ bars # <<>> /\ preds \in Seq(Prediction)
        /\ Snapshot(file, bars)
        /\ \A q \in Evaluator : Working(ev[q], preds, bars)
        /\ \A x \in resolved : x.outcome # "ACTIVE" /\ Sound(x, preds, bars)
    BY Zenon DEF ResolvedInv
  <1>3. ASSUME NEW q \in Evaluator
        PROVE  Working(after(q), preds, bars)
    <2>1. Working(Rest(e), preds, bars)
      BY <1>2, RestWorks
    <2>2. Working([ev[q] EXCEPT !.raced = TRUE], preds, bars)
      <3> DEFINE d == ev[q]
                 r == [d EXCEPT !.raced = TRUE]
      <3>1. Working(d, preds, bars)
        BY <1>2
      <3> HIDE DEF d
      <3>2. /\ r \in AnyEvaluator /\ r.pc = d.pc /\ r.todo = d.todo /\ r.frame = d.frame
            /\ r.row = d.row
        BY <3>1 DEF Working, AnyEvaluator
      <3> HIDE DEF r
      <3>3. Working(r, preds, bars)
        BY <3>1, <3>2 DEF Working
      <3> QED
        BY <3>3, Zenon DEF r, d
    <2>3. Working(ev[q], preds, bars)
      BY <1>2
    <2> HIDE DEF overlapping
    <2> QED
      BY <2>1, <2>2, <2>3, Zenon
  <1>4. DOMAIN ev' = Evaluator /\ \A q \in Evaluator : Working(ev'[q], preds, bars)
    <2> HIDE DEF after
    <2> QED
      BY <1>1, <1>3, Zenon
  <1>5. \A x \in resolved' : x.outcome # "ACTIVE" /\ Sound(x, preds, bars)
    <2>1. Sound(e.row, preds, bars)
      BY <1>1, <1>2 DEF Working
    <2> HIDE DEF e
    <2>2. ASSUME NEW x \in resolved'
          PROVE  x.outcome # "ACTIVE" /\ Sound(x, preds, bars)
      <3>1. CASE x \in resolved
        BY <1>2, <3>1
      <3>2. CASE x \notin resolved
        <4>1. e.row.outcome # "ACTIVE" /\ x = e.row
          BY <1>1, <2>2, <3>2
        <4> QED
          BY <2>1, <4>1
      <3> QED
        BY <3>1, <3>2
    <2> QED
      BY <2>2
  <1>6. bars' = bars /\ file' = file /\ preds' = preds
    BY <1>1
  <1> QED
    BY <1>2, <1>4, <1>5, <1>6, Zenon DEF ResolvedInv

LEMMA SkipKeeps ==
  ASSUME ResolvedInv, NEW p \in Evaluator, Skip(p)
  PROVE  ResolvedInv'
  <1>1. ev' = [ev EXCEPT ![p] = Rest(ev[p])] /\ UNCHANGED <<bars, file, preds, resolved>>
    BY Zenon DEF Skip, AfterError
  <1>2. bars \in Seq(BarShape) /\ Snapshot(file, bars) /\ Working(ev[p], preds, bars)
    BY Zenon DEF ResolvedInv
  <1>3. Working(Rest(ev[p]), preds, bars)
    BY <1>2, RestWorks
  <1> QED
    BY <1>1, <1>2, <1>3, OneWorks

LEMMA VanishesKeeps ==
  ASSUME ResolvedInv, NEW p \in Evaluator, Vanishes(p)
  PROVE  ResolvedInv'
  <1>1. /\ ev' = [ev EXCEPT ![p] = Rest(ev[p])] /\ file' = NoFile
        /\ UNCHANGED <<bars, preds, resolved>>
    BY Zenon DEF Vanishes, AfterError
  <1>2. bars \in Seq(BarShape) /\ Working(ev[p], preds, bars)
    BY Zenon DEF ResolvedInv
  <1>3. Working(Rest(ev[p]), preds, bars) /\ Snapshot(file', bars)
    BY <1>1, <1>2, RestWorks, EmptyFrameStands
  <1> QED
    BY <1>1, <1>3, OneWorks

LEMMA CrashKeeps ==
  ASSUME ResolvedInv, NEW p \in Evaluator, Crash(p)
  PROVE  ResolvedInv'
  <1>1. ev' = [ev EXCEPT ![p] = IdleEvaluator] /\ UNCHANGED <<bars, file, preds, resolved>>
    BY Zenon DEF Crash
  <1>2. bars \in Seq(BarShape) /\ Snapshot(file, bars)
    BY Zenon DEF ResolvedInv
  <1>3. Working(IdleEvaluator, preds, bars)
    BY <1>2, IdleWorks
  <1> QED
    BY <1>1, <1>2, <1>3, OneWorks

LEMMA DeleteFileKeeps ==
  ASSUME ResolvedInv, DeleteFile
  PROVE  ResolvedInv'
  <1>1. file' = NoFile /\ UNCHANGED <<bars, preds, resolved, ev>>
    BY Zenon DEF DeleteFile
  <1>2. Snapshot(NoFile, bars)
    BY EmptyFrameStands DEF ResolvedInv
  <1>3. /\ bars \in Seq(BarShape) /\ bars # <<>> /\ preds \in Seq(Prediction)
        /\ DOMAIN ev = Evaluator /\ \A p \in Evaluator : Working(ev[p], preds, bars)
        /\ \A e \in resolved : e.outcome # "ACTIVE" /\ Sound(e, preds, bars)
    BY Zenon DEF ResolvedInv
  <1>4. file' = NoFile /\ bars' = bars /\ preds' = preds /\ resolved' = resolved /\ ev' = ev
    BY <1>1
  <1> QED
    BY <1>2, <1>3, <1>4, Zenon DEF ResolvedInv

\* A step of the market or a new prediction, of no evaluator.
LEMMA EnvironmentKeeps ==
  ASSUME ResolvedInv, Onward(bars, bars'), bars' # <<>>, preds' \in Seq(Prediction),
         Len(preds) <= Len(preds'), \A i \in 1 .. Len(preds) : preds'[i] = preds[i],
         UNCHANGED <<file, resolved, ev>>
  PROVE  ResolvedInv'
  <1>1. /\ bars \in Seq(BarShape) /\ preds \in Seq(Prediction)
        /\ Snapshot(file, bars)
        /\ DOMAIN ev = Evaluator /\ \A p \in Evaluator : Working(ev[p], preds, bars)
        /\ \A e \in resolved : e.outcome # "ACTIVE" /\ Sound(e, preds, bars)
    BY Zenon DEF ResolvedInv
  <1>2. Snapshot(file, bars')
    BY <1>1, SnapshotStands
  <1>3. \A p \in Evaluator : Working(ev[p], preds', bars')
    BY <1>1, WorkingStands
  <1>4. \A e \in resolved : e.outcome # "ACTIVE" /\ Sound(e, preds', bars')
    BY <1>1, SoundStands
  <1>5. file' = file /\ resolved' = resolved /\ ev' = ev
    OBVIOUS
  <1>6. bars' \in Seq(BarShape)
    BY DEF Onward
  <1> QED
    BY <1>1, <1>2, <1>3, <1>4, <1>5, <1>6, Zenon DEF ResolvedInv

LEMMA NextBarKeeps ==
  ASSUME ResolvedInv, NextBar
  PROVE  ResolvedInv'
  <1>1. PICK bar \in BarShape : bars' = Append(bars, bar)
    BY Zenon DEF NextBar
  <1>2. UNCHANGED <<file, preds, resolved, ev>>
    BY Zenon DEF NextBar
  <1>3. bars \in Seq(BarShape) /\ bars # <<>> /\ preds \in Seq(Prediction)
    BY Zenon DEF ResolvedInv
  <1>4. /\ bars' \in Seq(BarShape) /\ Len(bars') = Len(bars) + 1 /\ Len(bars) \in Nat
        /\ \A k \in 1 .. Len(bars) : bars'[k] = bars[k] /\ bars[k] \in BarShape
    BY <1>1, <1>3
  <1>5. Onward(bars, bars')
    BY <1>4 DEF Onward
  <1>6. bars' # <<>>
    BY <1>4
  <1> QED
    BY <1>2, <1>3, <1>5, <1>6, EnvironmentKeeps

LEMMA WidenKeeps ==
  ASSUME ResolvedInv, Widen
  PROVE  ResolvedInv'
  <1>1. PICK bar \in BarShape : bars' = [bars EXCEPT ![Len(bars)] = bar]
    BY Zenon DEF Widen
  <1>2. UNCHANGED <<file, preds, resolved, ev>>
    BY Zenon DEF Widen
  <1>3. bars \in Seq(BarShape) /\ bars # <<>> /\ preds \in Seq(Prediction)
    BY Zenon DEF ResolvedInv
  <1>4. /\ bars' \in Seq(BarShape) /\ Len(bars') = Len(bars) /\ Len(bars) \in Nat \ {0}
        /\ \A k \in 1 .. Len(bars) - 1 : bars'[k] = bars[k]
    BY <1>1, <1>3
  <1>5. Onward(bars, bars')
    BY <1>4 DEF Onward
  <1>6. bars' # <<>>
    BY <1>4
  <1> QED
    BY <1>2, <1>3, <1>5, <1>6, EnvironmentKeeps

LEMMA RecordKeeps ==
  ASSUME ResolvedInv, Record
  PROVE  ResolvedInv'
  <1> DEFINE new == [entry |-> Len(bars), price |-> bars[Len(bars)].close]
  <1>1. preds' = Append(preds, new) /\ UNCHANGED <<bars, file, resolved, ev>>
    BY Zenon DEF Record
  <1>2. bars \in Seq(BarShape) /\ bars # <<>> /\ preds \in Seq(Prediction)
    BY Zenon DEF ResolvedInv
  <1>3. new \in Prediction
    <2>1. Len(bars) \in Nat /\ bars[Len(bars)] \in BarShape
      BY <1>2
    <2> QED
      BY <2>1, BarFields DEF Prediction
  <1> HIDE DEF new
  <1>4. /\ preds' \in Seq(Prediction) /\ Len(preds) <= Len(preds')
        /\ \A i \in 1 .. Len(preds) : preds'[i] = preds[i]
    BY <1>1, <1>2, <1>3
  <1>5. Onward(bars, bars') /\ bars' # <<>>
    BY <1>1, <1>2, OnwardAlone
  <1> QED
    BY <1>1, <1>4, <1>5, EnvironmentKeeps

LEMMA ResolvedInit ==
  Init => ResolvedInv
  <1> SUFFICES ASSUME Init PROVE ResolvedInv
    OBVIOUS
  <1>1. PICK bar \in BarShape : bars = <<bar>>
    BY Zenon DEF Init
  <1>2. /\ file = NoFile /\ resolved = {}
        /\ preds = [i \in 1 .. Broken |-> [entry |-> 0, price |-> 0]]
        /\ ev = [p \in Evaluator |-> IdleEvaluator]
    BY Zenon DEF Init
  <1>3. bars \in Seq(BarShape) /\ bars # <<>>
    BY <1>1
  <1>4. preds \in Seq(Prediction)
    <2>1. Broken \in Nat /\ [entry |-> 0, price |-> 0] \in Prediction
      BY PredictionAssumption DEF Prediction
    <2> QED
      BY <1>2, <2>1
  <1>5. Snapshot(file, bars)
    BY <1>2, <1>3, EmptyFrameStands
  <1>6. DOMAIN ev = Evaluator /\ \A p \in Evaluator : Working(ev[p], preds, bars)
    BY <1>2, <1>3, IdleWorks
  <1> QED
    BY <1>2, <1>3, <1>4, <1>5, <1>6 DEF ResolvedInv

LEMMA ResolvedStep ==
  ResolvedInv /\ [Next]_vars => ResolvedInv'
  <1> SUFFICES ASSUME ResolvedInv, [Next]_vars PROVE ResolvedInv'
    OBVIOUS
  <1>1. CASE UNCHANGED vars
    BY <1>1, Zenon DEF vars, ResolvedInv
  <1>2. CASE NextBar
    BY <1>2, NextBarKeeps
  <1>3. CASE Widen
    BY <1>3, WidenKeeps
  <1>4. CASE Record
    BY <1>4, RecordKeeps
  <1>5. CASE DeleteFile
    BY <1>5, DeleteFileKeeps
  <1>6. ASSUME NEW p \in Evaluator, Evaluate(p) \/ Vanishes(p) \/ Crash(p)
        PROVE  ResolvedInv'
    BY <1>6, ListKeeps, TakeKeeps, FetchKeeps, FetchFailsKeeps, WriteKeeps, SaveKeeps,
       SkipKeeps, VanishesKeeps, CrashKeeps DEF Evaluate
  <1> QED
    BY <1>1, <1>2, <1>3, <1>4, <1>5, <1>6, Zenon DEF Next

\* For any evaluators on one database, horizon, lookback, cache file torn or
\* stale, and any crash between two steps of a batch: an evaluation saved that
\* resolves a prediction, and saw the first bar after the entry, names the
\* first bar of the market that decides it, and its outcome is that bar's if the
\* frame went beyond it (a bar the frame ended with may have been forming).
THEOREM FirstBarResolves ==
  Spec => []ResolvedByTheFirstBar
  <1>1. ResolvedInv => ResolvedByTheFirstBar
    <2> SUFFICES ASSUME ResolvedInv, NEW e \in resolved, e.first \in 1 .. preds[e.pred].entry + 1
                 PROVE  /\ \A k \in e.first .. e.bar - 1 : Verdict(e.pred, k) = "NONE"
                        /\ e.whole => e.outcome = Verdict(e.pred, e.bar)
      BY Zenon DEF ResolvedByTheFirstBar
    <2>1. e.outcome # "ACTIVE" /\ Stands(e, preds[e.pred], bars) /\ e \in AnyEvaluation
      BY Zenon DEF ResolvedInv, Sound
    <2>2. /\ \A k \in e.first .. e.bar - 1 : VerdictOn(preds[e.pred], bars, k) = "NONE"
          /\ e.whole => e.outcome = VerdictOn(preds[e.pred], bars, e.bar)
      BY <2>1 DEF Stands, Resolves
    <2>3. \A k : Verdict(e.pred, k) = VerdictOn(preds[e.pred], bars, k)
      BY VerdictIs
    <2> QED
      BY <2>2, <2>3
  <1>2. ResolvedInv /\ [Next]_vars => ResolvedInv'
    BY ResolvedStep
  <1> QED
    BY <1>1, <1>2, ResolvedInit, PTL DEF Spec

\* Processes that resolved the same prediction apart from each other, each on
\* a frame that went beyond its deciding bar, agree on the bar and the outcome,
\* whichever of their evaluations the store takes for the newest.
THEOREM ResolutionsAgree ==
  Spec => [](\A d, e \in resolved :
               /\ d.pred = e.pred /\ d.whole /\ e.whole
               /\ {d.first, e.first} \subseteq 1 .. preds[e.pred].entry + 1
               => d.bar = e.bar /\ d.outcome = e.outcome)
  <1> DEFINE Agree(d, e) ==
               /\ d.pred = e.pred /\ d.whole /\ e.whole
               /\ {d.first, e.first} \subseteq 1 .. preds[e.pred].entry + 1
               => d.bar = e.bar /\ d.outcome = e.outcome
  <1>1. ASSUME ResolvedInv, NEW d \in resolved, NEW e \in resolved
        PROVE  Agree(d, e)
    <2> SUFFICES ASSUME d.pred = e.pred, d.whole, e.whole,
                        {d.first, e.first} \subseteq 1 .. preds[e.pred].entry + 1
                 PROVE  d.bar = e.bar /\ d.outcome = e.outcome
      OBVIOUS
    <2> DEFINE verdict(k) == VerdictOn(preds[e.pred], bars, k)
    <2>1. ASSUME NEW x \in {d, e}
          PROVE  /\ x.first = preds[e.pred].entry + 1 /\ x.bar \in x.first .. Len(bars)
                 /\ \A k \in x.first .. x.bar - 1 : verdict(k) = "NONE"
                 /\ x.outcome = verdict(x.bar) /\ x.outcome # "NONE"
                 /\ x.first \in Int /\ x.bar \in Int
      <3>1. x.outcome # "ACTIVE" /\ Stands(x, preds[x.pred], bars) /\ x \in AnyEvaluation
        BY Zenon, <1>1 DEF ResolvedInv, Sound
      <3>2. x.pred = e.pred /\ x.whole /\ x.first \in 1 .. preds[e.pred].entry + 1
        OBVIOUS
      <3>3. /\ x.first = preds[e.pred].entry + 1 /\ x.bar \in x.first .. Len(bars)
            /\ \A k \in x.first .. x.bar - 1 : verdict(k) = "NONE"
            /\ x.outcome = verdict(x.bar)
        BY <3>1, <3>2 DEF Stands, Resolves
      <3>4. x.outcome \in Outcome /\ x.first \in Int /\ x.bar \in Int
        BY <3>1 DEF AnyEvaluation
      <3>5. x.outcome # "NONE"
        BY <3>4 DEF Outcome
      <3> QED
        BY <3>3, <3>4, <3>5
    <2> HIDE DEF verdict
    <2>2. ~(d.bar < e.bar) /\ ~(e.bar < d.bar)
      BY <2>1
    <2> QED
      BY <2>1, <2>2
  <1>2. ResolvedInv => \A d, e \in resolved : Agree(d, e)
    BY <1>1
  <1>3. ResolvedInv /\ [Next]_vars => ResolvedInv'
    BY ResolvedStep
  <1> QED
    BY <1>2, <1>3, ResolvedInit, PTL DEF Spec
===============================================================================
