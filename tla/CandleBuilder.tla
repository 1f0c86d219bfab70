----------------------------- MODULE CandleBuilder -----------------------------
(***************************************************************************)
(* One CandleBuilder (live/dhan/candle_builder.py): the bar of a symbol,   *)
(* aggregated from its ticks.  on_tick runs under the builder's lock, so   *)
(* it is one operator from a builder and a tick to a builder and the bar   *)
(* the tick completed.  Times and prices are positive integers.            *)
(***************************************************************************)
EXTENDS Integers

CONSTANTS
  BucketSeconds,   \* _bucket_seconds
  MaxSkew,         \* _max_timestamp_skew_seconds
  MaxReceiptSkew,  \* _max_cold_start_wall_clock_skew_seconds
  MaxDeviation     \* _max_tick_deviation_pct

ASSUME CandleAssumption ==
  /\ BucketSeconds \in Nat \ {0}
  /\ MaxSkew \in Nat /\ MaxReceiptSkew \in Nat /\ MaxDeviation \in Nat

None == 0

Tick == [price : Int, volume : Int, time : Nat]

\* _BucketState; there is none when its start is None.
NoBucket == [start |-> None, open |-> 0, high |-> 0, low |-> 0, close |-> 0,
             volume |-> 0, latest |-> None, mergedTime |-> None, mergedPrice |-> 0]

NewBuilder == [price |-> None, time |-> None, confirmed |-> FALSE, pending |-> None,
               bucket |-> NoBucket]

Distance(t, u) == IF t >= u THEN t - u ELSE u - t

BucketStart(t) == (t \div BucketSeconds) * BucketSeconds

-----------------------------------------------------------------------------
(* The timestamp: is the baseline right, and does the tick agree with it? *)

Agrees(t, u) == u # None /\ Distance(t, u) <= MaxSkew

PlausibleRelativeToReceipt(t, received) == Distance(t, received) <= MaxReceiptSkew

\* Mutant of TimeAccepted: a tick that agrees is not held against its receipt.
AcceptedUnchecked(b, t, received) ==
  b.time = None \/ Agrees(t, b.time) \/ (~b.confirmed /\ Agrees(t, b.pending))

TimeAccepted(b, t, received) ==
  \/ b.time = None
  \/ b.confirmed /\ Agrees(t, b.time)
  \/ /\ ~b.confirmed
     /\ Agrees(t, b.time) \/ Agrees(t, b.pending)
     /\ PlausibleRelativeToReceipt(t, received)

\* A tick that is accepted confirms the baseline; one that agrees with the
\* candidate only moves it, and drops what was built on the old one.
Confirmed(b, t) ==
  IF b.time = None \/ b.confirmed THEN b
  ELSE IF Agrees(t, b.time) THEN [b EXCEPT !.confirmed = TRUE, !.pending = None]
  ELSE [NewBuilder EXCEPT !.confirmed = TRUE, !.time = t]

\* Mutant of Disagreed: a rejected tick is forgotten.
DisagreedSilently(b, t) == b

\* A tick that is rejected is the next candidate while there is no baseline.
Disagreed(b, t) == IF b.confirmed THEN b ELSE [b EXCEPT !.pending = t]

-----------------------------------------------------------------------------
(* The price, and the bucket *)

\* A price within the permitted deviation, in percent, of the last one.
Near(price, before) == 100 * Distance(price, before) <= MaxDeviation * before

\* A price or volume that is not finite fails this as a price of zero does.
PriceIsValid(b, tick) ==
  /\ tick.price > 0 /\ tick.volume >= 0
  /\ b.price # None => Near(tick.price, b.price)

\* Mutant of IsRedelivered: the last price is compared, not the last tick's.
RepeatsTheClose(k, tick) ==
  k.start # None /\ tick.time = k.latest /\ tick.price = k.close

\* The last merged tick once more.
IsRedelivered(k, tick) ==
  k.start # None /\ tick.time = k.mergedTime /\ tick.price = k.mergedPrice

\* The open bucket with the tick in it: one that is not there is seeded.
Merged(k, tick) ==
  LET seeded == k.start = None
      advances == seeded \/ tick.time >= k.latest
  IN  [ start  |-> BucketStart(tick.time),
        open   |-> IF seeded THEN tick.price ELSE k.open,
        high   |-> IF seeded \/ tick.price > k.high THEN tick.price ELSE k.high,
        low    |-> IF seeded \/ tick.price < k.low THEN tick.price ELSE k.low,
        close  |-> IF advances THEN tick.price ELSE k.close,
        volume |-> k.volume + IF IsRedelivered(k, tick) THEN 0 ELSE tick.volume,
        latest |-> IF advances THEN tick.time ELSE k.latest,
        mergedTime |-> tick.time, mergedPrice |-> tick.price ]

\* Mutant of IsLate.
NeverLate(b, t) == FALSE

IsLate(b, t) == b.bucket.start # None /\ BucketStart(t) < b.bucket.start
Completes(b, t) == b.bucket.start # None /\ BucketStart(t) > b.bucket.start

\* The bucket the tick finds: a completed one is gone, whatever the price.
Rolled(b, t) == IF Completes(b, t) THEN [b EXCEPT !.bucket = NoBucket] ELSE b

Aggregated(b, tick) ==
  IF IsLate(b, tick.time) THEN b
  ELSE IF ~PriceIsValid(b, tick) THEN Rolled(b, tick.time)
  ELSE [b EXCEPT !.bucket = Merged(Rolled(b, tick.time).bucket, tick),
                 !.price = tick.price, !.time = tick.time]

-----------------------------------------------------------------------------
(* on_tick *)

OnTick(b, tick, received) ==
  IF TimeAccepted(b, tick.time, received)
    THEN Aggregated(Confirmed(b, tick.time), tick)
    ELSE Disagreed(b, tick.time)

\* The bucket that on_tick finalizes, NoBucket when it returns no bar.
CompletedBar(b, tick, received) ==
  LET c == Confirmed(b, tick.time)
  IN  IF TimeAccepted(b, tick.time, received) /\ Completes(c, tick.time)
        THEN c.bucket ELSE NoBucket

=============================================================================
