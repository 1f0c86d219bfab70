---------------------------- MODULE LiveDataProofs ----------------------------
(***************************************************************************)
(* Proofs about the data path of a live session, for any number of receive *)
(* threads, any day, any prices and bad ticks, and any limits: its types,  *)
(* the confirmation of the baseline, the order of the queue, the order of  *)
(* the bars, and what a bar is made of.                                    *)
(*                                                                         *)
(* on_tick is one operator, so its effect is stated once, by cases         *)
(* (OnTickCases), and every invariant is proved from those cases.          *)
(***************************************************************************)
EXTENDS LiveData, TLAPS, SequenceTheorems, FiniteSetTheorems

-----------------------------------------------------------------------------
(* The starts of buckets *)

LEMMA DivFloor ==
  ASSUME NEW b \in Nat \ {0}, NEW t \in Nat
  PROVE  /\ t \div b \in Nat
         /\ (t \div b) * b <= t /\ t < (t \div b) * b + b
BY Z3

LEMMA DivMonotone ==
  ASSUME NEW b \in Nat \ {0}, NEW t \in Nat, NEW u \in Nat, t <= u
  PROVE  (t \div b) * b <= (u \div b) * b
BY Z3

LEMMA BucketStarts ==
  /\ \A t \in Nat : BucketStart(t) \in Nat /\ BucketStart(t) <= t
  /\ \A t, u \in Nat : t <= u => BucketStart(t) <= BucketStart(u)
  /\ \A t \in Nat : BucketSeconds <= t => BucketStart(t) # None
<1>1. BucketSeconds \in Nat \ {0}
  BY CandleAssumption
<1>2. ASSUME NEW t \in Nat
      PROVE  /\ BucketStart(t) \in Nat /\ BucketStart(t) <= t
             /\ t < BucketStart(t) + BucketSeconds
  <2>1. t \div BucketSeconds \in Nat
    BY <1>1, DivFloor
  <2>2. (t \div BucketSeconds) * BucketSeconds \in Nat
    BY <1>1, <2>1
  <2> QED
    BY <1>1, <2>2, DivFloor DEF BucketStart
<1>3. \A t, u \in Nat : t <= u => BucketStart(t) <= BucketStart(u)
  BY <1>1, DivMonotone DEF BucketStart
<1>4. \A t \in Nat : BucketSeconds <= t => BucketStart(t) # None
  BY <1>1, <1>2 DEF None
<1> QED
  BY <1>2, <1>3, <1>4

-----------------------------------------------------------------------------
(* Types *)

Bucket ==
  [start : Nat, open : Nat, high : Nat, low : Nat, close : Nat, volume : Nat,
   latest : Nat, mergedTime : Nat, mergedPrice : Nat]

Builder ==
  [price : Nat, time : Nat, confirmed : BOOLEAN, pending : Nat, bucket : Bucket]

ReceiverPC == {"idle", "packet", "put", "drop", "put_again"}

Receiving == [pc : ReceiverPC, tick : Tick, bar : Bar]

LiveTypes ==
  /\ now \in Today /\ connected \in Receiver /\ recv \in [Receiver -> Receiving]
  /\ builder \in Builder
  /\ queue \in Seq(Bar) /\ Len(queue) <= MaxQueuedBars
  /\ buffer \in Seq(Nat) /\ Len(buffer) <= MaxBufferBars
  /\ cursor \in Nat /\ last \in Tick /\ trades \subseteq Tick
  /\ run = <<>> \/ run \in Nat \X {1, 2}
  /\ emitted \in Seq(Nat)

LEMMA NewTypes ==
  /\ NoBucket \in Bucket /\ NewBuilder \in Builder /\ NoBucket.start = None
  /\ NewBuilder.bucket = NoBucket /\ NewBuilder.price = None /\ NewBuilder.time = None
  /\ NewBuilder.confirmed = FALSE /\ NewBuilder.pending = None
<1>1. NoBucket \in Bucket /\ NoBucket.start = None
  BY DEF NoBucket, Bucket, None
<1>2. /\ NewBuilder.bucket = NoBucket /\ NewBuilder.price = None /\ NewBuilder.time = None
      /\ NewBuilder.confirmed = FALSE /\ NewBuilder.pending = None
  BY Zenon DEF NewBuilder
<1>3. None \in Nat
  BY DEF None
<1>4. NewBuilder \in Builder
  BY <1>1, <1>3, Zenon DEF NewBuilder, Builder
<1> QED
  BY <1>1, <1>2, <1>4

LEMMA IdleType ==
  /\ Idle \in Receiving /\ Idle.pc = "idle" /\ Idle.tick \in Tick /\ Idle.bar \in Bar
  /\ Idle.tick.time = 0
<1>1. [price |-> 0, volume |-> 0, time |-> 0] \in Tick /\ [start |-> None, id |-> 0] \in Bar
  BY DEF Tick, Bar, None
<1>2. "idle" \in ReceiverPC
  BY DEF ReceiverPC
<1>3. Idle.pc = "idle" /\ Idle.tick = [price |-> 0, volume |-> 0, time |-> 0]
      /\ Idle.bar = [start |-> None, id |-> 0]
  BY Zenon DEF Idle
<1>4. Idle \in Receiving
  BY <1>1, <1>2, Zenon DEF Idle, Receiving
<1> QED
  BY <1>1, <1>3, <1>4

\* A tick that on_tick confirms the baseline with: nothing else changes, or
\* everything does.
LEMMA ConfirmedCases ==
  ASSUME NEW b \in Builder, NEW t \in Nat
  PROVE  /\ Confirmed(b, t) \in Builder
         /\ b.time = None \/ b.confirmed => Confirmed(b, t) = b
         /\ b.time # None => Confirmed(b, t).confirmed
         /\ b.time # None /\ ~b.confirmed /\ Agrees(t, b.time) =>
              /\ Confirmed(b, t).price = b.price /\ Confirmed(b, t).time = b.time
              /\ Confirmed(b, t).bucket = b.bucket
         /\ b.time # None /\ ~b.confirmed /\ ~Agrees(t, b.time) =>
              /\ Confirmed(b, t).price = None /\ Confirmed(b, t).time = t
              /\ Confirmed(b, t).bucket = NoBucket
<1>1. CASE b.time = None \/ b.confirmed
  <2>1. Confirmed(b, t) = b
    BY <1>1, Zenon DEF Confirmed
  <2> QED
    BY <1>1, <2>1, Zenon
<1>2. CASE b.time # None /\ ~b.confirmed /\ Agrees(t, b.time)
  <2> DEFINE c == [b EXCEPT !.confirmed = TRUE, !.pending = None]
  <2>1. Confirmed(b, t) = c
    BY <1>2, Zenon DEF Confirmed
  <2>2. c.price = b.price /\ c.time = b.time /\ c.bucket = b.bucket
    BY DEF Builder
  <2>3. c.confirmed
    BY DEF Builder
  <2>4. c \in Builder
    BY DEF Builder, None
  <2> HIDE DEF c
  <2> QED
    BY <1>2, <2>1, <2>2, <2>3, <2>4, Zenon
<1>3. CASE b.time # None /\ ~b.confirmed /\ ~Agrees(t, b.time)
  <2> DEFINE c == [NewBuilder EXCEPT !.confirmed = TRUE, !.time = t]
  <2>1. Confirmed(b, t) = c
    BY <1>3, Zenon DEF Confirmed
  <2>2. c.price = None /\ c.time = t /\ c.bucket = NoBucket
    BY NewTypes DEF Builder
  <2>3. c.confirmed
    BY NewTypes DEF Builder
  <2>4. c \in Builder
    BY NewTypes DEF Builder
  <2> HIDE DEF c
  <2> QED
    BY <1>3, <2>1, <2>2, <2>3, <2>4, Zenon
<1> QED
  BY <1>1, <1>2, <1>3

LEMMA DisagreedCases ==
  ASSUME NEW b \in Builder, NEW t \in Nat
  PROVE  /\ Disagreed(b, t) \in Builder
         /\ Disagreed(b, t).price = b.price /\ Disagreed(b, t).time = b.time
         /\ Disagreed(b, t).bucket = b.bucket
         /\ Disagreed(b, t).confirmed = b.confirmed
         /\ b.confirmed => Disagreed(b, t) = b
         /\ ~b.confirmed => Disagreed(b, t).pending = t
<1>1. CASE b.confirmed
  BY <1>1, Zenon DEF Disagreed
<1>2. CASE ~b.confirmed
  <2> DEFINE c == [b EXCEPT !.pending = t]
  <2>1. Disagreed(b, t) = c
    BY <1>2, Zenon DEF Disagreed
  <2>2. c \in Builder /\ c.price = b.price /\ c.time = b.time /\ c.bucket = b.bucket
        /\ c.pending = t
    BY DEF Builder
  <2>3. c.confirmed = b.confirmed
    BY Zenon DEF Builder
  <2> HIDE DEF c
  <2> QED
    BY <1>2, <2>1, <2>2, <2>3, Zenon
<1> QED
  BY <1>1, <1>2

\* The bucket a tick is merged into.
LEMMA RolledCases ==
  ASSUME NEW b \in Builder, NEW t \in Nat
  PROVE  /\ Rolled(b, t) \in Builder
         /\ Rolled(b, t).price = b.price /\ Rolled(b, t).time = b.time
         /\ Rolled(b, t).confirmed = b.confirmed
         /\ Completes(b, t) => Rolled(b, t).bucket = NoBucket
         /\ ~Completes(b, t) => Rolled(b, t) = b
<1>1. CASE ~Completes(b, t)
  BY <1>1, Zenon DEF Rolled
<1>2. CASE Completes(b, t)
  <2> DEFINE c == [b EXCEPT !.bucket = NoBucket]
  <2>1. Rolled(b, t) = c
    BY <1>2, Zenon DEF Rolled
  <2>2. c \in Builder /\ c.price = b.price /\ c.time = b.time /\ c.bucket = NoBucket
    BY NewTypes DEF Builder
  <2>3. c.confirmed = b.confirmed
    BY Zenon DEF Builder
  <2> HIDE DEF c
  <2> QED
    BY <1>2, <2>1, <2>2, <2>3, Zenon
<1> QED
  BY <1>1, <1>2

LEMMA MergedFields ==
  ASSUME NEW k \in Bucket, NEW tick \in Tick, tick.price > 0, tick.volume >= 0
  PROVE  /\ Merged(k, tick) \in Bucket
         /\ Merged(k, tick).start = BucketStart(tick.time)
         /\ Merged(k, tick).mergedTime = tick.time
         /\ Merged(k, tick).mergedPrice = tick.price
<1> DEFINE seeded == k.start = None
           advances == seeded \/ tick.time >= k.latest
           open == IF seeded THEN tick.price ELSE k.open
           high == IF seeded \/ tick.price > k.high THEN tick.price ELSE k.high
           low == IF seeded \/ tick.price < k.low THEN tick.price ELSE k.low
           close == IF advances THEN tick.price ELSE k.close
           volume == k.volume + IF IsRedelivered(k, tick) THEN 0 ELSE tick.volume
           latest == IF advances THEN tick.time ELSE k.latest
<1>1. Merged(k, tick) =
        [start |-> BucketStart(tick.time), open |-> open, high |-> high, low |-> low,
         close |-> close, volume |-> volume, latest |-> latest,
         mergedTime |-> tick.time, mergedPrice |-> tick.price]
  BY Zenon DEF Merged
<1>2. tick.price \in Nat /\ tick.time \in Nat /\ tick.volume \in Nat
  BY DEF Tick
<1>3. BucketStart(tick.time) \in Nat
  BY <1>2, BucketStarts
<1>4. /\ k.open \in Nat /\ k.high \in Nat /\ k.low \in Nat /\ k.close \in Nat
      /\ k.volume \in Nat /\ k.latest \in Nat
  BY DEF Bucket
<1>5. open \in Nat /\ high \in Nat /\ low \in Nat
  BY <1>2, <1>4
<1>6. close \in Nat /\ volume \in Nat /\ latest \in Nat
  BY <1>2, <1>4
<1> HIDE DEF open, high, low, close, volume, latest
<1>7. Merged(k, tick) \in Bucket
  BY <1>1, <1>2, <1>3, <1>5, <1>6 DEF Bucket
<1>8. /\ Merged(k, tick).start = BucketStart(tick.time)
      /\ Merged(k, tick).mergedTime = tick.time
      /\ Merged(k, tick).mergedPrice = tick.price
  BY <1>1
<1> QED
  BY <1>7, <1>8

\* What on_tick may do to the builder, and what it then returns.  c is the
\* builder with the baseline confirmed.
TickRejected(b, tick, received, after, bar) ==
  /\ ~TimeAccepted(b, tick.time, received)
  /\ after = Disagreed(b, tick.time) /\ bar = NoBucket

TickLate(b, tick, received, after, bar) ==
  LET c == Confirmed(b, tick.time) IN
  /\ TimeAccepted(b, tick.time, received) /\ IsLate(c, tick.time)
  /\ after = c /\ bar = NoBucket

TickUnpriced(b, tick, received, after, bar) ==
  LET c == Confirmed(b, tick.time) IN
  /\ TimeAccepted(b, tick.time, received) /\ ~IsLate(c, tick.time)
  /\ ~PriceIsValid(c, tick)
  /\ after = Rolled(c, tick.time)
  /\ bar = IF Completes(c, tick.time) THEN c.bucket ELSE NoBucket

TickMerged(b, tick, received, after, bar) ==
  LET c == Confirmed(b, tick.time) IN
  /\ TimeAccepted(b, tick.time, received) /\ ~IsLate(c, tick.time)
  /\ PriceIsValid(c, tick)
  /\ after.bucket = Merged(Rolled(c, tick.time).bucket, tick)
  /\ after.price = tick.price /\ after.time = tick.time
  /\ after.confirmed = c.confirmed
  /\ bar = IF Completes(c, tick.time) THEN c.bucket ELSE NoBucket

LEMMA OnTickCases ==
  ASSUME NEW b \in Builder, NEW tick \in Tick, NEW received \in Nat,
         NEW after, after = OnTick(b, tick, received),
         NEW bar, bar = CompletedBar(b, tick, received)
  PROVE  /\ after \in Builder /\ bar \in Bucket
         /\ \/ TickRejected(b, tick, received, after, bar)
            \/ TickLate(b, tick, received, after, bar)
            \/ TickUnpriced(b, tick, received, after, bar)
            \/ TickMerged(b, tick, received, after, bar)
<1> DEFINE t == tick.time
           c == Confirmed(b, t)
<1>1. t \in Nat
  BY DEF Tick
<1>2. c \in Builder /\ c.bucket \in Bucket
  BY <1>1, ConfirmedCases DEF Builder
<1>3. bar = IF TimeAccepted(b, t, received) /\ Completes(c, t) THEN c.bucket ELSE NoBucket
  BY Zenon DEF CompletedBar
<1>4. bar \in Bucket
  BY <1>2, <1>3, NewTypes
<1>5. CASE ~TimeAccepted(b, t, received)
  <2>1. after = Disagreed(b, t)
    BY <1>5, Zenon DEF OnTick
  <2> QED
    BY <1>1, <1>3, <1>4, <1>5, <2>1, DisagreedCases, Zenon DEF TickRejected
<1>6. CASE TimeAccepted(b, t, received)
  <2>1. after = Aggregated(c, tick)
    BY <1>6, Zenon DEF OnTick
  <2>2. CASE IsLate(c, t)
    <3>1. after = c
      BY <2>1, <2>2, Zenon DEF Aggregated
    <3>2. ~Completes(c, t)
      <4>1. c.bucket.start \in Nat /\ BucketStart(t) \in Nat
        BY <1>1, <1>2, BucketStarts DEF Bucket
      <4> QED
        BY <2>2, <4>1 DEF IsLate, Completes
    <3> QED
      BY <1>2, <1>3, <1>4, <1>6, <2>2, <3>1, <3>2, Zenon DEF TickLate
  <2>3. CASE ~IsLate(c, t) /\ ~PriceIsValid(c, tick)
    <3>1. after = Rolled(c, t)
      BY <2>1, <2>3, Zenon DEF Aggregated
    <3>2. after \in Builder
      BY <1>1, <1>2, <3>1, RolledCases
    <3> QED
      BY <1>3, <1>4, <1>6, <2>3, <3>1, <3>2, Zenon DEF TickUnpriced
  <2>4. CASE ~IsLate(c, t) /\ PriceIsValid(c, tick)
    <3> DEFINE k == Rolled(c, t).bucket
               a == [c EXCEPT !.bucket = Merged(k, tick), !.price = tick.price, !.time = t]
    <3>1. after = a
      BY <2>1, <2>4, Zenon DEF Aggregated
    <3>2. tick.price \in Int /\ tick.price > 0 /\ tick.volume >= 0
      BY <2>4 DEF PriceIsValid, Tick
    <3>3. k \in Bucket
      BY <1>1, <1>2, RolledCases DEF Builder
    <3>4. Merged(k, tick) \in Bucket
      BY <3>2, <3>3, MergedFields
    <3> HIDE DEF c, k
    <3>5. a \in Builder
      <4>1. tick.price \in Nat /\ t \in Nat /\ c \in Builder
        BY <1>1, <1>2, <3>2
      <4> HIDE DEF t
      <4> QED
        BY <3>4, <4>1 DEF Builder
    <3>6. a.bucket = Merged(k, tick) /\ a.price = tick.price /\ a.time = t
      BY <1>2 DEF Builder
    <3>7. a.confirmed = c.confirmed
      BY <1>2, Zenon DEF Builder
    <3> HIDE DEF a
    <3> QED
      BY <1>3, <1>4, <1>6, <2>4, <3>1, <3>5, <3>6, <3>7, Zenon DEF TickMerged, c, k
  <2> QED
    BY <2>2, <2>3, <2>4
<1> QED
  BY <1>5, <1>6

-----------------------------------------------------------------------------
(* The first inductive invariant: types, the baseline, and the queue *)

\* Nothing is known before there is a baseline, and no tick lacks a time.
BaselineKnown ==
  /\ builder.time = None => builder = NewBuilder
  /\ \A r \in Receiver : recv[r].pc = "packet" => BucketSeconds <= recv[r].tick.time
  /\ last = Idle.tick \/ BucketSeconds <= last.time

\* The builder remembers the last current tick, as its baseline or as the
\* candidate for it.
RunKnown ==
  run # <<>> =>
    /\ builder.confirmed \/ builder.time = run[1] \/ builder.pending = run[1]
    /\ run[1] # None
    /\ run[2] = 2 => builder.confirmed

\* The bar the connected receive thread has yet to put.
Owed == IF recv[connected].pc \in {"put", "drop", "put_again"} THEN 1 ELSE 0

\* The bars of a queue are the last ones of the first n.
LastOnes(q, n) == \A i \in 1 .. Len(q) : q[i].id = n - Len(q) + i

\* As long as one thread receives at a time, the queue and the bar that thread
\* holds are the last bars completed, and it never finds the queue full again
\* after it made room.
InOrder ==
  /\ \A r \in Receiver \ {connected} : recv[r].pc = "idle"
  /\ LastOnes(queue, Len(emitted) - Owed)
  /\ Owed = 1 => recv[connected].bar.id = Len(emitted)
  /\ recv[connected].pc = "put_again" => Len(queue) < MaxQueuedBars

Ordered == ~overlapped => InOrder

LiveInv == LiveTypes /\ BaselineKnown /\ RunKnown /\ Ordered

LEMMA NoneIsLast ==
  ASSUME NEW q, NEW n, Len(q) = 0
  PROVE  LastOnes(q, n)
<1>1. 1 .. Len(q) = {}
  BY SMT
<1> QED
  BY <1>1, Zenon DEF LastOnes

LEMMA TradeIsATick ==
  ASSUME NEW t \in Today
  PROVE  /\ Trade(t) \in Tick /\ Trade(t).time = t /\ Trade(t).price = Price(t)
         /\ Trade(t).volume = 1 /\ Price(t) \in Nat \ {0}
         /\ t \in Nat /\ BucketSeconds <= t /\ t # None
<1>1. t \in Nat /\ BucketSeconds <= t /\ t # None
  BY LiveDataAssumption, CandleAssumption DEF Today, None
<1>2. Price(t) \in Nat \ {0}
  BY LiveDataAssumption DEF Today
<1>3. Trade(t).time = t /\ Trade(t).price = Price(t) /\ Trade(t).volume = 1
  BY Zenon DEF Trade
<1>4. Trade(t) \in Tick
  <2>1. Price(t) \in Int /\ 1 \in Int /\ t \in Nat
    BY <1>1, <1>2
  <2> QED
    BY <2>1, Zenon DEF Trade, Tick
<1> QED
  BY <1>1, <1>2, <1>3, <1>4

\* What a step of one receive thread leaves of the others.
LEMMA OneReceiver ==
  ASSUME LiveTypes, NEW r \in Receiver, NEW p \in Receiving,
         recv' = [recv EXCEPT ![r] = p]
  PROVE  /\ recv' \in [Receiver -> Receiving]
         /\ \A s \in Receiver : recv'[s] = IF s = r THEN p ELSE recv[s]
BY DEF LiveTypes

LEMMA ReceivingFields ==
  ASSUME LiveTypes, NEW r \in Receiver
  PROVE  /\ recv[r] \in Receiving /\ recv[r].pc \in ReceiverPC
         /\ recv[r].tick \in Tick /\ recv[r].bar \in Bar
         /\ recv[r].bar.id \in Nat /\ recv[r].bar.start \in Nat
BY DEF LiveTypes, Receiving, Bar

LEMMA ReceiveEffect ==
  ASSUME LiveTypes, NEW r \in Receiver, NEW tick \in Tick, Receive(r, tick)
  PROVE  /\ r = connected /\ recv[r].pc = "idle" /\ last' = tick
         /\ recv' \in [Receiver -> Receiving]
         /\ \A s \in Receiver \ {r} : recv'[s] = recv[s]
         /\ recv'[r].pc = "packet" /\ recv'[r].tick = tick /\ recv'[r].bar = recv[r].bar
         /\ UNCHANGED <<now, connected, restarts, builder, queue, cursor, buffer, trades,
                        run, overlapped, emitted>>
<1>1. /\ r = connected /\ recv[r].pc = "idle" /\ last' = tick
      /\ UNCHANGED <<now, connected, restarts, builder, queue, cursor, buffer, trades,
                     run, overlapped, emitted>>
  BY Zenon DEF Receive
<1> DEFINE p == [recv[r] EXCEPT !.pc = "packet", !.tick = tick]
<1>2. recv' = [recv EXCEPT ![r] = p]
  <2>1. recv' = [recv EXCEPT ![r].pc = "packet", ![r].tick = tick]
    BY Zenon DEF Receive
  <2> QED
    BY <2>1 DEF LiveTypes
<1>3. "packet" \in ReceiverPC
  BY DEF ReceiverPC
<1>4. p \in Receiving /\ p.pc = "packet" /\ p.tick = tick /\ p.bar = recv[r].bar
  BY <1>3, ReceivingFields DEF Receiving
<1> HIDE DEF p
<1> QED
  BY <1>1, <1>2, <1>4, OneReceiver

LEMMA ReceiveInv ==
  ASSUME LiveInv, NEW r \in Receiver, NEW tick \in Tick, Receive(r, tick),
         BucketSeconds <= tick.time
  PROVE  LiveInv'
<1>1. LiveTypes
  BY DEF LiveInv
<1>2. /\ r = connected /\ recv[r].pc = "idle" /\ last' = tick
      /\ recv' \in [Receiver -> Receiving]
      /\ \A s \in Receiver \ {r} : recv'[s] = recv[s]
      /\ recv'[r].pc = "packet" /\ recv'[r].tick = tick /\ recv'[r].bar = recv[r].bar
      /\ UNCHANGED <<now, connected, restarts, builder, queue, cursor, buffer, trades,
                     run, overlapped, emitted>>
  BY <1>1, ReceiveEffect
<1>3. LiveTypes'
  BY <1>1, <1>2 DEF LiveTypes
<1>4. BaselineKnown'
  BY <1>2 DEF LiveInv, BaselineKnown
<1>5. RunKnown'
  BY <1>2 DEF LiveInv, RunKnown
<1>6. Ordered'
  <2>1. Owed' = 0 /\ Owed = 0
    BY <1>2 DEF Owed
  <2> QED
    BY <1>2, <2>1 DEF LiveInv, Ordered, InOrder
<1> QED
  BY <1>3, <1>4, <1>5, <1>6 DEF LiveInv

LEMMA DeliverInv ==
  ASSUME LiveInv, NEW r \in Receiver, Deliver(r) \/ Redeliver(r) \/ DeliverOdd(r)
  PROVE  LiveInv'
<1>1. CASE Deliver(r)
  <2>1. PICK t \in Today : Receive(r, Trade(t))
    BY <1>1, Zenon DEF Deliver
  <2> QED
    BY <2>1, TradeIsATick, ReceiveInv
<1>2. CASE Redeliver(r)
  <2>1. Receive(r, last) /\ last # Idle.tick
    BY <1>2, Zenon DEF Redeliver
  <2>2. last \in Tick /\ BucketSeconds <= last.time
    BY <2>1 DEF LiveInv, LiveTypes, BaselineKnown
  <2> QED
    BY <2>1, <2>2, ReceiveInv
<1>3. CASE DeliverOdd(r)
  <2>1. PICK tick \in OddTick : Receive(r, tick)
    BY <1>3, Zenon DEF DeliverOdd
  <2> QED
    BY <2>1, LiveDataAssumption, ReceiveInv
<1> QED
  BY <1>1, <1>2, <1>3

LEMMA AdvanceInv ==
  ASSUME LiveInv, Advance
  PROVE  LiveInv'
<1>1. now < MaxTime /\ now' = now + 1
      /\ UNCHANGED <<connected, last, odd, restarts, recv, builder, queue, cursor, buffer,
                     trades, run, overlapped, emitted>>
  BY Zenon DEF Advance
<1>2. now' \in Today
  BY <1>1, LiveDataAssumption DEF LiveInv, LiveTypes, Today
<1> QED
  BY <1>1, <1>2 DEF LiveInv, LiveTypes, BaselineKnown, RunKnown, Ordered, InOrder, Owed

LEMMA ReconnectInv ==
  ASSUME LiveInv, Reconnect
  PROVE  LiveInv'
<1>1. PICK r \in Receiver \ {connected} : recv[r].pc = "idle" /\ connected' = r
  BY Zenon DEF Reconnect
<1>2. /\ overlapped' = (overlapped \/ recv[connected].pc # "idle")
      /\ UNCHANGED <<now, delivered, last, odd, restarts, recv, builder, queue, cursor, buffer,
                     trades, run, emitted>>
  BY Zenon DEF Reconnect
<1>3. LiveTypes' /\ BaselineKnown' /\ RunKnown'
  BY <1>1, <1>2 DEF LiveInv, LiveTypes, BaselineKnown, RunKnown
<1>4. Ordered'
  <2> SUFFICES ASSUME ~overlapped'
               PROVE  InOrder'
    BY Zenon DEF Ordered
  <2>1. ~overlapped /\ recv[connected].pc = "idle"
    BY <1>2, Zenon
  <2>2. Owed = 0 /\ Owed' = 0
    BY <1>1, <1>2, <2>1 DEF Owed
  <2>3. connected \in Receiver
    BY DEF LiveInv, LiveTypes
  <2> QED
    BY <1>1, <1>2, <2>1, <2>2, <2>3 DEF LiveInv, Ordered, InOrder
<1> QED
  BY <1>3, <1>4 DEF LiveInv

LEMMA RestartInv ==
  ASSUME LiveInv, Restart
  PROVE  LiveInv'
<1>1. /\ recv' = [r \in Receiver |-> Idle]
      /\ builder' = NewBuilder /\ queue' = <<>> /\ buffer' = <<>>
      /\ trades' = {} /\ run' = <<>> /\ overlapped' = FALSE /\ emitted' = <<>>
      /\ UNCHANGED <<now, connected, delivered, last, odd, cursor>>
  BY Zenon DEF Restart
<1>2. LiveTypes'
  <2>1. recv' \in [Receiver -> Receiving] /\ builder' \in Builder
    BY <1>1, IdleType, NewTypes
  <2>2. queue' \in Seq(Bar) /\ buffer' \in Seq(Nat) /\ emitted' \in Seq(Nat)
        /\ Len(queue') <= MaxQueuedBars /\ Len(buffer') <= MaxBufferBars
    BY <1>1, LiveDataAssumption
  <2> QED
    BY <1>1, <2>1, <2>2 DEF LiveInv, LiveTypes
<1>3. \A r \in Receiver : recv'[r] = Idle
  BY <1>1
<1>4. connected' \in Receiver
  BY <1>1 DEF LiveInv, LiveTypes
<1>5. BaselineKnown' /\ RunKnown'
  BY <1>1, <1>3, IdleType DEF LiveInv, BaselineKnown, RunKnown
<1>6. Owed' = 0
  BY <1>3, <1>4, IdleType DEF Owed
<1>7. LastOnes(queue', Len(emitted') - Owed')
  <2>1. Len(queue') = 0
    BY <1>1
  <2> QED
    BY <2>1, NoneIsLast
<1>8. Ordered'
  BY <1>1, <1>3, <1>4, <1>6, <1>7, IdleType DEF Ordered, InOrder
<1> QED
  BY <1>2, <1>5, <1>8 DEF LiveInv

\* The three steps that put a bar, seen from the thread that does: it moves on,
\* with the bar as long as it holds it.
LEMMA PutKeepsTheRest ==
  ASSUME LiveInv, NEW r \in Receiver, recv[r].pc \in {"put", "drop", "put_again"},
         NEW p \in Receiving, p.pc \in ReceiverPC \ {"packet"}, p.tick \in Tick,
         recv' = [recv EXCEPT ![r] = p],
         queue' \in Seq(Bar), Len(queue') <= MaxQueuedBars,
         UNCHANGED <<wire, builder, cursor, buffer, trades, run, overlapped, emitted>>
  PROVE  LiveTypes' /\ BaselineKnown' /\ RunKnown'
<1>1. LiveTypes
  BY DEF LiveInv
<1>2. /\ recv' \in [Receiver -> Receiving]
      /\ \A s \in Receiver : recv'[s] = IF s = r THEN p ELSE recv[s]
  BY <1>1, OneReceiver
<1>3. UNCHANGED <<now, connected, last, builder, cursor, buffer, trades, run, overlapped, emitted>>
  BY DEF wire
<1>4. LiveTypes'
  BY <1>1, <1>2, <1>3 DEF LiveTypes
<1>5. BaselineKnown' /\ RunKnown'
  BY <1>2, <1>3 DEF LiveInv, BaselineKnown, RunKnown
<1> QED
  BY <1>4, <1>5

LEMMA TheThreadIsTheConnected ==
  ASSUME LiveInv, NEW r \in Receiver, recv[r].pc # "idle", ~overlapped
  PROVE  r = connected
BY DEF LiveInv, Ordered, InOrder

\* A bar that is put keeps the order of the queue.
LEMMA AppendKeepsOrder ==
  ASSUME NEW q \in Seq(Bar), NEW bar \in Bar, NEW n \in Nat,
         LastOnes(q, n - 1), bar.id = n
  PROVE  LastOnes(Append(q, bar), n)
<1>1. /\ Append(q, bar) \in Seq(Bar) /\ Len(Append(q, bar)) = Len(q) + 1
      /\ \A i \in 1 .. Len(q) : Append(q, bar)[i] = q[i]
      /\ Append(q, bar)[Len(q) + 1] = bar
  BY AppendProperties
<1>2. Len(q) \in Nat
  OBVIOUS
<1> DEFINE a == Append(q, bar)
<1> HIDE DEF a
<1>3. ASSUME NEW i \in 1 .. Len(a)
      PROVE  a[i].id = n - Len(a) + i
  <2>1. CASE i \in 1 .. Len(q)
    BY <1>1, <1>2, <2>1 DEF LastOnes, a
  <2>2. CASE i = Len(q) + 1
    BY <1>1, <1>2, <2>2 DEF a
  <2> QED
    BY <1>1, <1>2, <2>1, <2>2 DEF a
<1> QED
  BY <1>3 DEF LastOnes, a

\* So does losing the oldest one.
LEMMA TailKeepsOrder ==
  ASSUME NEW q \in Seq(Bar), q # <<>>, NEW n \in Int,
         LastOnes(q, n)
  PROVE  LastOnes(Tail(q), n)
<1>1. /\ Tail(q) \in Seq(Bar) /\ Len(Tail(q)) = Len(q) - 1
      /\ \A i \in 1 .. Len(q) - 1 : Tail(q)[i] = q[i + 1]
  OBVIOUS
<1>2. Len(q) \in Nat \ {0}
  OBVIOUS
<1> DEFINE a == Tail(q)
<1> HIDE DEF a
<1>3. ASSUME NEW i \in 1 .. Len(a)
      PROVE  a[i].id = n - Len(a) + i
  <2>1. i \in 1 .. Len(q) - 1 /\ Len(a) = Len(q) - 1 /\ a[i] = q[i + 1]
    BY <1>1 DEF a
  <2>2. q[i + 1].id = n - Len(q) + (i + 1)
    BY <1>2, <2>1 DEF LastOnes
  <2> QED
    BY <1>2, <2>1, <2>2
<1> QED
  BY <1>3 DEF LastOnes, a

LEMMA PutNowaitInv ==
  ASSUME LiveInv, NEW r \in Receiver, PutNowait(r)
  PROVE  LiveInv'
<1>1. /\ recv[r].pc = "put"
      /\ UNCHANGED <<wire, builder, cursor, buffer, trades, run, overlapped, emitted>>
  BY Zenon DEF PutNowait
<1>2. LiveTypes /\ recv[r].bar \in Bar /\ queue \in Seq(Bar) /\ Len(queue) <= MaxQueuedBars
      /\ connected' = connected /\ emitted' = emitted /\ overlapped' = overlapped
      /\ Len(emitted) \in Nat /\ MaxQueuedBars \in Nat /\ Len(queue) \in Nat
  BY <1>1, ReceivingFields, LiveDataAssumption DEF LiveInv, LiveTypes, wire
<1>3. CASE Full
  <2> DEFINE p == [recv[r] EXCEPT !.pc = "drop"]
  <2>1. queue' = queue /\ recv' = [recv EXCEPT ![r] = p]
    BY <1>3, Zenon DEF PutNowait
  <2>2. "drop" \in ReceiverPC \ {"packet"}
    BY DEF ReceiverPC
  <2>3. p \in Receiving /\ p.pc = "drop" /\ p.bar = recv[r].bar /\ p.tick \in Tick
    BY <1>2, <2>2, ReceivingFields DEF Receiving
  <2> HIDE DEF p
  <2>4. LiveTypes' /\ BaselineKnown' /\ RunKnown'
    BY <1>1, <1>2, <2>1, <2>2, <2>3, PutKeepsTheRest
  <2>5. \A s \in Receiver : recv'[s] = IF s = r THEN p ELSE recv[s]
    BY <1>2, <2>1, <2>3, OneReceiver
  <2>6. ASSUME ~overlapped
        PROVE  InOrder'
    <3>1. r = connected
      BY <1>1, <2>6, TheThreadIsTheConnected
    <3>2. Owed = 1 /\ Owed' = 1
      BY <1>1, <1>2, <2>3, <2>5, <3>1 DEF Owed
    <3> QED
      BY <1>2, <2>1, <2>3, <2>5, <2>6, <3>1, <3>2 DEF LiveInv, Ordered, InOrder
  <2> QED
    BY <1>2, <2>4, <2>6, Zenon DEF LiveInv, Ordered
<1>4. CASE ~Full
  <2>1. queue' = Append(queue, recv[r].bar) /\ recv' = [recv EXCEPT ![r] = Idle]
    BY <1>4, Zenon DEF PutNowait
  <2>2. /\ queue' \in Seq(Bar) /\ Len(queue') = Len(queue) + 1
        /\ Len(queue') <= MaxQueuedBars
    BY <1>2, <1>4, <2>1, AppendProperties DEF Full
  <2>3. LiveTypes' /\ BaselineKnown' /\ RunKnown'
    BY <1>1, <2>1, <2>2, IdleType, PutKeepsTheRest DEF ReceiverPC
  <2>4. \A s \in Receiver : recv'[s] = IF s = r THEN Idle ELSE recv[s]
    BY <1>2, <2>1, IdleType, OneReceiver
  <2>5. ASSUME ~overlapped
        PROVE  InOrder'
    <3>1. r = connected
      BY <1>1, <2>5, TheThreadIsTheConnected
    <3>2. Owed = 1 /\ Owed' = 0
      BY <1>1, <1>2, <2>4, <3>1, IdleType DEF Owed
    <3>3. LastOnes(queue, Len(emitted) - 1) /\ recv[r].bar.id = Len(emitted)
      BY <2>5, <3>1, <3>2 DEF LiveInv, Ordered, InOrder
    <3>4. LastOnes(queue', Len(emitted))
      BY <1>2, <2>1, <3>3, AppendKeepsOrder
    <3>5. LastOnes(queue', Len(emitted') - Owed')
      BY <1>2, <3>2, <3>4
    <3>6. \A s \in Receiver \ {connected'} : recv'[s].pc = "idle"
      BY <1>2, <2>4, <2>5, <3>1 DEF LiveInv, Ordered, InOrder
    <3>7. recv'[connected'].pc = "idle"
      BY <1>2, <2>4, <3>1, IdleType
    <3> QED
      BY <3>2, <3>5, <3>6, <3>7 DEF InOrder
  <2> QED
    BY <1>2, <2>3, <2>5, Zenon DEF LiveInv, Ordered
<1> QED
  BY <1>3, <1>4

\* A queue that lost its oldest bar, or had none to lose.
LEMMA QueueLosesOne ==
  ASSUME LiveTypes, queue' = IF queue = <<>> THEN <<>> ELSE Tail(queue)
  PROVE  /\ queue' \in Seq(Bar) /\ Len(queue') <= MaxQueuedBars /\ Len(queue') < MaxQueuedBars
         /\ \A n \in Int : LastOnes(queue, n) => LastOnes(queue', n)
<1>1. queue \in Seq(Bar) /\ Len(queue) <= MaxQueuedBars /\ MaxQueuedBars \in Nat \ {0}
      /\ Len(queue) \in Nat
  BY LiveDataAssumption DEF LiveTypes
<1>2. CASE queue = <<>>
  <2>1. queue' = <<>> /\ Len(queue') = 0
    BY <1>2
  <2>2. ASSUME NEW n \in Int
        PROVE  LastOnes(queue', n)
    BY <2>1, NoneIsLast
  <2> QED
    BY <1>1, <2>1, <2>2
<1>3. CASE queue # <<>>
  <2> DEFINE q == Tail(queue)
  <2>1. q \in Seq(Bar) /\ Len(q) = Len(queue) - 1
    BY <1>1, <1>3
  <2>2. \A n \in Int : LastOnes(queue, n) => LastOnes(q, n)
    BY <1>1, <1>3, TailKeepsOrder
  <2>3. queue' = q
    BY <1>3
  <2>4. Len(queue) - 1 < MaxQueuedBars
    BY <1>1
  <2> HIDE DEF q
  <2>5. \A n \in Int : LastOnes(queue, n) => LastOnes(queue', n)
    BY <2>2, <2>3, Zenon
  <2>6. queue' \in Seq(Bar) /\ Len(queue') < MaxQueuedBars
    BY <2>1, <2>3, <2>4, Zenon
  <2> QED
    BY <1>1, <2>5, <2>6
<1> QED
  BY <1>2, <1>3

LEMMA DropOldestInv ==
  ASSUME LiveInv, NEW r \in Receiver, DropOldest(r)
  PROVE  LiveInv'
<1> DEFINE p == [recv[r] EXCEPT !.pc = "put_again"]
<1>1. /\ recv[r].pc = "drop" /\ recv' = [recv EXCEPT ![r] = p]
      /\ queue' = IF queue = <<>> THEN <<>> ELSE Tail(queue)
      /\ UNCHANGED <<wire, builder, cursor, buffer, trades, run, overlapped, emitted>>
  BY Zenon DEF DropOldest
<1>2. LiveTypes /\ connected' = connected /\ emitted' = emitted /\ overlapped' = overlapped
      /\ Len(emitted) \in Nat
  BY <1>1 DEF LiveInv, LiveTypes, wire
<1>3. "put_again" \in ReceiverPC \ {"packet"}
  BY DEF ReceiverPC
<1>4. p \in Receiving /\ p.pc = "put_again" /\ p.bar = recv[r].bar /\ p.tick \in Tick
  BY <1>2, <1>3, ReceivingFields DEF Receiving
<1> HIDE DEF p
<1>5. /\ queue' \in Seq(Bar) /\ Len(queue') <= MaxQueuedBars /\ Len(queue') < MaxQueuedBars
      /\ \A n \in Int : LastOnes(queue, n) => LastOnes(queue', n)
  BY <1>1, <1>2, QueueLosesOne
<1>6. LiveTypes' /\ BaselineKnown' /\ RunKnown'
  BY <1>1, <1>3, <1>4, <1>5, PutKeepsTheRest
<1>7. \A s \in Receiver : recv'[s] = IF s = r THEN p ELSE recv[s]
  BY <1>1, <1>2, <1>4, OneReceiver
<1>8. ASSUME ~overlapped
      PROVE  InOrder'
  <2>1. r = connected
    BY <1>1, <1>8, TheThreadIsTheConnected
  <2>2. Owed = 1 /\ Owed' = 1
    BY <1>1, <1>2, <1>4, <1>7, <2>1 DEF Owed
  <2>3. LastOnes(queue, Len(emitted) - 1)
    BY <1>8, <2>2 DEF LiveInv, Ordered, InOrder
  <2>4. LastOnes(queue', Len(emitted) - 1)
    BY <1>2, <1>5, <2>3
  <2> QED
    BY <1>2, <1>4, <1>5, <1>7, <1>8, <2>1, <2>2, <2>4 DEF LiveInv, Ordered, InOrder
<1> QED
  BY <1>2, <1>6, <1>8, Zenon DEF LiveInv, Ordered

LEMMA PutAgainInv ==
  ASSUME LiveInv, NEW r \in Receiver, PutAgain(r)
  PROVE  LiveInv'
<1>1. /\ recv[r].pc = "put_again" /\ recv' = [recv EXCEPT ![r] = Idle]
      /\ queue' = IF Full THEN queue ELSE Append(queue, recv[r].bar)
      /\ UNCHANGED <<wire, builder, cursor, buffer, trades, run, overlapped, emitted>>
  BY Zenon DEF PutAgain
<1>2. LiveTypes /\ recv[r].bar \in Bar /\ queue \in Seq(Bar) /\ Len(queue) <= MaxQueuedBars
      /\ connected' = connected /\ emitted' = emitted /\ overlapped' = overlapped
      /\ Len(emitted) \in Nat /\ MaxQueuedBars \in Nat /\ Len(queue) \in Nat
  BY <1>1, ReceivingFields, LiveDataAssumption DEF LiveInv, LiveTypes, wire
<1>3. queue' \in Seq(Bar) /\ Len(queue') <= MaxQueuedBars
  BY <1>1, <1>2, AppendProperties DEF Full
<1>4. LiveTypes' /\ BaselineKnown' /\ RunKnown'
  BY <1>1, <1>3, IdleType, PutKeepsTheRest DEF ReceiverPC
<1>5. \A s \in Receiver : recv'[s] = IF s = r THEN Idle ELSE recv[s]
  BY <1>1, <1>2, IdleType, OneReceiver
<1>6. ASSUME ~overlapped
      PROVE  InOrder'
  <2>1. r = connected
    BY <1>1, <1>6, TheThreadIsTheConnected
  <2>2. Owed = 1 /\ Owed' = 0
    BY <1>1, <1>2, <1>5, <2>1, IdleType DEF Owed
  <2>3. /\ LastOnes(queue, Len(emitted) - 1)
        /\ recv[r].bar.id = Len(emitted) /\ Len(queue) < MaxQueuedBars
    BY <1>1, <1>6, <2>1, <2>2 DEF LiveInv, Ordered, InOrder
  <2>4. queue' = Append(queue, recv[r].bar) /\ Len(queue') = Len(queue) + 1
    BY <1>1, <1>2, <2>3, AppendProperties DEF Full
  <2>5. LastOnes(queue', Len(emitted))
    BY <1>2, <2>3, <2>4, AppendKeepsOrder
  <2>6. LastOnes(queue', Len(emitted') - Owed')
    BY <1>2, <2>2, <2>5
  <2>7. \A s \in Receiver \ {connected'} : recv'[s].pc = "idle"
    BY <1>2, <1>5, <1>6, <2>1 DEF LiveInv, Ordered, InOrder
  <2>8. recv'[connected'].pc = "idle"
    BY <1>2, <1>5, <2>1, IdleType
  <2> QED
    BY <2>2, <2>6, <2>7, <2>8 DEF InOrder
<1> QED
  BY <1>2, <1>4, <1>6, Zenon DEF LiveInv, Ordered

LEMMA ProcessNextInv ==
  ASSUME LiveInv, NEW halted \in BOOLEAN, ProcessNext(halted)
  PROVE  LiveInv'
<1>1. /\ queue # <<>> /\ queue' = Tail(queue)
      /\ UNCHANGED <<wire, recv, builder, trades, run, overlapped, emitted>>
  BY Zenon DEF ProcessNext
<1>2. LiveTypes /\ Len(emitted) \in Nat /\ queue \in Seq(Bar)
      /\ UNCHANGED <<now, connected, last>>
  BY <1>1 DEF LiveInv, LiveTypes, wire
<1>3. queue' = IF queue = <<>> THEN <<>> ELSE Tail(queue)
  BY <1>1
<1>4. /\ queue' \in Seq(Bar) /\ Len(queue') <= MaxQueuedBars /\ Len(queue') < MaxQueuedBars
      /\ \A n \in Int : LastOnes(queue, n) => LastOnes(queue', n)
  BY <1>2, <1>3, QueueLosesOne
<1>5. Head(queue) \in Bar
  BY <1>1, <1>2
<1>6. cursor' \in Nat /\ buffer' \in Seq(Nat) /\ Len(buffer') <= MaxBufferBars
  <2>1. buffer \in Seq(Nat) /\ Len(buffer) <= MaxBufferBars /\ cursor \in Nat
        /\ Head(queue).start \in Nat /\ MaxBufferBars \in Nat /\ Len(buffer) \in Nat
    BY <1>2, <1>5, LiveDataAssumption DEF LiveTypes, Bar
  <2>2. CASE Head(queue).start <= cursor
    <3>1. cursor' = cursor /\ buffer' = buffer
      BY <2>2, Zenon DEF ProcessNext
    <3> QED
      BY <2>1, <3>1
  <2>3. CASE ~(Head(queue).start <= cursor)
    <3>1. /\ cursor' = Head(queue).start
          /\ buffer' = IF halted THEN buffer ELSE Appended(Head(queue))
      BY <2>3, Zenon DEF ProcessNext
    <3> DEFINE b == Append(buffer, Head(queue).start)
    <3>2. b \in Seq(Nat) /\ Len(b) = Len(buffer) + 1 /\ b # <<>>
      BY <2>1, AppendProperties
    <3>3. Appended(Head(queue)) = IF Len(b) > MaxBufferBars THEN Tail(b) ELSE b
      BY Zenon DEF Appended
    <3> HIDE DEF b
    <3>4. Appended(Head(queue)) \in Seq(Nat) /\ Len(Appended(Head(queue))) <= MaxBufferBars
      <4>1. CASE Len(b) > MaxBufferBars
        <5>1. Tail(b) \in Seq(Nat) /\ Len(Tail(b)) = Len(b) - 1
          BY <3>2
        <5>2. Len(b) - 1 <= MaxBufferBars
          BY <2>1, <3>2
        <5>3. Appended(Head(queue)) = Tail(b)
          BY <3>3, <4>1, Zenon
        <5> QED
          BY <5>1, <5>2, <5>3
      <4>2. CASE ~(Len(b) > MaxBufferBars)
        BY <2>1, <3>2, <3>3, <4>2
      <4> QED
        BY <4>1, <4>2
    <3> QED
      BY <2>1, <3>1, <3>4
  <2> QED
    BY <2>2, <2>3
<1>7. LiveTypes'
  BY <1>1, <1>2, <1>4, <1>6 DEF LiveTypes
<1>8. BaselineKnown' /\ RunKnown'
  BY <1>1, <1>2 DEF LiveInv, BaselineKnown, RunKnown
<1>9. Ordered'
  <2>1. Owed' = Owed /\ Owed \in Nat
    BY <1>1, <1>2 DEF Owed
  <2> SUFFICES ASSUME ~overlapped
               PROVE  InOrder'
    BY <1>1, Zenon DEF Ordered
  <2>2. LastOnes(queue, Len(emitted) - Owed)
    BY DEF LiveInv, Ordered, InOrder
  <2>3. LastOnes(queue', Len(emitted) - Owed)
    BY <1>2, <1>4, <2>1, <2>2
  <2> QED
    BY <1>1, <1>2, <1>4, <2>1, <2>3 DEF LiveInv, Ordered, InOrder
<1> QED
  BY <1>7, <1>8, <1>9 DEF LiveInv

-----------------------------------------------------------------------------
(* A tick goes through on_tick *)

\* The four ways of OnTickCases, in one.
Handled(b, tick, received, after, bar) ==
  \/ TickRejected(b, tick, received, after, bar)
  \/ TickLate(b, tick, received, after, bar)
  \/ TickUnpriced(b, tick, received, after, bar)
  \/ TickMerged(b, tick, received, after, bar)

Holding(bar, id) == [Idle EXCEPT !.pc = "put", !.bar = [start |-> bar.start, id |-> id]]

LEMMA HandlePacketEffect ==
  ASSUME LiveTypes, NEW r \in Receiver, HandlePacket(r)
  PROVE  /\ recv[r].pc = "packet" /\ recv[r].tick \in Tick /\ now \in Nat
         /\ builder' \in Builder
         /\ trades' = TradesOf(builder'.bucket, Continued(builder, recv[r].tick), recv[r].tick)
         /\ run' = Extended(recv[r].tick)
         /\ UNCHANGED <<wire, queue, cursor, buffer, overlapped>>
         /\ \E bar \in Bucket :
              /\ Handled(builder, recv[r].tick, now, builder', bar)
              /\ bar = NoBucket => recv' = [recv EXCEPT ![r] = Idle] /\ emitted' = emitted
              /\ bar # NoBucket =>
                   /\ emitted' = Append(emitted, bar.start)
                   /\ recv' = [recv EXCEPT ![r] = Holding(bar, Len(emitted) + 1)]
<1> DEFINE tick == recv[r].tick
           bar == CompletedBar(builder, tick, now)
<1>1. /\ recv[r].pc = "packet" /\ builder' = OnTick(builder, tick, now)
      /\ trades' = TradesOf(builder'.bucket, Continued(builder, tick), tick) /\ run' = Extended(tick)
      /\ UNCHANGED <<wire, queue, cursor, buffer, overlapped>>
  BY Zenon DEF HandlePacket
<1>2. builder \in Builder /\ tick \in Tick /\ now \in Nat /\ emitted \in Seq(Nat)
  BY ReceivingFields, LiveDataAssumption, CandleAssumption DEF LiveTypes, Today
<1>3. builder' \in Builder /\ bar \in Bucket /\ Handled(builder, tick, now, builder', bar)
  BY <1>1, <1>2, OnTickCases, Zenon DEF Handled
<1>4. bar = NoBucket => recv' = [recv EXCEPT ![r] = Idle] /\ emitted' = emitted
  BY Zenon DEF HandlePacket
<1>5. bar # NoBucket =>
        /\ emitted' = Append(emitted, bar.start)
        /\ recv' = [recv EXCEPT ![r] = Holding(bar, Len(emitted'))]
  BY Zenon DEF HandlePacket, Holding
<1>6. bar # NoBucket => Len(emitted') = Len(emitted) + 1
  BY <1>2, <1>3, <1>5, AppendProperties DEF Bucket
<1>7. bar # NoBucket =>
        /\ emitted' = Append(emitted, bar.start)
        /\ recv' = [recv EXCEPT ![r] = Holding(bar, Len(emitted) + 1)]
  BY <1>5, <1>6, Zenon
<1> HIDE DEF bar, tick
<1>8. \E k \in Bucket :
         /\ Handled(builder, tick, now, builder', k)
         /\ k = NoBucket => recv' = [recv EXCEPT ![r] = Idle] /\ emitted' = emitted
         /\ k # NoBucket =>
              /\ emitted' = Append(emitted, k.start)
              /\ recv' = [recv EXCEPT ![r] = Holding(k, Len(emitted) + 1)]
  BY <1>3, <1>4, <1>7, Zenon
<1> QED
  BY <1>1, <1>2, <1>3, <1>8, Zenon DEF tick

LEMMA HoldingFields ==
  ASSUME NEW bar \in Bucket, NEW id \in Nat
  PROVE  /\ Holding(bar, id) \in Receiving /\ Holding(bar, id).pc = "put"
         /\ Holding(bar, id).bar.start = bar.start /\ Holding(bar, id).bar.id = id
<1> DEFINE k == [start |-> bar.start, id |-> id]
<1>1. bar.start \in Nat
  BY DEF Bucket
<1>2. k \in Bar /\ k.start = bar.start /\ k.id = id
  BY <1>1 DEF Bar
<1>3. "put" \in ReceiverPC
  BY DEF ReceiverPC
<1> HIDE DEF k
<1>4. Holding(bar, id) = [Idle EXCEPT !.pc = "put", !.bar = k]
  BY Zenon DEF Holding, k
<1> QED
  BY <1>2, <1>3, <1>4, IdleType DEF Receiving

\* What the builder remembers of its baseline after any tick that has a time.
LEMMA TickKeepsBaseline ==
  ASSUME NEW b \in Builder, NEW tick \in Tick, tick.time # None, NEW received \in Nat,
         b.time = None => b = NewBuilder, NEW after \in Builder, NEW bar \in Bucket,
         Handled(b, tick, received, after, bar)
  PROVE  /\ after.time = None => after = NewBuilder
         /\ b.confirmed => after.confirmed
         /\ b.time # None /\ TimeAccepted(b, tick.time, received) => after.confirmed
<1> DEFINE t == tick.time
           c == Confirmed(b, t)
<1>1. t \in Nat
  BY DEF Tick
<1>2. /\ c \in Builder
      /\ b.time = None \/ b.confirmed => c = b
      /\ b.time # None => c.confirmed
      /\ b.time # None => c.time # None
  BY <1>1, ConfirmedCases
<1>3. b.time = None => ~b.confirmed
  BY NewTypes
<1>4. b.confirmed => c.confirmed
  BY <1>2, Zenon
<1>5. b.time = None => c = NewBuilder /\ ~IsLate(c, t) /\ ~Completes(c, t)
  BY <1>2, NewTypes DEF IsLate, Completes
<1>6. CASE TickRejected(b, tick, received, after, bar)
  <2>1. after = Disagreed(b, t) /\ ~TimeAccepted(b, t, received)
    BY <1>6, Zenon DEF TickRejected
  <2>2. b.time # None
    BY <2>1 DEF TimeAccepted
  <2> QED
    BY <1>1, <2>1, <2>2, DisagreedCases, Zenon
<1>7. CASE TickLate(b, tick, received, after, bar)
  <2>1. after = c /\ IsLate(c, t)
    BY <1>7, Zenon DEF TickLate
  <2> QED
    BY <1>2, <1>4, <1>5, <2>1, Zenon
<1>8. CASE TickUnpriced(b, tick, received, after, bar)
  <2>1. after = Rolled(c, t)
    BY <1>8, Zenon DEF TickUnpriced
  <2>2. after.time = c.time /\ after.confirmed = c.confirmed
        /\ (~Completes(c, t) => after = c)
    BY <1>1, <1>2, <2>1, RolledCases
  <2> QED
    BY <1>2, <1>4, <1>5, <2>2, Zenon
<1>9. CASE TickMerged(b, tick, received, after, bar)
  <2>1. after.time = t /\ after.confirmed = c.confirmed
    BY <1>9, Zenon DEF TickMerged
  <2> QED
    BY <1>2, <1>4, <2>1, Zenon
<1> QED
  BY <1>6, <1>7, <1>8, <1>9 DEF Handled

\* A builder is left with a current tick as its baseline, or confirmed, or with
\* the tick as the candidate.
LEMMA CurrentTickIsKnown ==
  ASSUME NEW b \in Builder, NEW tick \in Tick, IsCurrent(tick), now \in Nat,
         b.time = None => b = NewBuilder, NEW after \in Builder, NEW bar \in Bucket,
         Handled(b, tick, now, after, bar)
  PROVE  /\ after.confirmed \/ after.time = tick.time \/ after.pending = tick.time
         /\ \/ after.confirmed
            \/ ~Agrees(tick.time, b.time) /\ ~Agrees(tick.time, b.pending) /\ ~b.confirmed
<1> DEFINE t == tick.time
           c == Confirmed(b, t)
<1>1. /\ t \in Today /\ PlausibleRelativeToReceipt(t, now) /\ t # None /\ t \in Nat
      /\ tick.price > 0 /\ tick.volume >= 0 /\ tick = Trade(t)
  <2>1. t \in Today /\ PlausibleRelativeToReceipt(t, now) /\ tick = Trade(t)
    BY Zenon DEF IsCurrent
  <2>2. Trade(t).price \in Nat \ {0} /\ Trade(t).volume = 1 /\ t # None /\ t \in Nat
    BY <2>1, TradeIsATick
  <2>3. tick.price \in Nat \ {0} /\ tick.volume = 1
    BY <2>1, <2>2, Zenon
  <2> QED
    BY <2>1, <2>2, <2>3
<1>2. /\ after.time = None => after = NewBuilder
      /\ b.confirmed => after.confirmed
      /\ b.time # None /\ TimeAccepted(b, t, now) => after.confirmed
  BY <1>1, TickKeepsBaseline
<1>3. CASE b.time = None
  <2>1. b = NewBuilder /\ TimeAccepted(b, t, now) /\ c = NewBuilder
    BY <1>1, <1>3, ConfirmedCases DEF TimeAccepted
  <2>2. ~IsLate(c, t) /\ PriceIsValid(c, tick)
    BY <1>1, <2>1, NewTypes DEF IsLate, PriceIsValid
  <2>3. TickMerged(b, tick, now, after, bar)
    BY <2>1, <2>2, Zenon DEF Handled, TickRejected, TickLate, TickUnpriced
  <2>4. after.time = t
    BY <2>3, Zenon DEF TickMerged
  <2>5. ~Agrees(t, b.time) /\ ~Agrees(t, b.pending) /\ ~b.confirmed
    BY <2>1, NewTypes, Zenon DEF Agrees
  <2> QED
    BY <2>4, <2>5
<1>4. CASE b.time # None /\ TimeAccepted(b, t, now)
  BY <1>2, <1>4
<1>5. CASE b.time # None /\ ~TimeAccepted(b, t, now)
  <2>1. TickRejected(b, tick, now, after, bar)
    BY <1>5, Zenon DEF Handled, TickMerged, TickLate, TickUnpriced
  <2>2. after = Disagreed(b, t)
    BY <2>1, Zenon DEF TickRejected
  <2>3. b.confirmed \/ after.pending = t
    BY <1>1, <2>2, DisagreedCases, Zenon
  <2>4. b.confirmed \/ (~Agrees(t, b.time) /\ ~Agrees(t, b.pending))
    BY <1>1, <1>5, Zenon DEF TimeAccepted
  <2> QED
    BY <1>2, <2>3, <2>4, Zenon
<1> QED
  BY <1>3, <1>4, <1>5

LEMMA HandlePacketInv ==
  ASSUME LiveInv, NEW r \in Receiver, HandlePacket(r)
  PROVE  LiveInv'
<1> DEFINE tick == recv[r].tick
<1>1. LiveTypes /\ (builder.time = None => builder = NewBuilder) /\ builder \in Builder
  BY DEF LiveInv, BaselineKnown, LiveTypes
<1>2. /\ recv[r].pc = "packet" /\ tick \in Tick /\ now \in Nat /\ builder' \in Builder
      /\ trades' = TradesOf(builder'.bucket, Continued(builder, tick), tick)
      /\ run' = Extended(tick)
      /\ UNCHANGED <<wire, queue, cursor, buffer, overlapped>>
  BY <1>1, HandlePacketEffect
<1>3. PICK bar \in Bucket :
              /\ Handled(builder, tick, now, builder', bar)
              /\ bar = NoBucket => recv' = [recv EXCEPT ![r] = Idle] /\ emitted' = emitted
              /\ bar # NoBucket =>
                   /\ emitted' = Append(emitted, bar.start)
                   /\ recv' = [recv EXCEPT ![r] = Holding(bar, Len(emitted) + 1)]
  BY <1>1, HandlePacketEffect
<1>4. UNCHANGED <<now, connected, last, queue, cursor, buffer, overlapped>>
  BY <1>2 DEF wire
<1>5. emitted \in Seq(Nat) /\ Len(emitted) \in Nat /\ bar.start \in Nat
  BY <1>1 DEF LiveTypes, Bucket
<1>6. tick.time # None
  BY <1>2, LiveDataAssumption, CandleAssumption DEF LiveInv, BaselineKnown, Tick, None
<1>7. \E p \in Receiving :
        /\ recv' = [recv EXCEPT ![r] = p]
        /\ \/ p.pc = "idle" /\ emitted' = emitted
           \/ p.pc = "put" /\ emitted' = Append(emitted, bar.start)
                /\ p.bar.id = Len(emitted) + 1
  <2>1. CASE bar = NoBucket
    BY <1>3, <2>1, IdleType
  <2>2. CASE bar # NoBucket
    BY <1>3, <1>5, <2>2, HoldingFields
  <2> QED
    BY <2>1, <2>2
<1>8. PICK p \in Receiving :
        /\ recv' = [recv EXCEPT ![r] = p]
        /\ \/ p.pc = "idle" /\ emitted' = emitted
           \/ p.pc = "put" /\ emitted' = Append(emitted, bar.start)
                /\ p.bar.id = Len(emitted) + 1
  BY <1>7
<1>9. /\ recv' \in [Receiver -> Receiving]
      /\ \A s \in Receiver : recv'[s] = IF s = r THEN p ELSE recv[s]
  BY <1>1, <1>8, OneReceiver
<1>10. run' = <<>> \/ run' \in Nat \X {1, 2}
  <2>1. run' = <<>> \/ run' = <<tick.time, 2>> \/ run' = <<tick.time, 1>>
    BY <1>2, Zenon DEF Extended
  <2>2. tick.time \in Nat
    BY <1>2 DEF Tick
  <2> QED
    BY <2>1, <2>2
<1>11. LiveTypes'
  <2>1. emitted' \in Seq(Nat)
    BY <1>5, <1>8, AppendProperties
  <2>2. trades' \subseteq Tick
    BY <1>1, <1>2 DEF TradesOf, LiveTypes
  <2> QED
    BY <1>1, <1>2, <1>4, <1>9, <1>10, <2>1, <2>2 DEF LiveTypes
<1>12. BaselineKnown'
  <2>1. builder'.time = None => builder' = NewBuilder
    BY <1>1, <1>2, <1>3, <1>6, TickKeepsBaseline
  <2>2. \A s \in Receiver : recv'[s].pc = "packet" => BucketSeconds <= recv'[s].tick.time
    BY <1>8, <1>9 DEF LiveInv, BaselineKnown
  <2> QED
    BY <1>4, <2>1, <2>2 DEF LiveInv, BaselineKnown
<1>13. RunKnown'
  <2> SUFFICES ASSUME run' # <<>>
               PROVE  /\ builder'.confirmed \/ builder'.time = run'[1]
                           \/ builder'.pending = run'[1]
                      /\ run'[1] # None
                      /\ run'[2] = 2 => builder'.confirmed
    BY Zenon DEF RunKnown
  <2>1. /\ IsCurrent(tick)
        /\ \/ run' = <<tick.time, 2>> /\ run # <<>> /\ Agrees(tick.time, run[1])
           \/ run' = <<tick.time, 1>>
    BY <1>2, Zenon DEF Extended
  <2>2. run'[1] = tick.time
    BY <2>1
  <2>3. /\ builder'.confirmed \/ builder'.time = tick.time \/ builder'.pending = tick.time
        /\ \/ builder'.confirmed
           \/ /\ ~Agrees(tick.time, builder.time) /\ ~Agrees(tick.time, builder.pending)
              /\ ~builder.confirmed
    BY <1>1, <1>2, <1>3, <2>1, CurrentTickIsKnown
  <2>4. run'[2] = 2 => run # <<>> /\ Agrees(tick.time, run[1])
    BY <2>1
  <2>5. run # <<>> => builder.confirmed \/ builder.time = run[1] \/ builder.pending = run[1]
    BY DEF LiveInv, RunKnown
  <2>6. run'[2] = 2 => builder'.confirmed
    BY <2>3, <2>4, <2>5, Zenon
  <2> QED
    BY <1>6, <2>2, <2>3, <2>6, Zenon
<1>14. Ordered'
  <2> SUFFICES ASSUME ~overlapped
               PROVE  InOrder'
    BY <1>4, Zenon DEF Ordered
  <2>1. r = connected
    BY <1>2, TheThreadIsTheConnected
  <2>2. Owed = 0
    BY <1>2, <2>1 DEF Owed
  <2>3. LastOnes(queue, Len(emitted)) /\ \A s \in Receiver \ {connected} : recv[s].pc = "idle"
    BY <1>5, <2>2 DEF LiveInv, Ordered, InOrder
  <2>4. \A s \in Receiver \ {connected'} : recv'[s].pc = "idle"
    BY <1>4, <1>9, <2>1, <2>3
  <2>5. recv'[connected'] = p
    BY <1>4, <1>9, <2>1
  <2>6. LastOnes(queue', Len(emitted') - Owed') /\ p.pc # "put_again"
        /\ (Owed' = 1 => p.bar.id = Len(emitted'))
    <3>1. CASE p.pc = "idle" /\ emitted' = emitted
      <4>1. Owed' = 0
        BY <2>5, <3>1 DEF Owed
      <4>2. Len(emitted') - Owed' = Len(emitted)
        BY <1>5, <3>1, <4>1
      <4> QED
        BY <1>4, <2>3, <3>1, <4>1, <4>2
    <3>2. CASE p.pc = "put" /\ emitted' = Append(emitted, bar.start)
                 /\ p.bar.id = Len(emitted) + 1
      <4>1. Owed' = 1
        BY <2>5, <3>2 DEF Owed
      <4>2. Len(emitted') = Len(emitted) + 1
        BY <1>5, <3>2, AppendProperties
      <4>3. Len(emitted') - Owed' = Len(emitted)
        BY <1>5, <4>1, <4>2
      <4> QED
        BY <1>4, <2>3, <3>2, <4>1, <4>2, <4>3
    <3> QED
      BY <1>8, <3>1, <3>2
  <2> QED
    BY <2>4, <2>5, <2>6 DEF InOrder
<1> QED
  BY <1>11, <1>12, <1>13, <1>14 DEF LiveInv

-----------------------------------------------------------------------------
(* Types, the cold start and the queue *)

LEMMA LiveInitially == Init => LiveInv
<1> SUFFICES ASSUME Init
             PROVE  LiveInv
  OBVIOUS
<1>1. /\ now = Open /\ connected \in Receiver
      /\ recv = [r \in Receiver |-> Idle]
      /\ builder = NewBuilder
      /\ queue = <<>> /\ cursor = None /\ buffer = <<>> /\ last = Idle.tick
      /\ trades = {} /\ run = <<>> /\ overlapped = FALSE /\ emitted = <<>>
  BY Zenon DEF Init
<1>2. now \in Today /\ cursor \in Nat
  BY <1>1, LiveDataAssumption, CandleAssumption DEF Today, None
<1>3. \A r \in Receiver : recv[r] = Idle
  BY <1>1
<1>4. recv \in [Receiver -> Receiving] /\ builder \in Builder /\ last \in Tick
  BY <1>1, IdleType, NewTypes
<1>5. queue \in Seq(Bar) /\ buffer \in Seq(Nat) /\ emitted \in Seq(Nat)
      /\ Len(queue) = 0 /\ Len(buffer) = 0
  BY <1>1
<1>6. LiveTypes
  BY <1>1, <1>2, <1>4, <1>5, LiveDataAssumption DEF LiveTypes
<1>7. BaselineKnown /\ RunKnown
  BY <1>1, <1>3, IdleType DEF BaselineKnown, RunKnown
<1>8. Owed = 0
  BY <1>1, <1>3, IdleType DEF Owed
<1>9. LastOnes(queue, Len(emitted) - Owed)
  BY <1>5, NoneIsLast
<1>10. Ordered
  BY <1>1, <1>3, <1>8, <1>9, IdleType DEF Ordered, InOrder
<1> QED
  BY <1>6, <1>7, <1>10 DEF LiveInv

LEMMA LiveStep == LiveInv /\ [Next]_vars => LiveInv'
<1> SUFFICES ASSUME LiveInv, [Next]_vars
             PROVE  LiveInv'
  OBVIOUS
<1>1. CASE Advance \/ Reconnect \/ Restart
  BY <1>1, AdvanceInv, ReconnectInv, RestartInv
<1>2. CASE \E r \in Receiver : Deliver(r) \/ Redeliver(r) \/ DeliverOdd(r)
  BY <1>2, DeliverInv
<1>3. CASE \E r \in Receiver : HandlePacket(r)
  BY <1>3, HandlePacketInv
<1>4. CASE \E r \in Receiver : PutNowait(r) \/ DropOldest(r) \/ PutAgain(r)
  BY <1>4, PutNowaitInv, DropOldestInv, PutAgainInv
<1>5. CASE \E halted \in BOOLEAN : ProcessNext(halted)
  BY <1>5, ProcessNextInv
<1>6. CASE UNCHANGED vars
  <2>1. UNCHANGED <<now, connected, last, recv, builder, queue, cursor, buffer, trades, run,
                    overlapped, emitted>>
    BY <1>6 DEF vars, wire
  <2> QED
    BY <2>1 DEF LiveInv, LiveTypes, BaselineKnown, RunKnown, Ordered, InOrder, Owed, LastOnes
<1> QED
  BY <1>1, <1>2, <1>3, <1>4, <1>5, <1>6, Zenon DEF Next

LEMMA LiveInvariant == Spec => []LiveInv
BY LiveInitially, LiveStep, PTL DEF Spec

\* Types: the clock, the receive threads, the builder and its bucket, and the
\* bounds of the queue (put_nowait and its drop) and of the indicator buffer.
THEOREM LiveTypeCorrect == Spec => []TypeOK
<1>1. LiveInv => TypeOK
  <2> SUFFICES ASSUME LiveInv
               PROVE  TypeOK
    OBVIOUS
  <2>1. LiveTypes
    BY DEF LiveInv
  <2>2. \A r \in Receiver :
          /\ recv[r].pc \in {"idle", "packet", "put", "drop", "put_again"}
          /\ recv[r].tick \in Tick /\ recv[r].bar \in Bar
    BY <2>1, ReceivingFields DEF ReceiverPC
  <2>3. builder.confirmed \in BOOLEAN
    BY <2>1, Zenon DEF LiveTypes, Builder
  <2>4. builder.bucket.volume \in Nat
    BY <2>1 DEF LiveTypes, Builder, Bucket
  <2>5. \A i \in DOMAIN queue : queue[i] \in Bar
    BY <2>1 DEF LiveTypes
  <2> QED
    BY <2>1, <2>2, <2>3, <2>4, <2>5, Zenon DEF LiveTypes, TypeOK
<1> QED
  BY <1>1, LiveInvariant, PTL

\* The second half of ColdStartRecovers.
RunOpensABucket ==
  run # <<>> /\ run[2] = 2 /\ PriceIsOfToday /\ Agrees(run[1], builder.time) =>
    builder.bucket.start # None

\* What on_tick leaves of a current tick on a steady day, when it leaves a
\* confirmed baseline: the tick was accepted, so it is late to an open bucket
\* or in one.
LEMMA CurrentTickOpens ==
  ASSUME PricesAreSteady, NEW b \in Builder, NEW tick \in Tick, IsCurrent(tick), now \in Nat,
         NEW after \in Builder, NEW bar \in Bucket, Handled(b, tick, now, after, bar),
         after.confirmed, Agrees(tick.time, after.time),
         \E u \in Today : after.price = Price(u), b.time = None => b = NewBuilder
  PROVE  after.bucket.start # None
<1> DEFINE t == tick.time
           c == Confirmed(b, t)
<1>1. /\ t \in Today /\ tick.price = Price(t) /\ tick.price > 0 /\ tick.volume >= 0
      /\ t \in Nat /\ BucketSeconds <= t
  <2>1. t \in Today /\ tick = Trade(t)
    BY Zenon DEF IsCurrent
  <2>2. Trade(t).price = Price(t) /\ Price(t) \in Nat \ {0} /\ Trade(t).volume = 1
        /\ t \in Nat /\ BucketSeconds <= t
    BY <2>1, TradeIsATick
  <2>3. tick.price = Price(t) /\ tick.volume = 1
    BY <2>1, <2>2, Zenon
  <2> QED
    BY <2>1, <2>2, <2>3
<1>2. c \in Builder
  BY <1>1, ConfirmedCases
<1>3. CASE TickRejected(b, tick, now, after, bar)
  <2>1. after = Disagreed(b, t) /\ ~TimeAccepted(b, t, now)
    BY <1>3, Zenon DEF TickRejected
  <2>2. /\ Disagreed(b, t).time = b.time /\ Disagreed(b, t).confirmed = b.confirmed
    BY <1>1, DisagreedCases
  <2>3. b.confirmed /\ Agrees(t, b.time)
    BY <2>1, <2>2, Zenon
  <2> QED
    BY <2>1, <2>3, Zenon DEF TimeAccepted
<1>4. CASE TickLate(b, tick, now, after, bar)
  BY <1>4, Zenon DEF TickLate, IsLate
<1>5. CASE TickUnpriced(b, tick, now, after, bar)
  <2>1. after = Rolled(c, t) /\ ~PriceIsValid(c, tick)
    BY <1>5, Zenon DEF TickUnpriced
  <2>2. after.price = c.price
    BY <1>1, <1>2, <2>1, RolledCases
  <2>3. Near(tick.price, c.price)
    BY <1>1, <2>2, Zenon DEF PricesAreSteady
  <2> QED
    BY <1>1, <2>1, <2>3 DEF PriceIsValid
<1>6. CASE TickMerged(b, tick, now, after, bar)
  <2> DEFINE k == Rolled(c, t).bucket
  <2>1. after.bucket = Merged(k, tick)
    BY <1>6, Zenon DEF TickMerged
  <2>2. k \in Bucket
    BY <1>1, <1>2, RolledCases DEF Builder
  <2>3. Merged(k, tick).start = BucketStart(t)
    BY <1>1, <2>2, MergedFields
  <2> HIDE DEF k
  <2> QED
    BY <1>1, <2>1, <2>3, BucketStarts
<1> QED
  BY <1>3, <1>4, <1>5, <1>6, Zenon DEF Handled

LEMMA BucketOpensStep ==
  ASSUME PricesAreSteady, LiveInv, RunOpensABucket, [Next]_vars
  PROVE  RunOpensABucket'
<1>1. /\ LiveTypes /\ builder \in Builder /\ (builder.time = None => builder = NewBuilder)
      /\ LiveInv'
  BY LiveStep DEF LiveInv, BaselineKnown, LiveTypes
<1>2. CASE UNCHANGED <<builder, run>>
  BY <1>2 DEF RunOpensABucket, PriceIsOfToday
<1>3. CASE Restart
  BY <1>3 DEF Restart, RunOpensABucket
<1>4. ASSUME NEW r \in Receiver, HandlePacket(r)
      PROVE  RunOpensABucket'
  <2> SUFFICES ASSUME run' # <<>>, run'[2] = 2, PriceIsOfToday', Agrees(run'[1], builder'.time)
               PROVE  builder'.bucket.start # None
    BY Zenon DEF RunOpensABucket
  <2> DEFINE tick == recv[r].tick
  <2>1. /\ tick \in Tick /\ now \in Nat /\ builder' \in Builder /\ run' = Extended(tick)
    BY <1>1, <1>4, HandlePacketEffect
  <2>2. PICK bar \in Bucket : Handled(builder, tick, now, builder', bar)
    BY <1>1, <1>4, HandlePacketEffect
  <2>3. IsCurrent(tick) /\ (run' = <<tick.time, 2>> \/ run' = <<tick.time, 1>>)
    BY <2>1, Zenon DEF Extended
  <2>4. run'[1] = tick.time
    BY <2>3
  <2>5. builder'.confirmed
    BY <1>1 DEF LiveInv, RunKnown
  <2>6. \E u \in Today : builder'.price = Price(u)
    BY DEF PriceIsOfToday
  <2> HIDE DEF tick
  <2> QED
    BY <1>1, <2>1, <2>2, <2>3, <2>4, <2>5, <2>6, CurrentTickOpens
<1>5. CASE Advance \/ Reconnect \/ \E r \in Receiver :
             Deliver(r) \/ Redeliver(r) \/ DeliverOdd(r)
               \/ PutNowait(r) \/ DropOldest(r) \/ PutAgain(r)
  BY <1>2, <1>5, Zenon
  DEF Advance, Reconnect, Deliver, Redeliver, DeliverOdd, Receive, PutNowait, DropOldest, PutAgain
<1>6. CASE \E halted \in BOOLEAN : ProcessNext(halted)
  BY <1>2, <1>6, Zenon DEF ProcessNext
<1>7. CASE UNCHANGED vars
  BY <1>2, <1>7, Zenon DEF vars
<1> QED
  BY <1>3, <1>4, <1>5, <1>6, <1>7, Zenon DEF Next

\* Two current ticks in a row, each within the permitted skew of the one
\* before, confirm the baseline of the builder whatever came before them
\* (the cold start of _timestamp_is_acceptable and its pending candidate), and
\* then a bucket is open, as long as the last price and time accepted are not
\* far from those of the day: supposed is that the prices are steady.
THEOREM ColdStartEnds ==
  ASSUME PricesAreSteady
  PROVE  Spec => []ColdStartRecovers
<1>1. Init => RunOpensABucket
  BY DEF Init, RunOpensABucket
<1>2. LiveInv /\ RunOpensABucket /\ [Next]_vars => RunOpensABucket'
  BY BucketOpensStep
<1>3. LiveInv /\ RunOpensABucket => ColdStartRecovers
  BY Zenon DEF LiveInv, RunKnown, RunOpensABucket, ColdStartRecovers
<1> QED
  BY <1>1, <1>2, <1>3, LiveInvariant, PTL DEF Spec

\* What is in the queue are the last bars that were completed, in their order,
\* as long as one thread receives at a time (_enqueue_bar: put_nowait, drop
\* the oldest, put again): the second put never finds the queue full.
THEOREM OldestBarsGoFirst == Spec => []NewestBarsSurvive
<1>1. LiveInv => NewestBarsSurvive
  <2> SUFFICES ASSUME LiveInv, ~overlapped,
                      \A r \in Receiver : recv[r].pc \in {"idle", "packet"}
               PROVE  \A i \in DOMAIN queue : queue[i].id = Len(emitted) - Len(queue) + i
    BY Zenon DEF NewestBarsSurvive
  <2>1. connected \in Receiver /\ queue \in Seq(Bar) /\ Len(emitted) \in Nat
        /\ Len(queue) \in Nat
    BY DEF LiveInv, LiveTypes
  <2>2. Owed = 0
    BY <2>1 DEF Owed
  <2>3. LastOnes(queue, Len(emitted) - Owed)
    BY DEF LiveInv, Ordered, InOrder
  <2>4. LastOnes(queue, Len(emitted))
    BY <2>1, <2>2, <2>3
  <2>5. DOMAIN queue = 1 .. Len(queue)
    BY <2>1
  <2> QED
    BY <2>4, <2>5 DEF LastOnes
<1> QED
  BY <1>1, LiveInvariant, PTL

-----------------------------------------------------------------------------
(* What the other steps leave alone *)

Busy(r) == recv[r].pc \in {"put", "drop", "put_again"}

\* A bar that is queued or held by a receive thread.
InFlight(bar) ==
  \/ \E i \in DOMAIN queue : queue[i] = bar
  \/ \E r \in Receiver : Busy(r) /\ recv[r].bar = bar

\* A trade that cannot be delivered any more.
IsPast(t) == t \in delivered \/ t + MaxLag < now

\* A step that neither receives nor handles a packet.
Quiet ==
  /\ UNCHANGED <<odd, builder, emitted, last, trades>>
  /\ now' \in Nat /\ now <= now'
  /\ \A r \in Receiver :
       recv'[r].pc = "packet" => recv[r].pc = "packet" /\ recv'[r].tick = recv[r].tick
  /\ \A t \in Today : IsPast(t) => IsPast(t)'
  /\ ~overlapped' =>
       ~overlapped /\ (recv'[connected'].pc = "packet" => connected' = connected)

LEMMA QuietSteps ==
  ASSUME LiveInv,
         \/ Advance \/ Reconnect
         \/ \E r \in Receiver : PutNowait(r) \/ DropOldest(r) \/ PutAgain(r)
         \/ \E halted \in BOOLEAN : ProcessNext(halted)
         \/ UNCHANGED vars
  PROVE  Quiet
<1>1. LiveTypes /\ now \in Nat /\ MaxLag \in Nat /\ connected \in Receiver
  BY LiveDataAssumption, CandleAssumption DEF LiveInv, LiveTypes, Today
<1>2. CASE Advance
  <2>1. /\ now' = now + 1 /\ delivered' = Recent(delivered, now')
        /\ UNCHANGED <<connected, last, odd, recv, builder, trades, overlapped, emitted>>
    BY <1>2, Zenon DEF Advance
  <2>2. ASSUME NEW t \in Today, IsPast(t)
        PROVE  IsPast(t)'
    BY <1>1, <2>1, <2>2, TradeIsATick DEF IsPast, Recent
  <2> QED
    BY <1>1, <2>1, <2>2 DEF Quiet
<1>3. CASE Reconnect
  <2>1. PICK r \in Receiver \ {connected} : recv[r].pc = "idle" /\ connected' = r
    BY <1>3, Zenon DEF Reconnect
  <2>2. /\ overlapped' = (overlapped \/ recv[connected].pc # "idle")
        /\ UNCHANGED <<now, delivered, last, odd, recv, builder, trades, emitted>>
    BY <1>3, Zenon DEF Reconnect
  <2>3. ~overlapped' => ~overlapped
    BY <2>2, Zenon
  <2>4. recv'[connected'].pc # "packet"
    BY <2>1, <2>2
  <2> QED
    BY <1>1, <2>2, <2>3, <2>4 DEF Quiet, IsPast
<1>4. CASE \E r \in Receiver : PutNowait(r) \/ DropOldest(r) \/ PutAgain(r)
  <2>1. PICK r \in Receiver : PutNowait(r) \/ DropOldest(r) \/ PutAgain(r)
    BY <1>4
  <2>2. /\ UNCHANGED <<wire, builder, trades, overlapped, emitted>>
        /\ \/ recv' = [recv EXCEPT ![r] = Idle]
           \/ recv' = [recv EXCEPT ![r].pc = "drop"]
           \/ recv' = [recv EXCEPT ![r].pc = "put_again"]
    BY <2>1, Zenon DEF PutNowait, DropOldest, PutAgain
  <2>3. \A s \in Receiver : recv'[s].pc = "packet" => recv'[s] = recv[s]
    BY <1>1, <2>2, IdleType DEF LiveTypes, Receiving
  <2> QED
    BY <1>1, <2>2, <2>3 DEF Quiet, IsPast, wire
<1>5. CASE \E halted \in BOOLEAN : ProcessNext(halted)
  <2>1. UNCHANGED <<wire, recv, builder, trades, run, overlapped, emitted>>
    BY <1>5, Zenon DEF ProcessNext
  <2> QED
    BY <1>1, <2>1 DEF Quiet, IsPast, wire
<1>6. CASE UNCHANGED vars
  BY <1>1, <1>6 DEF Quiet, IsPast, vars, wire
<1> QED
  BY <1>2, <1>3, <1>4, <1>5, <1>6

\* What a packet may bring: a trade that is due, the last tick again, or an
\* odd one.
Brings(tick) ==
  \/ \E t \in Today :
       /\ tick = Trade(t) /\ t <= now /\ t \notin delivered /\ t + MaxLag >= now
       /\ delivered' = delivered \cup {t} /\ odd' = odd
  \/ tick = last /\ last # Idle.tick /\ delivered' = delivered /\ odd' = odd
  \/ tick \in OddTick /\ delivered' = delivered /\ odd' = odd + 1

LEMMA ReceivingSteps ==
  ASSUME LiveInv, NEW r \in Receiver, Deliver(r) \/ Redeliver(r) \/ DeliverOdd(r)
  PROVE  /\ r = connected /\ recv[r].pc = "idle"
         /\ \E tick \in Tick :
              /\ Brings(tick) /\ last' = tick
              /\ \A s \in Receiver \ {r} : recv'[s] = recv[s]
              /\ recv'[r].pc = "packet" /\ recv'[r].tick = tick
         /\ UNCHANGED <<now, connected, builder, queue, trades, overlapped, emitted>>
<1>1. LiveTypes
  BY DEF LiveInv
<1>2. \E tick \in Tick : Receive(r, tick) /\ Brings(tick)
  <2>1. CASE Deliver(r)
    <3>1. PICK t \in Today : /\ t <= now /\ t + MaxLag >= now /\ t \notin delivered
                             /\ Receive(r, Trade(t))
                             /\ delivered' = delivered \cup {t} /\ UNCHANGED odd
      BY <2>1, Zenon DEF Deliver
    <3>2. Trade(t) \in Tick
      BY TradeIsATick
    <3> QED
      BY <3>1, <3>2, Zenon DEF Brings
  <2>2. CASE Redeliver(r)
    <3>1. last # Idle.tick /\ Receive(r, last) /\ UNCHANGED <<delivered, odd>>
      BY <2>2, Zenon DEF Redeliver
    <3>2. last \in Tick
      BY <1>1 DEF LiveTypes
    <3> QED
      BY <3>1, <3>2, Zenon DEF Brings
  <2>3. CASE DeliverOdd(r)
    <3>1. PICK tick \in OddTick : Receive(r, tick) /\ odd' = odd + 1 /\ UNCHANGED delivered
      BY <2>3, Zenon DEF DeliverOdd
    <3>2. tick \in Tick
      BY LiveDataAssumption
    <3> QED
      BY <3>1, <3>2, Zenon DEF Brings
  <2> QED
    BY <2>1, <2>2, <2>3
<1>3. PICK tick \in Tick : Receive(r, tick) /\ Brings(tick)
  BY <1>2
<1>4. /\ r = connected /\ recv[r].pc = "idle" /\ last' = tick
      /\ \A s \in Receiver \ {r} : recv'[s] = recv[s]
      /\ recv'[r].pc = "packet" /\ recv'[r].tick = tick
      /\ UNCHANGED <<now, connected, builder, queue, trades, overlapped, emitted>>
  BY <1>1, <1>3, ReceiveEffect
<1> QED
  BY <1>3, <1>4

-----------------------------------------------------------------------------
(* Buckets are completed in their order, on a day without odd ticks *)

IsTrade(tick) == \E t \in Today : tick = Trade(t)

TrueTicks ==
  /\ odd \in Nat
  /\ odd = 0 =>
       /\ \A r \in Receiver : recv[r].pc = "packet" => IsTrade(recv[r].tick)
       /\ last = Idle.tick \/ IsTrade(last)

Increasing(starts) == \A i, j \in DOMAIN starts : i < j => starts[i] < starts[j]

\* Each completed bucket is older than the open one, which there is from the
\* first accepted tick on: a steady price never fails to seed it.
EmittedInOrder(b, starts) ==
  /\ b.price # None => \E t \in Today : b.price = Price(t)
  /\ b.time # None => b.bucket.start # None
  /\ ~b.confirmed => starts = <<>>
  /\ \A i \in DOMAIN starts : starts[i] < b.bucket.start
  /\ Increasing(starts)

Emitting == odd = 0 => EmittedInOrder(builder, emitted)

OrderInv == LiveInv /\ TrueTicks /\ Emitting

\* A bucket that is completed goes after those that were.
LEMMA AppendIncreases ==
  ASSUME NEW starts \in Seq(Nat), NEW start \in Nat, Increasing(starts),
         \A i \in DOMAIN starts : starts[i] < start
  PROVE  /\ Increasing(Append(starts, start))
         /\ \A i \in DOMAIN Append(starts, start) : Append(starts, start)[i] <= start
<1> DEFINE a == Append(starts, start)
<1>1. /\ a \in Seq(Nat) /\ Len(a) = Len(starts) + 1
      /\ \A i \in 1 .. Len(starts) : a[i] = starts[i]
      /\ a[Len(starts) + 1] = start
  BY AppendProperties
<1>2. DOMAIN a = 1 .. Len(a) /\ DOMAIN starts = 1 .. Len(starts) /\ Len(starts) \in Nat
  BY <1>1
<1>3. \A i \in DOMAIN starts : starts[i] \in Nat
  OBVIOUS
<1> HIDE DEF a
<1>4. \A i \in DOMAIN a : a[i] <= start
  BY <1>1, <1>2, <1>3
<1>5. ASSUME NEW i \in DOMAIN a, NEW j \in DOMAIN a, i < j
      PROVE  a[i] < a[j]
  <2>1. i \in DOMAIN starts /\ a[i] = starts[i]
    BY <1>1, <1>2, <1>5
  <2>2. CASE j \in DOMAIN starts
    <3>1. a[j] = starts[j]
      BY <1>1, <1>2, <2>2
    <3> QED
      BY <1>5, <2>1, <2>2, <3>1 DEF Increasing
  <2>3. CASE j = Len(starts) + 1
    BY <1>1, <2>1, <2>3
  <2> QED
    BY <1>1, <1>2, <2>2, <2>3
<1> QED
  BY <1>4, <1>5 DEF Increasing, a

\* What on_tick makes of a trade of a steady day: it is rejected and changes
\* nothing that matters, it is late, or it is merged.
LEMMA TradeKeepsOrder ==
  ASSUME PricesAreSteady, NEW b \in Builder, NEW t \in Today, NEW received \in Nat,
         b.time = None => b = NewBuilder, NEW after \in Builder, NEW bar \in Bucket,
         Handled(b, Trade(t), received, after, bar),
         NEW starts \in Seq(Nat), EmittedInOrder(b, starts)
  PROVE  EmittedInOrder(after, IF bar = NoBucket THEN starts ELSE Append(starts, bar.start))
<1> DEFINE tick == Trade(t)
           c == Confirmed(b, t)
<1>1. /\ tick \in Tick /\ tick.time = t /\ tick.price = Price(t) /\ tick.volume = 1
      /\ Price(t) \in Nat \ {0} /\ t \in Nat /\ t # None /\ BucketSeconds <= t
  BY TradeIsATick
<1>2. /\ c \in Builder /\ BucketStart(t) \in Nat /\ BucketStart(t) # None
      /\ b.time = None \/ b.confirmed => c = b
      /\ b.time # None => c.confirmed
      /\ c.bucket = b.bucket \/ (c.bucket = NoBucket /\ ~b.confirmed)
      /\ c.price = b.price \/ c.price = None
  BY <1>1, ConfirmedCases, BucketStarts
<1>3. /\ b.bucket.start \in Nat /\ c.bucket.start \in Nat /\ c.bucket \in Bucket
      /\ \A i \in DOMAIN starts : starts[i] \in Nat
  <2>1. c \in Builder
    BY <1>2
  <2> HIDE DEF c
  <2>2. b.bucket.start \in Nat /\ c.bucket.start \in Nat /\ c.bucket \in Bucket
    BY <2>1 DEF Builder, Bucket
  <2>3. \A i \in DOMAIN starts : starts[i] \in Nat
    OBVIOUS
  <2> QED
    BY <2>2, <2>3
<1>4. /\ b.time # None => b.bucket.start # None
      /\ ~b.confirmed => starts = <<>>
      /\ \A i \in DOMAIN starts : starts[i] < b.bucket.start
      /\ Increasing(starts)
      /\ b.price # None => \E u \in Today : b.price = Price(u)
  BY Zenon DEF EmittedInOrder
<1>5. PriceIsValid(c, tick)
  <2>1. c.price # None => \E u \in Today : c.price = Price(u)
    BY <1>2, <1>4, Zenon
  <2>2. c.price # None => Near(tick.price, c.price)
    BY <1>1, <2>1, Zenon DEF PricesAreSteady
  <2> QED
    BY <1>1, <2>2 DEF PriceIsValid
<1>6. ~TickUnpriced(b, tick, received, after, bar)
  BY <1>1, <1>5, Zenon DEF TickUnpriced
<1>7. starts # <<>> => c = b /\ b.confirmed
  BY <1>2, <1>4, Zenon
<1>8. CASE TickRejected(b, tick, received, after, bar)
  <2>1. after = Disagreed(b, t) /\ bar = NoBucket
    BY <1>1, <1>8, Zenon DEF TickRejected
  <2>2. /\ after.price = b.price /\ after.time = b.time /\ after.bucket = b.bucket
        /\ after.confirmed = b.confirmed
    <3>1. t \in Nat
      BY <1>1
    <3>2. /\ Disagreed(b, t).price = b.price /\ Disagreed(b, t).time = b.time
          /\ Disagreed(b, t).bucket = b.bucket /\ Disagreed(b, t).confirmed = b.confirmed
      BY <3>1, DisagreedCases
    <3> QED
      BY <2>1, <3>2, Zenon
  <2> QED
    BY <1>4, <2>1, <2>2, Zenon DEF EmittedInOrder
<1>9. CASE TickLate(b, tick, received, after, bar)
  <2>1. after = c /\ bar = NoBucket /\ c.bucket.start # None
    BY <1>1, <1>9, Zenon DEF TickLate, IsLate
  <2>2. c.bucket = b.bucket
    BY <1>2, <2>1, NewTypes, Zenon
  <2>3. starts # <<>> => c.confirmed
    BY <1>7, Zenon
  <2> QED
    BY <1>2, <1>4, <2>1, <2>2, <2>3, Zenon DEF EmittedInOrder
<1>10. CASE TickMerged(b, tick, received, after, bar)
  <2> DEFINE k == Rolled(c, t).bucket
  <2>1. /\ TimeAccepted(b, t, received) /\ ~IsLate(c, t)
        /\ after.bucket = Merged(k, tick) /\ after.price = tick.price
        /\ after.confirmed = c.confirmed
        /\ bar = IF Completes(c, t) THEN c.bucket ELSE NoBucket
    BY <1>1, <1>10, Zenon DEF TickMerged
  <2>2. k \in Bucket
    BY <1>1, <1>2, RolledCases DEF Builder
  <2>3. after.bucket.start = BucketStart(t)
    <3>1. Merged(k, tick).start = BucketStart(tick.time)
      BY <1>1, <2>2, MergedFields
    <3> QED
      BY <1>1, <2>1, <3>1, Zenon
  <2>4. c.bucket.start <= BucketStart(t)
    BY <1>2, <1>3, <2>1 DEF IsLate, None
  <2>5. CASE starts = <<>> /\ ~Completes(c, t)
    <3>1. bar = NoBucket
      BY <2>1, <2>5, Zenon
    <3> QED
      BY <1>1, <1>2, <1>4, <2>1, <2>3, <2>5, <3>1 DEF EmittedInOrder
  <2>6. CASE starts # <<>> /\ ~Completes(c, t)
    <3>1. bar = NoBucket
      BY <2>1, <2>6, Zenon
    <3>2. c = b /\ b.confirmed
      BY <1>7, <2>6
    <3>3. \A i \in DOMAIN starts : starts[i] < after.bucket.start
      BY <1>2, <1>3, <1>4, <2>3, <2>4, <3>2
    <3>4. after.confirmed /\ after.bucket.start # None
      BY <1>2, <2>1, <2>3, <3>2, Zenon
    <3>5. \E u \in Today : after.price = Price(u)
      BY <1>1, <2>1, Zenon
    <3> QED
      BY <1>4, <3>1, <3>3, <3>4, <3>5, Zenon DEF EmittedInOrder
  <2>7. CASE Completes(c, t)
    <3>1. bar = c.bucket /\ c.bucket.start # None /\ c.bucket.start < BucketStart(t)
      BY <1>2, <1>3, <2>1, <2>7 DEF Completes
    <3>2. bar # NoBucket /\ c.bucket = b.bucket /\ c.confirmed
      <4>1. bar # NoBucket
        BY <3>1, NewTypes, Zenon
      <4>2. c.bucket = b.bucket
        BY <1>2, <3>1, <4>1, Zenon
      <4>3. b.time # None
        BY <3>1, <4>2, NewTypes, Zenon
      <4> QED
        BY <1>2, <4>1, <4>2, <4>3, Zenon
    <3> DEFINE a == Append(starts, bar.start)
    <3>3. a \in Seq(Nat) /\ Increasing(a) /\ \A i \in DOMAIN a : a[i] <= bar.start
      <4>1. bar.start \in Nat /\ \A i \in DOMAIN starts : starts[i] < bar.start
        BY <1>3, <1>4, <3>1, <3>2
      <4> QED
        BY <1>4, <4>1, AppendIncreases, AppendProperties
    <3>4. \A i \in DOMAIN a : a[i] \in Nat
      BY <3>3
    <3> HIDE DEF a
    <3>5. \A i \in DOMAIN a : a[i] < after.bucket.start
      BY <1>2, <1>3, <2>3, <3>1, <3>3, <3>4
    <3>6. after.confirmed /\ after.bucket.start # None
      BY <1>2, <2>1, <2>3, <3>2, Zenon
    <3>7. \E u \in Today : after.price = Price(u)
      BY <1>1, <2>1, Zenon
    <3>8. EmittedInOrder(after, a)
      BY <3>3, <3>5, <3>6, <3>7, Zenon DEF EmittedInOrder
    <3> QED
      BY <3>2, <3>8, Zenon DEF a
  <2> QED
    BY <2>5, <2>6, <2>7
<1> QED
  BY <1>6, <1>8, <1>9, <1>10, Zenon DEF Handled

LEMMA OrderStep ==
  ASSUME PricesAreSteady, OrderInv, [Next]_vars
  PROVE  OrderInv'
<1>1. LiveInv /\ LiveTypes /\ LiveInv'
  BY LiveStep DEF OrderInv, LiveInv
<1>2. TrueTicks /\ Emitting
  BY DEF OrderInv
<1>3. CASE \/ Advance \/ Reconnect
           \/ \E r \in Receiver : PutNowait(r) \/ DropOldest(r) \/ PutAgain(r)
           \/ \E halted \in BOOLEAN : ProcessNext(halted)
           \/ UNCHANGED vars
  <2>1. Quiet
    BY <1>1, <1>3, QuietSteps
  <2>2. /\ UNCHANGED <<odd, builder, emitted, last>>
        /\ \A r \in Receiver :
             recv'[r].pc = "packet" => recv[r].pc = "packet" /\ recv'[r].tick = recv[r].tick
    BY <2>1 DEF Quiet
  <2> QED
    BY <1>1, <1>2, <2>2 DEF OrderInv, TrueTicks, Emitting
<1>4. CASE Restart
  <2>1. /\ recv' = [r \in Receiver |-> Idle] /\ builder' = NewBuilder /\ emitted' = <<>>
        /\ UNCHANGED <<last, odd>>
    BY <1>4, Zenon DEF Restart
  <2>2. TrueTicks'
    BY <1>2, <2>1, IdleType DEF TrueTicks
  <2>3. EmittedInOrder(builder', emitted')
    BY <2>1, NewTypes DEF EmittedInOrder, Increasing
  <2> QED
    BY <1>1, <2>2, <2>3 DEF OrderInv, Emitting
<1>5. CASE \E r \in Receiver : Deliver(r) \/ Redeliver(r) \/ DeliverOdd(r)
  <2>1. PICK r \in Receiver : Deliver(r) \/ Redeliver(r) \/ DeliverOdd(r)
    BY <1>5
  <2>2. /\ \A s \in Receiver : recv'[s].pc = "packet" => recv'[s] = recv[s] \/ recv'[s].tick = last'
        /\ \/ odd' = odd + 1
           \/ odd' = odd /\ (IsTrade(last') \/ (last' = last /\ last # Idle.tick))
        /\ builder' = builder /\ emitted' = emitted
    <3>1. /\ \E tick \in Tick :
               /\ Brings(tick) /\ last' = tick
               /\ \A s \in Receiver \ {r} : recv'[s] = recv[s]
               /\ recv'[r].pc = "packet" /\ recv'[r].tick = tick
          /\ UNCHANGED <<now, connected, builder, queue, trades, overlapped, emitted>>
      BY <1>1, <2>1, ReceivingSteps
    <3> QED
      BY <3>1 DEF Brings, IsTrade
  <2>3. TrueTicks'
    <3>1. odd \in Nat /\ odd' \in Nat /\ (odd' = 0 => odd = 0 /\ odd' = odd)
      BY <1>2, <2>2 DEF TrueTicks
    <3>2. ASSUME odd' = 0
          PROVE  IsTrade(last')
      BY <1>2, <2>2, <3>1, <3>2 DEF TrueTicks
    <3> QED
      BY <1>2, <2>2, <3>1, <3>2 DEF TrueTicks, IsTrade
  <2>4. Emitting'
    BY <1>2, <2>2 DEF Emitting, TrueTicks
  <2> QED
    BY <1>1, <2>3, <2>4 DEF OrderInv
<1>6. CASE \E r \in Receiver : HandlePacket(r)
  <2>1. PICK r \in Receiver : HandlePacket(r)
    BY <1>6
  <2> DEFINE tick == recv[r].tick
  <2>2. /\ recv[r].pc = "packet" /\ tick \in Tick /\ now \in Nat
        /\ builder' \in Builder /\ UNCHANGED <<odd, last>>
    BY <1>1, <2>1, HandlePacketEffect DEF wire
  <2>3. PICK bar \in Bucket :
          /\ Handled(builder, tick, now, builder', bar)
          /\ bar = NoBucket => recv' = [recv EXCEPT ![r] = Idle] /\ emitted' = emitted
          /\ bar # NoBucket =>
               /\ emitted' = Append(emitted, bar.start)
               /\ recv' = [recv EXCEPT ![r] = Holding(bar, Len(emitted) + 1)]
    BY <1>1, <2>1, HandlePacketEffect
  <2>4. emitted' = IF bar = NoBucket THEN emitted ELSE Append(emitted, bar.start)
    BY <2>3, Zenon
  <2>5. \A s \in Receiver : recv'[s].pc = "packet" => recv'[s] = recv[s]
    <3>1. \E p \in Receiving : recv' = [recv EXCEPT ![r] = p] /\ p.pc # "packet"
      BY <1>1, <2>3, IdleType, HoldingFields DEF LiveTypes
    <3> QED
      BY <1>1, <3>1, OneReceiver
  <2>6. TrueTicks'
    BY <1>2, <2>2, <2>5 DEF TrueTicks
  <2>7. Emitting'
    <3> SUFFICES ASSUME odd = 0
                 PROVE  EmittedInOrder(builder', emitted')
      BY <2>2, Zenon DEF Emitting
    <3>1. PICK t \in Today : tick = Trade(t)
      BY <1>2, <2>2, Zenon DEF TrueTicks, IsTrade
    <3>2. /\ builder \in Builder /\ emitted \in Seq(Nat)
          /\ builder.time = None => builder = NewBuilder
      BY <1>1 DEF LiveInv, LiveTypes, BaselineKnown
    <3>3. Handled(builder, Trade(t), now, builder', bar) /\ EmittedInOrder(builder, emitted)
      BY <1>2, <2>3, <3>1, Zenon DEF Emitting
    <3>4. EmittedInOrder(builder', IF bar = NoBucket THEN emitted ELSE Append(emitted, bar.start))
      BY <2>2, <3>2, <3>3, TradeKeepsOrder
    <3> QED
      BY <2>4, <3>4, Zenon
  <2> QED
    BY <1>1, <2>6, <2>7 DEF OrderInv
<1> QED
  BY <1>3, <1>4, <1>5, <1>6, Zenon DEF Next

\* No bucket that was completed is completed again, in whatever order the
\* trades of a steady day arrive and on however many connections ("Dropped,
\* never fabricated into either bucket", on_tick): supposed is that the prices
\* are steady, and no odd tick came.
THEOREM BucketsStayClosed ==
  ASSUME PricesAreSteady
  PROVE  Spec => []ClosedBucketStaysClosed
<1>1. Init => OrderInv
  <2> SUFFICES ASSUME Init
               PROVE  OrderInv
    OBVIOUS
  <2>1. /\ recv = [r \in Receiver |-> Idle] /\ builder = NewBuilder /\ emitted = <<>>
        /\ odd = 0 /\ last = Idle.tick
    BY Zenon DEF Init
  <2>2. TrueTicks
    BY <2>1, IdleType DEF TrueTicks
  <2>3. EmittedInOrder(builder, emitted)
    BY <2>1, NewTypes DEF EmittedInOrder, Increasing
  <2> QED
    BY <2>2, <2>3, LiveInitially, Zenon DEF OrderInv, Emitting
<1>2. OrderInv /\ [Next]_vars => OrderInv'
  BY OrderStep
<1>3. OrderInv => ClosedBucketStaysClosed
  BY DEF OrderInv, Emitting, EmittedInOrder, Increasing, ClosedBucketStaysClosed
<1> QED
  BY <1>1, <1>2, <1>3, PTL DEF Spec

-----------------------------------------------------------------------------
(* Bars are of today, and not of a time to come *)

\* A tick the wire can bring by now.
Known(tick) == tick \in OddTick \/ \E t \in Today : t <= now /\ tick = Trade(t)

KnownTicks ==
  /\ \A r \in Receiver : recv[r].pc = "packet" => Known(recv[r].tick)
  /\ last = Idle.tick \/ Known(last)

\* A time that has come, or that an odd tick with a price claims.
Seed(u) ==
  \/ u \in Today /\ u <= now
  \/ \E tick \in OddTick : tick.price > 0 /\ tick.time = u

\* What the baseline and the open bucket come from.
CurrentBuilder(b) ==
  /\ b.confirmed => b.time \in Today
  /\ b.time # None /\ ~b.confirmed =>
       b.bucket.start = BucketStart(b.time) /\ Seed(b.time)
  /\ b.confirmed /\ b.bucket.start # None =>
       \E u \in Today : b.bucket.start = BucketStart(u) /\ Seed(u)

CurrentBar(bar) == bar.start \in BucketStart(Open) .. now

Current ==
  /\ KnownTicks /\ CurrentBuilder(builder)
  /\ NoTwoAhead => \A bar \in Bar : InFlight(bar) => CurrentBar(bar)

CurrentInv == LiveInv /\ Current

\* A tick that is accepted once there is a baseline is of today, and so is the
\* baseline it confirms: what is far from the day agrees with nothing of it.
LEMMA AcceptedIsOfToday ==
  ASSUME OddTicksAreForeign, now \in Today, NEW b \in Builder, NEW tick \in Tick, Known(tick),
         CurrentBuilder(b), b.time # None, TimeAccepted(b, tick.time, now)
  PROVE  /\ tick.time \in Today
         /\ Agrees(tick.time, b.time) => b.time \in Today
<1> DEFINE t == tick.time
<1>1. /\ t \in Nat /\ b.time \in Nat /\ now \in Nat
      /\ MaxSkew \in Nat /\ MaxReceiptSkew \in Nat
  BY LiveDataAssumption, CandleAssumption DEF Tick, Builder, Today
<1>2. t \in Today \/ Far(t)
  <2>1. CASE tick \in OddTick
    BY <2>1, Zenon DEF OddTicksAreForeign, OddOfToday
  <2>2. CASE \E u \in Today : u <= now /\ tick = Trade(u)
    BY <2>2, TradeIsATick
  <2> QED
    BY <2>1, <2>2, Zenon DEF Known
<1>3. \/ b.confirmed /\ Agrees(t, b.time)
      \/ ~b.confirmed /\ PlausibleRelativeToReceipt(t, now)
  BY Zenon DEF TimeAccepted
<1>4. t \in Today
  <2>1. CASE b.confirmed /\ Agrees(t, b.time)
    <3>1. b.time \in Today
      BY <2>1, Zenon DEF CurrentBuilder
    <3>2. Distance(t, b.time) <= MaxSkew
      BY <2>1, Zenon DEF Agrees
    <3>3. ~Far(t)
      BY <1>1, <3>1, <3>2 DEF Far, Distance
    <3> QED
      BY <1>2, <3>3
  <2>2. CASE PlausibleRelativeToReceipt(t, now)
    <3>1. ~Far(t)
      BY <1>1, <2>2 DEF Far, Distance, PlausibleRelativeToReceipt
    <3> QED
      BY <1>2, <3>1
  <2> QED
    BY <1>3, <2>1, <2>2
<1>5. ASSUME Agrees(t, b.time), ~b.confirmed
      PROVE  b.time \in Today
  <2>1. Seed(b.time)
    BY <1>5, Zenon DEF CurrentBuilder
  <2>2. b.time \in Today \/ Far(b.time)
    BY <2>1, Zenon DEF Seed, OddTicksAreForeign, OddOfToday
  <2>3. Distance(t, b.time) <= MaxSkew
    BY <1>5, Zenon DEF Agrees
  <2>4. ~Far(b.time)
    BY <1>1, <1>4, <2>3 DEF Far, Distance
  <2> QED
    BY <2>2, <2>4
<1>6. b.confirmed => b.time \in Today
  BY Zenon DEF CurrentBuilder
<1> QED
  BY <1>4, <1>5, <1>6, Zenon

\* The builder with its baseline confirmed.
LEMMA ConfirmedIsCurrent ==
  ASSUME OddTicksAreForeign, now \in Today, NEW b \in Builder, NEW tick \in Tick, Known(tick),
         CurrentBuilder(b), b.time # None, TimeAccepted(b, tick.time, now)
  PROVE  /\ CurrentBuilder(Confirmed(b, tick.time))
         /\ Confirmed(b, tick.time).confirmed /\ Confirmed(b, tick.time).time # None
<1> DEFINE t == tick.time
           c == Confirmed(b, t)
<1>1. t \in Nat /\ t \in Today /\ t # None /\ (Agrees(t, b.time) => b.time \in Today)
  BY AcceptedIsOfToday, TradeIsATick
<1>2. CASE b.confirmed
  BY <1>1, <1>2, ConfirmedCases, Zenon
<1>3. CASE ~b.confirmed /\ Agrees(t, b.time)
  <2>1. c.time = b.time /\ c.bucket = b.bucket /\ c.confirmed
    BY <1>1, <1>3, ConfirmedCases, Zenon
  <2>2. b.bucket.start = BucketStart(b.time) /\ Seed(b.time) /\ b.time \in Today
    BY <1>1, <1>3, Zenon DEF CurrentBuilder
  <2> QED
    BY <2>1, <2>2, Zenon DEF CurrentBuilder
<1>4. CASE ~b.confirmed /\ ~Agrees(t, b.time)
  <2>1. c.time = t /\ c.bucket = NoBucket /\ c.confirmed
    BY <1>1, <1>4, ConfirmedCases, Zenon
  <2>2. c.bucket.start = None
    BY <2>1, NewTypes, Zenon
  <2> QED
    BY <1>1, <2>1, <2>2, Zenon DEF CurrentBuilder
<1> QED
  BY <1>2, <1>3, <1>4

\* The bucket a tick completes is of the day, and its time has come.
LEMMA CompletedIsCurrent ==
  ASSUME NoTwoAhead, now \in Today, NEW c \in Builder, NEW tick \in Tick, Known(tick),
         tick.time \in Today, CurrentBuilder(c), c.confirmed, Completes(c, tick.time)
  PROVE  c.bucket.start \in BucketStart(Open) .. now
<1> DEFINE t == tick.time
<1>1. PICK u \in Today : c.bucket.start = BucketStart(u) /\ Seed(u)
  BY Zenon DEF CurrentBuilder, Completes
<1>2. BucketStart(u) < BucketStart(t)
  BY <1>1 DEF Completes
<1>3. /\ u \in Nat /\ t \in Nat /\ now \in Nat /\ Open \in Nat /\ Open <= u
  BY <1>1, LiveDataAssumption, CandleAssumption DEF Today
<1>4. /\ BucketStart(Open) \in Nat /\ BucketStart(u) \in Nat /\ BucketStart(t) \in Nat
      /\ BucketStart(Open) <= BucketStart(u) /\ BucketStart(u) <= u /\ BucketStart(t) <= t
  BY <1>3, BucketStarts
<1>5. BucketStart(u) <= now
  <2>1. CASE u <= now
    BY <1>3, <1>4, <2>1
  <2>2. CASE \E o \in OddTick : o.price > 0 /\ o.time = u
    <3>1. tick \notin OddTick
      <4> SUFFICES ASSUME tick \in OddTick
                   PROVE  FALSE
        OBVIOUS
      <4>1. PICK o \in OddOfToday : o.price > 0 /\ o.time = u
        BY <2>2 DEF OddOfToday
      <4>2. tick \in OddOfToday
        BY DEF OddOfToday
      <4>3. BucketStart(t) <= BucketStart(u)
        BY <4>1, <4>2 DEF NoTwoAhead
      <4> QED
        BY <1>2, <1>4, <4>3
    <3>2. t <= now
      BY <3>1, TradeIsATick DEF Known
    <3> QED
      BY <1>2, <1>3, <1>4, <3>2
  <2> QED
    BY <1>1, <2>1, <2>2, Zenon DEF Seed
<1> QED
  BY <1>1, <1>3, <1>4, <1>5

LEMMA TickKeepsCurrent ==
  ASSUME OddTicksAreForeign, now \in Today, NEW b \in Builder, NEW tick \in Tick,
         Known(tick), tick.time # None, b.time = None => b = NewBuilder, CurrentBuilder(b),
         NEW after \in Builder, NEW bar \in Bucket, Handled(b, tick, now, after, bar)
  PROVE  /\ CurrentBuilder(after)
         /\ NoTwoAhead /\ bar # NoBucket => bar.start \in BucketStart(Open) .. now
<1> DEFINE t == tick.time
           c == Confirmed(b, t)
<1>1. t \in Nat /\ t # None
  BY DEF Tick
<1>2. c \in Builder
  BY <1>1, ConfirmedCases
<1>3. CASE TickRejected(b, tick, now, after, bar)
  <2>1. after = Disagreed(b, t) /\ bar = NoBucket
    BY <1>3, Zenon DEF TickRejected
  <2>2. /\ Disagreed(b, t).time = b.time /\ Disagreed(b, t).bucket = b.bucket
        /\ Disagreed(b, t).confirmed = b.confirmed
    BY <1>1, DisagreedCases
  <2> QED
    BY <2>1, <2>2, Zenon DEF CurrentBuilder
<1>4. CASE ~TickRejected(b, tick, now, after, bar)
  <2>1. TimeAccepted(b, t, now)
    BY <1>4, Zenon DEF Handled, TickLate, TickUnpriced, TickMerged
  <2>2. \/ b.time = None /\ c = NewBuilder
        \/ b.time # None /\ CurrentBuilder(c) /\ c.confirmed /\ c.time # None /\ t \in Today
    <3>1. CASE b.time = None
      BY <1>1, <3>1, ConfirmedCases, Zenon
    <3>2. CASE b.time # None
      BY <2>1, <3>2, ConfirmedIsCurrent, AcceptedIsOfToday
    <3> QED
      BY <3>1, <3>2
  <2>3. CurrentBuilder(c)
    BY <2>2, NewTypes, Zenon DEF CurrentBuilder
  <2>4. NoTwoAhead /\ Completes(c, t) => c.bucket.start \in BucketStart(Open) .. now
    <3>1. ASSUME c = NewBuilder
          PROVE  ~Completes(c, t)
      BY <3>1, NewTypes, Zenon DEF Completes
    <3> QED
      BY <1>2, <2>2, <3>1, CompletedIsCurrent
  <2>5. CASE TickLate(b, tick, now, after, bar)
    <3>1. after = c /\ bar = NoBucket
      BY <2>5, Zenon DEF TickLate
    <3> QED
      BY <2>3, <3>1, Zenon
  <2>6. CASE TickUnpriced(b, tick, now, after, bar)
    <3>1. after = Rolled(c, t) /\ bar = IF Completes(c, t) THEN c.bucket ELSE NoBucket
      BY <2>6, Zenon DEF TickUnpriced
    <3>2. CASE Completes(c, t)
      <4>1. c.confirmed
        BY <2>2, <3>2, NewTypes, Zenon DEF Completes
      <4>2. after.time = c.time /\ after.confirmed = c.confirmed /\ after.bucket = NoBucket
        BY <1>1, <1>2, <3>1, <3>2, RolledCases, Zenon
      <4> QED
        BY <2>3, <2>4, <3>1, <3>2, <4>1, <4>2, NewTypes, Zenon DEF CurrentBuilder
    <3>3. CASE ~Completes(c, t)
      <4>1. after = c /\ bar = NoBucket
        BY <3>1, <3>3, Zenon DEF Rolled
      <4> QED
        BY <2>3, <4>1, Zenon
    <3> QED
      BY <3>2, <3>3
  <2>7. CASE TickMerged(b, tick, now, after, bar)
    <3> DEFINE k == Rolled(c, t).bucket
    <3>1. /\ PriceIsValid(c, tick) /\ after.bucket = Merged(k, tick)
          /\ after.time = t /\ after.confirmed = c.confirmed
          /\ bar = IF Completes(c, t) THEN c.bucket ELSE NoBucket
      BY <2>7, Zenon DEF TickMerged
    <3>2. k \in Bucket
      BY <1>1, <1>2, RolledCases DEF Builder
    <3>3. tick.price > 0 /\ tick.volume >= 0
      BY <3>1, Zenon DEF PriceIsValid
    <3>4. Merged(k, tick).start = BucketStart(t)
      BY <3>2, <3>3, MergedFields
    <3>5. Seed(t)
      <4>1. CASE tick \in OddTick
        BY <3>3, <4>1, Zenon DEF Seed
      <4>2. CASE \E u \in Today : u <= now /\ tick = Trade(u)
        BY <4>2, TradeIsATick DEF Seed
      <4> QED
        BY <4>1, <4>2, Zenon DEF Known
    <3>6. after.bucket.start = BucketStart(t)
      BY <3>1, <3>4, Zenon
    <3>7. after.confirmed => t \in Today
      BY <2>2, <3>1, NewTypes, Zenon
    <3>8. CurrentBuilder(after)
      BY <3>1, <3>5, <3>6, <3>7, Zenon DEF CurrentBuilder
    <3> QED
      BY <2>4, <3>1, <3>8, Zenon
  <2> QED
    BY <1>4, <2>5, <2>6, <2>7, Zenon DEF Handled
<1> QED
  BY <1>3, <1>4

LEMMA TailItems ==
  ASSUME NEW q \in Seq(Bar), q # <<>>, NEW i \in DOMAIN Tail(q)
  PROVE  \E j \in DOMAIN q : q[j] = Tail(q)[i]
<1>1. i \in Nat /\ i + 1 \in DOMAIN q /\ Tail(q)[i] = q[i + 1]
  OBVIOUS
<1> QED
  BY <1>1

LEMMA AppendItems ==
  ASSUME NEW q \in Seq(Bar), NEW bar \in Bar, NEW i \in DOMAIN Append(q, bar)
  PROVE  Append(q, bar)[i] = bar \/ \E j \in DOMAIN q : q[j] = Append(q, bar)[i]
<1> DEFINE a == Append(q, bar)
<1>1. /\ a \in Seq(Bar) /\ Len(a) = Len(q) + 1
      /\ \A j \in 1 .. Len(q) : a[j] = q[j]
      /\ a[Len(q) + 1] = bar
  BY AppendProperties
<1>2. DOMAIN a = 1 .. Len(a) /\ DOMAIN q = 1 .. Len(q) /\ Len(q) \in Nat
  BY <1>1
<1> HIDE DEF a
<1>3. i \in 1 .. Len(q) \/ i = Len(q) + 1
  BY <1>1, <1>2 DEF a
<1>4. a[i] = bar \/ \E j \in DOMAIN q : q[j] = a[i]
  BY <1>1, <1>2, <1>3
<1> QED
  BY <1>4 DEF a

\* A bar gets into flight only by completing.
LEMMA NothingNewInFlight ==
  ASSUME LiveInv, NEW bar \in Bar, InFlight(bar)',
         \/ Advance \/ Reconnect \/ Restart
         \/ \E r \in Receiver : Deliver(r) \/ Redeliver(r) \/ DeliverOdd(r)
         \/ \E r \in Receiver : PutNowait(r) \/ DropOldest(r) \/ PutAgain(r)
         \/ \E halted \in BOOLEAN : ProcessNext(halted)
         \/ UNCHANGED vars
  PROVE  InFlight(bar)
<1>1. LiveTypes /\ queue \in Seq(Bar) /\ recv \in [Receiver -> Receiving]
  BY DEF LiveInv, LiveTypes
<1>2. CASE Advance \/ Reconnect \/ UNCHANGED vars
  <2>1. UNCHANGED <<queue, recv>>
    BY <1>2, Zenon DEF Advance, Reconnect, vars
  <2> QED
    BY <2>1 DEF InFlight, Busy
<1>3. CASE Restart
  <2>1. queue' = <<>> /\ recv' = [r \in Receiver |-> Idle]
    BY <1>3, Zenon DEF Restart
  <2> QED
    BY <2>1, IdleType DEF InFlight, Busy
<1>4. CASE \E r \in Receiver : Deliver(r) \/ Redeliver(r) \/ DeliverOdd(r)
  <2>1. PICK r \in Receiver : Deliver(r) \/ Redeliver(r) \/ DeliverOdd(r)
    BY <1>4
  <2>2. /\ \A s \in Receiver \ {r} : recv'[s] = recv[s]
        /\ recv'[r].pc = "packet" /\ queue' = queue
    BY <2>1, ReceivingSteps
  <2> QED
    BY <2>2 DEF InFlight, Busy
<1>5. CASE \E r \in Receiver : PutNowait(r) \/ DropOldest(r) \/ PutAgain(r)
  <2>1. PICK r \in Receiver : PutNowait(r) \/ DropOldest(r) \/ PutAgain(r)
    BY <1>5
  <2>2. /\ Busy(r)
        /\ queue' = queue \/ (queue # <<>> /\ queue' = Tail(queue))
             \/ queue' = Append(queue, recv[r].bar)
        /\ \/ recv' = [recv EXCEPT ![r] = Idle]
           \/ recv' = [recv EXCEPT ![r].pc = "drop"]
           \/ recv' = [recv EXCEPT ![r].pc = "put_again"]
    BY <2>1, Zenon DEF PutNowait, DropOldest, PutAgain, Busy
  <2>3. recv[r].bar \in Bar
    BY <1>1, ReceivingFields
  <2>4. \A s \in Receiver : Busy(s)' => Busy(s) /\ recv'[s].bar = recv[s].bar
    BY <1>1, <2>2, IdleType DEF Busy, Receiving
  <2>5. ASSUME NEW i \in DOMAIN queue', queue'[i] = bar
        PROVE  InFlight(bar)
    <3>1. \/ \E j \in DOMAIN queue : queue[j] = bar
          \/ bar = recv[r].bar
      <4>1. CASE queue' = queue
        BY <2>5, <4>1
      <4>2. CASE queue # <<>> /\ queue' = Tail(queue)
        BY <1>1, <2>5, <4>2, TailItems
      <4>3. CASE queue' = Append(queue, recv[r].bar)
        <5>1. i \in DOMAIN Append(queue, recv[r].bar) /\ Append(queue, recv[r].bar)[i] = bar
          BY <2>5, <4>3
        <5> QED
          BY <1>1, <2>3, <5>1, AppendItems
      <4> QED
        BY <2>2, <4>1, <4>2, <4>3
    <3> QED
      BY <2>2, <3>1, Zenon DEF InFlight
  <2>6. \/ \E i \in DOMAIN queue' : queue'[i] = bar
        \/ \E s \in Receiver : Busy(s)' /\ recv'[s].bar = bar
    BY Zenon DEF InFlight
  <2> QED
    BY <2>4, <2>5, <2>6, Zenon DEF InFlight
<1>6. CASE \E halted \in BOOLEAN : ProcessNext(halted)
  <2>1. queue # <<>> /\ queue' = Tail(queue) /\ recv' = recv
    BY <1>6, Zenon DEF ProcessNext
  <2>2. ASSUME NEW i \in DOMAIN queue', queue'[i] = bar
        PROVE  InFlight(bar)
    BY <1>1, <2>1, <2>2, TailItems DEF InFlight
  <2> QED
    BY <2>1, <2>2 DEF InFlight, Busy
<1> QED
  BY <1>2, <1>3, <1>4, <1>5, <1>6

\* What was current stays so while time passes.
LEMMA TimePasses ==
  ASSUME now \in Nat, now' \in Nat, now <= now'
  PROVE  /\ \A b : CurrentBuilder(b) => CurrentBuilder(b)'
         /\ \A bar \in Bar : CurrentBar(bar) => CurrentBar(bar)'
<1>1. \A t \in Today : t \in Nat
  BY TradeIsATick
<1>2. ASSUME NEW u, Seed(u)
      PROVE  Seed(u)'
  BY <1>1, <1>2 DEF Seed
<1>3. ASSUME NEW b, CurrentBuilder(b)
      PROVE  CurrentBuilder(b)'
  BY <1>2, <1>3, Zenon DEF CurrentBuilder
<1>4. ASSUME NEW bar \in Bar, CurrentBar(bar)
      PROVE  CurrentBar(bar)'
  <2>1. BucketStart(Open) \in Nat /\ bar.start \in Nat
    BY BucketStarts, LiveDataAssumption, CandleAssumption DEF Bar
  <2> QED
    BY <1>4, <2>1 DEF CurrentBar
<1> QED
  BY <1>3, <1>4

LEMMA CurrentStep ==
  ASSUME OddTicksAreForeign, CurrentInv, [Next]_vars
  PROVE  CurrentInv'
<1>1. LiveInv /\ LiveTypes /\ LiveInv' /\ now \in Today /\ now \in Nat
  BY LiveStep, TradeIsATick DEF CurrentInv, LiveInv, LiveTypes
<1>2. /\ KnownTicks /\ CurrentBuilder(builder)
      /\ NoTwoAhead => \A bar \in Bar : InFlight(bar) => CurrentBar(bar)
  BY Zenon DEF CurrentInv, Current
<1>3. CASE \/ Advance \/ Reconnect
           \/ \E r \in Receiver : PutNowait(r) \/ DropOldest(r) \/ PutAgain(r)
           \/ \E halted \in BOOLEAN : ProcessNext(halted)
           \/ UNCHANGED vars
  <2>1. Quiet
    BY <1>1, <1>3, QuietSteps
  <2>2. /\ builder' = builder /\ last' = last /\ now' \in Nat /\ now <= now'
        /\ \A r \in Receiver :
             recv'[r].pc = "packet" => recv[r].pc = "packet" /\ recv'[r].tick = recv[r].tick
    BY <2>1 DEF Quiet
  <2>3. /\ \A b : CurrentBuilder(b) => CurrentBuilder(b)'
        /\ \A bar \in Bar : CurrentBar(bar) => CurrentBar(bar)'
    BY <1>1, <2>2, TimePasses
  <2>4. \A t \in Today : t \in Nat
    BY TradeIsATick
  <2>5. KnownTicks'
    BY <1>1, <1>2, <2>2, <2>4 DEF KnownTicks, Known
  <2>6. CurrentBuilder(builder)'
    BY <1>2, <2>2, <2>3, Zenon
  <2>7. ASSUME NoTwoAhead, NEW bar \in Bar, InFlight(bar)'
        PROVE  CurrentBar(bar)'
    <3>1. InFlight(bar)
      BY <1>1, <1>3, <2>7, NothingNewInFlight
    <3> QED
      BY <1>2, <2>3, <2>7, <3>1, Zenon
  <2> QED
    BY <1>1, <2>5, <2>6, <2>7, Zenon DEF CurrentInv, Current
<1>4. CASE Restart
  <2>1. /\ recv' = [r \in Receiver |-> Idle] /\ builder' = NewBuilder
        /\ UNCHANGED <<now, last>>
    BY <1>4, Zenon DEF Restart
  <2>2. KnownTicks'
    BY <1>2, <2>1, IdleType DEF KnownTicks, Known
  <2>3. CurrentBuilder(builder)'
    BY <2>1, NewTypes, Zenon DEF CurrentBuilder
  <2>4. ASSUME NoTwoAhead, NEW bar \in Bar, InFlight(bar)'
        PROVE  CurrentBar(bar)'
    BY <1>1, <1>2, <1>4, <2>1, <2>4, NothingNewInFlight DEF CurrentBar
  <2> QED
    BY <1>1, <2>2, <2>3, <2>4, Zenon DEF CurrentInv, Current
<1>5. CASE \E r \in Receiver : Deliver(r) \/ Redeliver(r) \/ DeliverOdd(r)
  <2>1. PICK r \in Receiver : Deliver(r) \/ Redeliver(r) \/ DeliverOdd(r)
    BY <1>5
  <2>2. /\ \E tick \in Tick :
             /\ Brings(tick) /\ last' = tick
             /\ \A s \in Receiver \ {r} : recv'[s] = recv[s]
             /\ recv'[r].pc = "packet" /\ recv'[r].tick = tick
        /\ UNCHANGED <<now, connected, builder, queue, trades, overlapped, emitted>>
    BY <1>1, <2>1, ReceivingSteps
  <2>3. PICK tick \in Tick :
             /\ Brings(tick) /\ last' = tick
             /\ \A s \in Receiver \ {r} : recv'[s] = recv[s]
             /\ recv'[r].pc = "packet" /\ recv'[r].tick = tick
    BY <2>2
  <2>4. Known(tick)
    BY <1>2, <2>3, Zenon DEF Brings, Known, KnownTicks
  <2>5. KnownTicks'
    BY <1>2, <2>2, <2>3, <2>4 DEF KnownTicks, Known
  <2>6. CurrentBuilder(builder)'
    BY <1>2, <2>2 DEF CurrentBuilder, Seed
  <2>7. ASSUME NoTwoAhead, NEW bar \in Bar, InFlight(bar)'
        PROVE  CurrentBar(bar)'
    BY <1>1, <1>2, <1>5, <2>2, <2>7, NothingNewInFlight DEF CurrentBar
  <2> QED
    BY <1>1, <2>5, <2>6, <2>7, Zenon DEF CurrentInv, Current
<1>6. CASE \E r \in Receiver : HandlePacket(r)
  <2>1. PICK r \in Receiver : HandlePacket(r)
    BY <1>6
  <2> DEFINE tick == recv[r].tick
  <2>2. /\ recv[r].pc = "packet" /\ tick \in Tick
        /\ builder' \in Builder /\ UNCHANGED <<now, last, queue>>
    BY <1>1, <2>1, HandlePacketEffect DEF wire
  <2>3. PICK k \in Bucket :
          /\ Handled(builder, tick, now, builder', k)
          /\ k = NoBucket => recv' = [recv EXCEPT ![r] = Idle] /\ emitted' = emitted
          /\ k # NoBucket =>
               /\ emitted' = Append(emitted, k.start)
               /\ recv' = [recv EXCEPT ![r] = Holding(k, Len(emitted) + 1)]
    BY <1>1, <2>1, HandlePacketEffect
  <2>4. Known(tick) /\ tick.time # None
    <3>1. Known(tick)
      BY <1>2, <2>2, Zenon DEF KnownTicks
    <3>2. tick.time # None
      BY <1>1, <2>2, CandleAssumption DEF LiveInv, BaselineKnown, Tick, None
    <3> QED
      BY <3>1, <3>2
  <2>5. /\ CurrentBuilder(builder')
        /\ NoTwoAhead /\ k # NoBucket => k.start \in BucketStart(Open) .. now
    <3>1. builder \in Builder /\ (builder.time = None => builder = NewBuilder)
      BY <1>1 DEF LiveInv, LiveTypes, BaselineKnown
    <3> QED
      BY <1>1, <1>2, <2>2, <2>3, <2>4, <3>1, TickKeepsCurrent
  <2>6. \E p \in Receiving :
          /\ recv' = [recv EXCEPT ![r] = p] /\ p.pc # "packet"
          /\ p.pc = "idle" \/ (k # NoBucket /\ p.bar.start = k.start)
    BY <1>1, <2>3, IdleType, HoldingFields DEF LiveTypes
  <2>7. PICK p \in Receiving :
          /\ recv' = [recv EXCEPT ![r] = p] /\ p.pc # "packet"
          /\ p.pc = "idle" \/ (k # NoBucket /\ p.bar.start = k.start)
    BY <2>6
  <2>8. \A s \in Receiver : recv'[s] = IF s = r THEN p ELSE recv[s]
    BY <1>1, <2>7, OneReceiver
  <2>9. KnownTicks'
    BY <1>2, <2>2, <2>7, <2>8 DEF KnownTicks, Known
  <2>10. CurrentBuilder(builder)'
    BY <2>2, <2>5 DEF CurrentBuilder, Seed
  <2>11. ASSUME NoTwoAhead, NEW bar \in Bar, InFlight(bar)'
         PROVE  CurrentBar(bar)'
    <3>1. InFlight(bar) \/ (k # NoBucket /\ bar.start = k.start)
      BY <2>2, <2>7, <2>8, <2>11 DEF InFlight, Busy
    <3>2. CurrentBar(bar)
      BY <1>2, <2>5, <2>11, <3>1, Zenon DEF CurrentBar
    <3> QED
      BY <2>2, <3>2 DEF CurrentBar
  <2> QED
    BY <1>1, <2>9, <2>10, <2>11, Zenon DEF CurrentInv, Current
<1> QED
  BY <1>3, <1>4, <1>5, <1>6, Zenon DEF Next

LEMMA CurrentInitially == Init => CurrentInv
<1> SUFFICES ASSUME Init
             PROVE  CurrentInv
  OBVIOUS
<1>1. /\ recv = [r \in Receiver |-> Idle] /\ builder = NewBuilder /\ queue = <<>>
      /\ last = Idle.tick
  BY Zenon DEF Init
<1>2. KnownTicks
  BY <1>1, IdleType DEF KnownTicks
<1>3. CurrentBuilder(builder)
  BY <1>1, NewTypes, Zenon DEF CurrentBuilder
<1>4. \A bar \in Bar : ~InFlight(bar)
  BY <1>1, IdleType DEF InFlight, Busy
<1> QED
  BY <1>2, <1>3, <1>4, LiveInitially DEF CurrentInv, Current

\* No bar is of another day, or of a time that has not come: not when a
\* snapshot of another day is the first tick (the cold start), nor when it
\* comes twice, nor when a receive thread outlives its connection.  Supposed is
\* what the skews can tell apart: an odd tick is far from the day or has a time
\* of it, and of the latter no two follow each other into later buckets.
THEOREM BarsAreOfToday ==
  ASSUME OddTicksAreForeign, NoTwoAhead
  PROVE  Spec => []BarsAreCurrent
<1>1. Init => CurrentInv
  BY CurrentInitially
<1>2. CurrentInv /\ [Next]_vars => CurrentInv'
  BY CurrentStep
<1>3. CurrentInv => BarsAreCurrent
  <2> SUFFICES ASSUME CurrentInv, NEW i \in DOMAIN queue
               PROVE  queue[i].start \in BucketStart(Open) .. now
    BY Zenon DEF BarsAreCurrent
  <2>1. queue[i] \in Bar
    BY DEF CurrentInv, LiveInv, LiveTypes
  <2>2. InFlight(queue[i])
    BY Zenon DEF InFlight
  <2> QED
    BY <2>1, <2>2, Zenon DEF CurrentInv, Current, CurrentBar
<1> QED
  BY <1>1, <1>2, <1>3, PTL DEF Spec

-----------------------------------------------------------------------------
(* The prices of a bar *)

IsMerged(k, u) == k.mergedTime = u.time /\ k.mergedPrice = u.price

\* What a bucket says of the ticks in it.
PricedBy(k, ts) ==
  /\ k.start = None => ts = {} /\ k.mergedTime = None
  /\ \A u \in ts : BucketStart(u.time) = k.start
  /\ k.start # None =>
       /\ \E u \in ts : k.high = u.price
       /\ \E u \in ts : k.low = u.price
       /\ \E u \in ts : k.open = u.price
       /\ \A u \in ts : k.low <= u.price /\ u.price <= k.high
       /\ \E u \in ts :
            k.close = u.price /\ k.latest = u.time /\ \A v \in ts : v.time <= u.time
       /\ \E u \in ts : IsMerged(k, u)

LEMMA NothingIsPriced == PricedBy(NoBucket, {})
BY DEF PricedBy, NoBucket, None

\* The fields of a bucket that was seeded with a tick, or had one merged in.
LEMMA MergedPrices ==
  ASSUME NEW k \in Bucket, NEW tick \in Tick
  PROVE  /\ Merged(k, tick).start = BucketStart(tick.time)
         /\ IsMerged(Merged(k, tick), tick)
         /\ Merged(k, tick).volume = k.volume + IF IsRedelivered(k, tick) THEN 0 ELSE tick.volume
         /\ k.start = None =>
              /\ Merged(k, tick).high = tick.price /\ Merged(k, tick).low = tick.price
              /\ Merged(k, tick).open = tick.price /\ Merged(k, tick).close = tick.price
              /\ Merged(k, tick).latest = tick.time
         /\ k.start # None =>
              /\ Merged(k, tick).open = k.open
              /\ Merged(k, tick).high = IF tick.price > k.high THEN tick.price ELSE k.high
              /\ Merged(k, tick).low = IF tick.price < k.low THEN tick.price ELSE k.low
              /\ Merged(k, tick).close = IF tick.time >= k.latest THEN tick.price ELSE k.close
              /\ Merged(k, tick).latest = IF tick.time >= k.latest THEN tick.time ELSE k.latest
<1> DEFINE seeded == k.start = None
           advances == seeded \/ tick.time >= k.latest
           open == IF seeded THEN tick.price ELSE k.open
           high == IF seeded \/ tick.price > k.high THEN tick.price ELSE k.high
           low == IF seeded \/ tick.price < k.low THEN tick.price ELSE k.low
           close == IF advances THEN tick.price ELSE k.close
           volume == k.volume + IF IsRedelivered(k, tick) THEN 0 ELSE tick.volume
           latest == IF advances THEN tick.time ELSE k.latest
<1>1. Merged(k, tick) =
        [start |-> BucketStart(tick.time), open |-> open, high |-> high, low |-> low,
         close |-> close, volume |-> volume, latest |-> latest,
         mergedTime |-> tick.time, mergedPrice |-> tick.price]
  BY Zenon DEF Merged
<1> HIDE DEF open, high, low, close, volume, latest
<1>2. /\ Merged(k, tick).start = BucketStart(tick.time)
      /\ Merged(k, tick).mergedTime = tick.time
      /\ Merged(k, tick).mergedPrice = tick.price
      /\ Merged(k, tick).volume = volume /\ Merged(k, tick).open = open
      /\ Merged(k, tick).high = high /\ Merged(k, tick).low = low
      /\ Merged(k, tick).close = close /\ Merged(k, tick).latest = latest
  BY <1>1
<1> QED
  BY <1>2, Zenon DEF IsMerged, open, high, low, close, volume, latest, seeded, advances

LEMMA MergedIsPriced ==
  ASSUME NEW k \in Bucket, NEW tick \in Tick, NEW ts \in SUBSET Tick, PricedBy(k, ts),
         BucketStart(tick.time) # None,
         k.start # None => k.start = BucketStart(tick.time)
  PROVE  PricedBy(Merged(k, tick), ts \cup {tick})
<1> DEFINE m == Merged(k, tick)
           all == ts \cup {tick}
<1>1. /\ m.start = BucketStart(tick.time) /\ m.start # None /\ IsMerged(m, tick)
      /\ k.start = None =>
           /\ m.high = tick.price /\ m.low = tick.price
           /\ m.open = tick.price /\ m.close = tick.price /\ m.latest = tick.time
      /\ k.start # None =>
           /\ m.open = k.open
           /\ m.high = IF tick.price > k.high THEN tick.price ELSE k.high
           /\ m.low = IF tick.price < k.low THEN tick.price ELSE k.low
           /\ m.close = IF tick.time >= k.latest THEN tick.price ELSE k.close
           /\ m.latest = IF tick.time >= k.latest THEN tick.time ELSE k.latest
  BY MergedPrices
<1>2. /\ tick.price \in Int /\ tick.time \in Nat
      /\ \A u \in ts : u.price \in Int /\ u.time \in Nat
  BY DEF Tick
<1>3. k.high \in Int /\ k.low \in Int /\ k.latest \in Int
  BY DEF Bucket
<1> HIDE DEF m
<1>4. \A u \in all : BucketStart(u.time) = m.start
  BY <1>1, Zenon DEF PricedBy
<1>5. \E u \in all : IsMerged(m, u)
  BY <1>1, Zenon
<1>6. ASSUME k.start = None
      PROVE  PricedBy(m, all)
  <2>1. ts = {}
    BY <1>6, Zenon DEF PricedBy
  <2>2. \A u \in all : u = tick
    BY <2>1
  <2>3. \A u \in all : m.low <= u.price /\ u.price <= m.high
    BY <1>1, <1>2, <1>6, <2>2
  <2>4. \E u \in all : m.close = u.price /\ m.latest = u.time /\ \A v \in all : v.time <= u.time
    BY <1>1, <1>2, <1>6, <2>2
  <2> QED
    BY <1>1, <1>4, <1>5, <1>6, <2>3, <2>4, Zenon DEF PricedBy
<1>7. ASSUME k.start # None
      PROVE  PricedBy(m, all)
  <2>1. /\ \E u \in ts : k.high = u.price
        /\ \E u \in ts : k.low = u.price
        /\ \E u \in ts : k.open = u.price
        /\ \A u \in ts : k.low <= u.price /\ u.price <= k.high
        /\ \E u \in ts : k.close = u.price /\ k.latest = u.time /\ \A v \in ts : v.time <= u.time
    BY <1>7, Zenon DEF PricedBy
  <2>2. /\ \E u \in all : m.high = u.price
        /\ \E u \in all : m.low = u.price
        /\ \E u \in all : m.open = u.price
    BY <1>1, <1>7, <2>1, Zenon
  <2>3. \A u \in all : m.low <= u.price /\ u.price <= m.high
    BY <1>1, <1>2, <1>3, <1>7, <2>1
  <2>4. \E u \in all : m.close = u.price /\ m.latest = u.time /\ \A v \in all : v.time <= u.time
    <3>1. PICK u \in ts : k.close = u.price /\ k.latest = u.time /\ \A v \in ts : v.time <= u.time
      BY <2>1
    <3>2. CASE tick.time >= k.latest
      <4>1. \A v \in all : v.time <= tick.time
        BY <1>2, <1>3, <3>1, <3>2
      <4>2. m.close = tick.price /\ m.latest = tick.time
        BY <1>1, <1>7, <3>2
      <4> QED
        BY <4>1, <4>2
    <3>3. CASE ~(tick.time >= k.latest)
      <4>1. \A v \in all : v.time <= u.time
        BY <1>2, <1>3, <3>1, <3>3
      <4>2. m.close = u.price /\ m.latest = u.time
        BY <1>1, <1>7, <3>1, <3>3
      <4> QED
        BY <4>1, <4>2
    <3> QED
      BY <3>2, <3>3
  <2> QED
    BY <1>1, <1>4, <1>5, <2>2, <2>3, <2>4, Zenon DEF PricedBy
<1> QED
  BY <1>6, <1>7 DEF m

\* A tick like the one merged last says nothing new.
LEMMA RepeatIsPriced ==
  ASSUME NEW k \in Bucket, NEW tick \in Tick, NEW ts \in SUBSET Tick, PricedBy(k, ts),
         tick.time # None, IsMerged(k, tick)
  PROVE  PricedBy(k, ts \cup {tick})
<1> DEFINE all == ts \cup {tick}
<1>1. k.start # None
  BY Zenon DEF PricedBy, IsMerged
<1>2. /\ \A u \in ts : BucketStart(u.time) = k.start
      /\ \E u \in ts : k.high = u.price
      /\ \E u \in ts : k.low = u.price
      /\ \E u \in ts : k.open = u.price
      /\ \A u \in ts : k.low <= u.price /\ u.price <= k.high
      /\ \E u \in ts : k.close = u.price /\ k.latest = u.time /\ \A v \in ts : v.time <= u.time
      /\ \E u \in ts : IsMerged(k, u)
  BY <1>1, Zenon DEF PricedBy
<1>3. PICK w \in ts : IsMerged(k, w)
  BY <1>2
<1>4. w.time = tick.time /\ w.price = tick.price
  BY <1>3, Zenon DEF IsMerged
<1>5. \A u \in all : BucketStart(u.time) = k.start
  BY <1>2, <1>4, Zenon
<1>6. \A u \in all : k.low <= u.price /\ u.price <= k.high
  BY <1>2, <1>4, Zenon
<1>7. \E u \in all : k.close = u.price /\ k.latest = u.time /\ \A v \in all : v.time <= u.time
  BY <1>2, <1>4, Zenon
<1> QED
  BY <1>1, <1>2, <1>5, <1>6, <1>7, Zenon DEF PricedBy

\* The bucket on_tick goes on with is left as it is, or the tick is merged.
LEMMA ContinuedCases ==
  ASSUME NEW b \in Builder, NEW tick \in Tick, now \in Nat, NEW after \in Builder,
         NEW bar \in Bucket, Handled(b, tick, now, after, bar),
         NEW k, k = Continued(b, tick)
  PROVE  /\ k \in Bucket /\ (k = b.bucket \/ k = NoBucket)
         /\ \/ after.bucket = k
            \/ /\ after.bucket = Merged(k, tick)
               /\ k.start # None => k.start = BucketStart(tick.time)
<1> DEFINE t == tick.time
           c == Confirmed(b, t)
<1>1. t \in Nat /\ BucketStart(t) \in Nat
  BY BucketStarts DEF Tick
<1>2. /\ c \in Builder /\ b.bucket \in Bucket /\ c.bucket \in Bucket
      /\ c.bucket = b.bucket \/ c.bucket = NoBucket
  <2>1. c \in Builder /\ (c.bucket = b.bucket \/ c.bucket = NoBucket)
    BY <1>1, ConfirmedCases, Zenon
  <2> HIDE DEF c
  <2> QED
    BY <2>1 DEF Builder
<1>3. CASE ~TimeAccepted(b, t, now)
  <2>1. k = b.bucket
    BY <1>3, Zenon DEF Continued
  <2>2. TickRejected(b, tick, now, after, bar)
    BY <1>3, Zenon DEF Handled, TickLate, TickUnpriced, TickMerged
  <2>3. after = Disagreed(b, t)
    BY <2>2, Zenon DEF TickRejected
  <2>4. Disagreed(b, t).bucket = b.bucket
    BY <1>1, DisagreedCases
  <2> QED
    BY <1>2, <2>1, <2>3, <2>4, Zenon
<1>4. CASE TimeAccepted(b, t, now)
  <2>1. k = Rolled(c, t).bucket
    BY <1>4, Zenon DEF Continued
  <2>2. /\ Completes(c, t) => k = NoBucket
        /\ ~Completes(c, t) => k = c.bucket
    BY <1>1, <1>2, <2>1, RolledCases, Zenon
  <2>3. k \in Bucket /\ (k = b.bucket \/ k = NoBucket)
    BY <1>2, <2>2, NewTypes, Zenon
  <2>4. CASE TickLate(b, tick, now, after, bar)
    <3>1. after = c /\ IsLate(c, t)
      BY <2>4, Zenon DEF TickLate
    <3>2. c.bucket.start \in Nat
      <4>1. c.bucket \in Bucket
        BY <1>2
      <4> HIDE DEF c
      <4> QED
        BY <4>1 DEF Bucket
    <3>3. ~Completes(c, t)
      BY <1>1, <3>1, <3>2 DEF IsLate, Completes
    <3> QED
      BY <2>2, <2>3, <3>1, <3>3, Zenon
  <2>5. CASE TickUnpriced(b, tick, now, after, bar)
    <3>1. after = Rolled(c, t)
      BY <2>5, Zenon DEF TickUnpriced
    <3> QED
      BY <2>1, <2>3, <3>1, Zenon
  <2>6. CASE TickMerged(b, tick, now, after, bar)
    <3>1. after.bucket = Merged(k, tick) /\ ~IsLate(c, t)
      BY <2>1, <2>6, Zenon DEF TickMerged
    <3>2. ASSUME k.start # None
          PROVE  k.start = BucketStart(t)
      <4>1. k = c.bucket /\ ~Completes(c, t)
        BY <2>2, <3>2, NewTypes, Zenon
      <4>2. k.start \in Nat
        BY <2>3 DEF Bucket
      <4>3. ~(BucketStart(t) < k.start) /\ ~(BucketStart(t) > k.start)
        BY <3>1, <3>2, <4>1, Zenon DEF IsLate, Completes
      <4> QED
        BY <1>1, <4>2, <4>3
    <3> QED
      BY <2>3, <3>1, <3>2, Zenon
  <2>7. ~TickRejected(b, tick, now, after, bar)
    BY <1>4, Zenon DEF TickRejected
  <2> QED
    BY <2>4, <2>5, <2>6, <2>7, Zenon DEF Handled
<1> QED
  BY <1>3, <1>4

\* The ticks that are kept are those of the bucket that is.
LEMMA KeptIsPriced ==
  ASSUME NEW b \in Builder, PricedBy(b.bucket, trades), NEW k \in Bucket,
         k = b.bucket \/ k = NoBucket
  PROVE  /\ PricedBy(k, {u \in trades : k.start # None})
         /\ {u \in trades : k.start # None} = IF k.start = None THEN {} ELSE trades
<1> DEFINE kept == {u \in trades : k.start # None}
<1>1. CASE k.start = None
  <2>1. kept = {}
    BY <1>1
  <2>2. PricedBy(k, {})
    BY <1>1, NothingIsPriced, Zenon DEF PricedBy
  <2> QED
    BY <1>1, <2>1, <2>2, Zenon
<1>2. CASE k.start # None
  <2>1. kept = trades /\ k = b.bucket
    BY <1>2, NewTypes
  <2> QED
    BY <1>2, <2>1, Zenon
<1> QED
  BY <1>1, <1>2

LEMMA TickKeepsPrices ==
  ASSUME NEW b \in Builder, NEW tick \in Tick, now \in Nat, BucketSeconds <= tick.time,
         NEW after \in Builder, NEW bar \in Bucket, Handled(b, tick, now, after, bar),
         trades \subseteq Tick, PricedBy(b.bucket, trades)
  PROVE  PricedBy(after.bucket, TradesOf(after.bucket, Continued(b, tick), tick))
<1> DEFINE k == Continued(b, tick)
           kept == {u \in trades : k.start # None}
           ts == TradesOf(after.bucket, k, tick)
<1>1. tick.time # None /\ BucketStart(tick.time) # None
  BY CandleAssumption, BucketStarts DEF Tick, None
<1>2. /\ k \in Bucket /\ (k = b.bucket \/ k = NoBucket)
      /\ \/ after.bucket = k
         \/ /\ after.bucket = Merged(k, tick)
            /\ k.start # None => k.start = BucketStart(tick.time)
  BY ContinuedCases
<1> HIDE DEF k
<1>3. PricedBy(k, kept)
  BY <1>2, KeptIsPriced
<1>4. kept \in SUBSET Tick
  OBVIOUS
<1>5. ts = kept \cup {u \in {tick} : IsMerged(after.bucket, u)}
  BY Zenon DEF TradesOf, IsMerged
<1> HIDE DEF kept
<1>6. ASSUME IsMerged(after.bucket, tick)
      PROVE  PricedBy(after.bucket, ts)
  <2>1. ts = kept \cup {tick}
    BY <1>5, <1>6
  <2>2. CASE after.bucket = k
    BY <1>1, <1>2, <1>3, <1>4, <1>6, <2>1, <2>2, RepeatIsPriced
  <2>3. CASE /\ after.bucket = Merged(k, tick)
             /\ k.start # None => k.start = BucketStart(tick.time)
    <3>1. PricedBy(Merged(k, tick), kept \cup {tick})
      BY <1>1, <1>2, <1>3, <1>4, <2>3, MergedIsPriced
    <3> QED
      BY <2>1, <2>3, <3>1, Zenon
  <2> QED
    BY <1>2, <2>2, <2>3
<1>7. ASSUME ~IsMerged(after.bucket, tick)
      PROVE  PricedBy(after.bucket, ts)
  <2>1. ts = kept
    BY <1>5, <1>7
  <2>2. after.bucket = k
    BY <1>2, <1>7, MergedPrices, Zenon
  <2> QED
    BY <1>3, <2>1, <2>2, Zenon
<1> QED
  BY <1>6, <1>7 DEF k

PricesInv == LiveInv /\ PricedBy(builder.bucket, trades)

LEMMA PricesStep == PricesInv /\ [Next]_vars => PricesInv'
<1> SUFFICES ASSUME PricesInv, [Next]_vars
             PROVE  PricesInv'
  OBVIOUS
<1>1. LiveInv /\ LiveTypes /\ LiveInv' /\ PricedBy(builder.bucket, trades)
  BY LiveStep DEF PricesInv, LiveInv
<1>2. CASE \/ Advance \/ Reconnect
           \/ \E r \in Receiver : PutNowait(r) \/ DropOldest(r) \/ PutAgain(r)
           \/ \E halted \in BOOLEAN : ProcessNext(halted)
           \/ UNCHANGED vars
  <2>1. builder' = builder /\ trades' = trades
    BY <1>1, <1>2, QuietSteps DEF Quiet
  <2> QED
    BY <1>1, <2>1 DEF PricesInv
<1>3. CASE Restart
  <2>1. builder' = NewBuilder /\ trades' = {}
    BY <1>3, Zenon DEF Restart
  <2>2. builder'.bucket = NoBucket
    BY <2>1, NewTypes
  <2> QED
    BY <1>1, <2>1, <2>2, NothingIsPriced, Zenon DEF PricesInv
<1>4. CASE \E r \in Receiver : Deliver(r) \/ Redeliver(r) \/ DeliverOdd(r)
  <2>1. builder' = builder /\ trades' = trades
    BY <1>1, <1>4, ReceivingSteps
  <2> QED
    BY <1>1, <2>1 DEF PricesInv
<1>5. CASE \E r \in Receiver : HandlePacket(r)
  <2>1. PICK r \in Receiver : HandlePacket(r)
    BY <1>5
  <2> DEFINE tick == recv[r].tick
  <2>2. /\ recv[r].pc = "packet" /\ tick \in Tick /\ now \in Nat /\ builder' \in Builder
        /\ trades' = TradesOf(builder'.bucket, Continued(builder, tick), tick)
        /\ \E bar \in Bucket : Handled(builder, tick, now, builder', bar)
    BY <1>1, <2>1, HandlePacketEffect
  <2>3. builder \in Builder /\ trades \subseteq Tick /\ BucketSeconds <= tick.time
    BY <1>1, <2>2 DEF LiveInv, LiveTypes, BaselineKnown
  <2>4. PricedBy(builder'.bucket, TradesOf(builder'.bucket, Continued(builder, tick), tick))
    BY <1>1, <2>2, <2>3, TickKeepsPrices
  <2> QED
    BY <1>1, <2>2, <2>4, Zenon DEF PricesInv
<1> QED
  BY <1>2, <1>3, <1>4, <1>5, Zenon DEF Next

LEMMA PricesInvariant == Spec => []PricesInv
<1>1. Init => PricesInv
  <2> SUFFICES ASSUME Init
               PROVE  PricesInv
    OBVIOUS
  <2>1. builder = NewBuilder /\ trades = {}
    BY Zenon DEF Init
  <2>2. builder.bucket = NoBucket
    BY <2>1, NewTypes
  <2> QED
    BY <2>1, <2>2, NothingIsPriced, LiveInitially, Zenon DEF PricesInv
<1> QED
  BY <1>1, PricesStep, PTL DEF Spec

LEMMA PricedIsOfTrades ==
  ASSUME LiveTypes, PricedBy(builder.bucket, trades)
  PROVE  PricesOfItsTrades
<1> DEFINE k == builder.bucket
           prices == {u.price : u \in trades}
<1> SUFFICES ASSUME k.start # None
             PROVE  /\ \A u \in trades : BucketStart(u.time) = k.start
                    /\ {k.high, k.low, k.open} \subseteq prices
                    /\ \A p \in prices : k.low <= p /\ p <= k.high
                    /\ \E u \in trades :
                         k.close = u.price /\ \A v \in trades : v.time <= u.time
  BY Zenon DEF PricesOfItsTrades
<1>1. /\ \A u \in trades : BucketStart(u.time) = k.start
      /\ \E u \in trades : k.high = u.price
      /\ \E u \in trades : k.low = u.price
      /\ \E u \in trades : k.open = u.price
      /\ \A u \in trades : k.low <= u.price /\ u.price <= k.high
      /\ \E u \in trades :
           k.close = u.price /\ k.latest = u.time /\ \A v \in trades : v.time <= u.time
  BY Zenon DEF PricedBy
<1>2. k.high \in prices /\ k.low \in prices /\ k.open \in prices
  BY <1>1
<1> QED
  BY <1>1, <1>2

\* The open, the extremes and the close of the open bar are those of the trades
\* merged into it (_merge): whatever the order they came in, the bad ticks
\* among them, and the receive threads that brought them.
THEOREM PricesAreOfItsTrades == Spec => []PricesOfItsTrades
<1>1. PricesInv => PricesOfItsTrades
  BY PricedIsOfTrades DEF PricesInv, LiveInv
<1> QED
  BY <1>1, PricesInvariant, PTL

-----------------------------------------------------------------------------
(* The volume of a bar *)

\* The ticks there can be.
AllTicks == {Trade(t) : t \in Today} \cup OddTick

\* What a builder says of the ticks in its bucket: before the baseline is
\* confirmed there is one, then they are of today, the last one merged has the
\* last price, and a corrupt one is alone.
CountedBy(b, ts) ==
  /\ \A u \in ts : u.volume = 1 /\ u.price > 0
  /\ ~b.confirmed => \A u, v \in ts : u = v /\ u.time = b.time
  /\ b.confirmed => \A u \in ts : u.time \in Today
  /\ ts # {} => \E u \in ts : IsMerged(b.bucket, u) /\ u.price = b.price
  /\ \A u, v \in ts : u \in OddOfToday => u = v

\* The volume is the number of ticks, and the tick at hand is not one of them
\* or was the last.
CountOf(k, ts, tick) ==
  (tick \in ts => IsMerged(k, tick)) /\ k.volume = Cardinality(ts)

LEMMA SameTick ==
  ASSUME NEW u \in Tick, NEW v \in Tick,
         u.time = v.time, u.price = v.price, u.volume = v.volume
  PROVE  u = v
BY DEF Tick

LEMMA AllAreUnits ==
  ASSUME OddTicksAreUnits, NEW tick \in AllTicks
  PROVE  tick.volume = 1 /\ tick \in Tick /\ (tick.time \in Today => tick \in DayTicks)
<1>1. CASE tick \in OddTick
  <2>1. tick.volume = 1 /\ tick \in Tick
    BY <1>1, LiveDataAssumption, Zenon DEF OddTicksAreUnits
  <2>2. tick.time \in Today => tick \in OddOfToday
    BY <1>1 DEF OddOfToday
  <2> QED
    BY <2>1, <2>2 DEF DayTicks
<1>2. CASE \E t \in Today : tick = Trade(t)
  BY <1>2, TradeIsATick DEF DayTicks
<1> QED
  BY <1>1, <1>2 DEF AllTicks

\* A tick that looks like the one merged last is that one.
LEMMA RepeatIsCounted ==
  ASSUME OddTicksAreUnits, NEW tick \in AllTicks, tick.time # None, NEW k \in Bucket,
         NEW ts \in SUBSET Tick, PricedBy(k, ts), \A u \in ts : u.volume = 1, IsMerged(k, tick)
  PROVE  tick \in ts
<1>1. k.start # None
  BY Zenon DEF PricedBy, IsMerged
<1>2. PICK u \in ts : IsMerged(k, u)
  BY <1>1, Zenon DEF PricedBy
<1>3. u.time = tick.time /\ u.price = tick.price
  BY <1>2, Zenon DEF IsMerged
<1>4. u.volume = 1 /\ tick.volume = 1 /\ tick \in Tick /\ u \in Tick
  BY AllAreUnits
<1>5. u.volume = tick.volume
  BY <1>4
<1>6. u = tick
  BY <1>3, <1>4, <1>5, SameTick
<1> QED
  BY <1>6

LEMMA NothingIsCounted ==
  ASSUME NEW b
  PROVE  CountedBy(b, {})
BY DEF CountedBy

\* What is left of the open bucket once the tick's time is accepted.
LEMMA AcceptedIsCounted ==
  ASSUME OddTicksAreForeign, now \in Today, NEW b \in Builder, NEW tick \in Tick, Known(tick),
         CurrentBuilder(b), TimeAccepted(b, tick.time, now),
         b.time = None => b = NewBuilder,
         NEW d, d = Rolled(Confirmed(b, tick.time), tick.time),
         NEW ts, CountedBy(b, ts),
         NEW kept, kept = IF d.bucket.start = None THEN {} ELSE ts
  PROVE  CountedBy(d, kept) /\ (kept # {} => d.confirmed)
<1> DEFINE t == tick.time
           c == Confirmed(b, t)
<1>1. t \in Nat
  BY DEF Tick
<1>2. c \in Builder
  BY <1>1, ConfirmedCases
<1>3. CASE d.bucket.start = None
  BY <1>3, NothingIsCounted
<1>4. CASE d.bucket.start # None
  <2>1. ~Completes(c, t)
    BY <1>1, <1>2, <1>4, RolledCases, NewTypes, Zenon
  <2>2. d = c
    BY <2>1, Zenon DEF Rolled
  <2>3. b.time # None
    <3> SUFFICES ASSUME b.time = None
                 PROVE  FALSE
      OBVIOUS
    <3>1. c = NewBuilder
      BY <1>1, ConfirmedCases, Zenon
    <3> QED
      BY <1>4, <2>2, <3>1, NewTypes, Zenon
  <2>4. kept = ts
    BY <1>4
  <2>5. CASE b.confirmed
    <3>1. c = b
      BY <1>1, <2>5, ConfirmedCases, Zenon
    <3> QED
      BY <2>2, <2>4, <2>5, <3>1, Zenon
  <2>6. CASE ~b.confirmed /\ Agrees(t, b.time)
    <3>1. /\ c.confirmed /\ c.price = b.price /\ c.time = b.time /\ c.bucket = b.bucket
      BY <1>1, <2>3, <2>6, ConfirmedCases, Zenon
    <3>2. b.time \in Today
      BY <2>3, <2>6, AcceptedIsOfToday
    <3>3. \A u \in ts : u.time \in Today
      BY <2>6, <3>2, Zenon DEF CountedBy
    <3> QED
      BY <2>2, <2>4, <3>1, <3>3, Zenon DEF CountedBy
  <2>7. CASE ~b.confirmed /\ ~Agrees(t, b.time)
    <3>1. c.bucket = NoBucket
      BY <1>1, <2>3, <2>7, ConfirmedCases, Zenon
    <3> QED
      BY <1>4, <2>2, <3>1, NewTypes, Zenon
  <2> QED
    BY <2>5, <2>6, <2>7
<1> QED
  BY <1>3, <1>4

\* A corrupt tick does not join others, nor others it.
LEMMA CorruptIsAlone ==
  ASSUME OddPricesAreFar, OddTicksAreUnits,
         NEW d \in Builder, NEW ts \in SUBSET AllTicks, CountedBy(d, ts), ts # {} => d.confirmed,
         NEW tick \in AllTicks, PriceIsValid(d, tick), d.confirmed => tick.time \in Today
  PROVE  \A u, v \in ts \cup {tick} : u \in OddOfToday => u = v
<1>1. CASE ts = {}
  BY <1>1
<1>2. CASE ts # {}
  <2>1. PICK m \in ts : IsMerged(d.bucket, m) /\ m.price = d.price
    BY <1>2, Zenon DEF CountedBy
  <2>2. m.price > 0 /\ m.time \in Today /\ tick.time \in Today
    BY <1>2, Zenon DEF CountedBy
  <2>3. Near(tick.price, m.price) /\ tick.price > 0
    <3>1. d.price # None
      BY <2>1, <2>2 DEF None
    <3> QED
      BY <2>1, <3>1, Zenon DEF PriceIsValid
  <2>4. m \in DayTicks /\ tick \in DayTicks
    BY <2>2, AllAreUnits
  <2>5. m \in OddOfToday => tick = m
    BY <2>2, <2>3, <2>4 DEF OddPricesAreFar
  <2>6. tick \in OddOfToday => tick = m
    BY <2>2, <2>3, <2>4 DEF OddPricesAreFar
  <2>7. \A u, v \in ts : u \in OddOfToday => u = v
    BY Zenon DEF CountedBy
  <2> QED
    BY <2>5, <2>6, <2>7
<1> QED
  BY <1>1, <1>2

LEMMA MergedIsCounted ==
  ASSUME OddPricesAreFar, OddTicksAreUnits,
         NEW d \in Builder, NEW ts \in SUBSET AllTicks, CountedBy(d, ts), ts # {} => d.confirmed,
         PricedBy(d.bucket, ts), IsFiniteSet(ts),
         NEW tick \in AllTicks, tick.time # None, PriceIsValid(d, tick),
         d.confirmed => tick.time \in Today,
         NEW after \in Builder, after.bucket = Merged(d.bucket, tick), after.price = tick.price,
         after.time = tick.time, after.confirmed = d.confirmed
  PROVE  /\ CountedBy(after, ts \cup {tick})
         /\ CountOf(d.bucket, ts, tick) => CountOf(after.bucket, ts \cup {tick}, tick)
<1> DEFINE k == d.bucket
           all == ts \cup {tick}
<1>1. k \in Bucket /\ tick \in Tick /\ tick.volume = 1 /\ tick.price > 0 /\ ts \subseteq Tick
  BY AllAreUnits DEF Builder, PriceIsValid
<1>2. IsMerged(after.bucket, tick)
  BY <1>1, MergedPrices
<1>3. \A u, v \in all : u \in OddOfToday => u = v
  BY CorruptIsAlone
<1>4. \A u \in all : u.volume = 1 /\ u.price > 0
  BY <1>1, Zenon DEF CountedBy
<1>5. ~after.confirmed => \A u, v \in all : u = v /\ u.time = after.time
  BY Zenon
<1>6. after.confirmed => \A u \in all : u.time \in Today
  BY Zenon DEF CountedBy
<1>7. CountedBy(after, all)
  BY <1>2, <1>3, <1>4, <1>5, <1>6, Zenon DEF CountedBy
<1>8. ASSUME CountOf(k, ts, tick)
      PROVE  CountOf(after.bucket, all, tick)
  <2>1. after.bucket.volume = k.volume + IF IsRedelivered(k, tick) THEN 0 ELSE tick.volume
    BY <1>1, MergedPrices
  <2>2. k.volume = Cardinality(ts) /\ k.volume \in Nat
    BY <1>1, <1>8 DEF CountOf, Bucket
  <2>3. CASE tick \in ts
    <3>1. IsMerged(k, tick) /\ k.start # None
      BY <1>8, <2>3, Zenon DEF CountOf, PricedBy
    <3>2. IsRedelivered(k, tick)
      BY <3>1, Zenon DEF IsRedelivered, IsMerged
    <3>3. all = ts
      BY <2>3
    <3>4. after.bucket.volume = k.volume + 0
      BY <2>1, <3>2, Zenon
    <3>5. after.bucket.volume = Cardinality(ts)
      BY <2>2, <3>4
    <3> QED
      BY <1>2, <3>3, <3>5, Zenon DEF CountOf
  <2>4. CASE tick \notin ts
    <3>1. ~IsRedelivered(k, tick)
      <4> SUFFICES ASSUME IsRedelivered(k, tick)
                   PROVE  FALSE
        OBVIOUS
      <4>1. IsMerged(k, tick)
        BY Zenon DEF IsRedelivered, IsMerged
      <4>2. \A u \in ts : u.volume = 1
        BY <1>4
      <4> QED
        BY <1>1, <2>4, <4>1, <4>2, RepeatIsCounted
    <3>2. Cardinality(all) = Cardinality(ts) + 1
      BY <2>4, FS_AddElement
    <3>3. after.bucket.volume = Cardinality(all)
      BY <1>1, <2>1, <2>2, <3>1, <3>2
    <3> QED
      BY <1>2, <3>3 DEF CountOf
  <2> QED
    BY <2>3, <2>4
<1> QED
  BY <1>7, <1>8

\* A builder that goes on with the bucket as it is counts the same ticks.
LEMMA KeptIsCounted ==
  ASSUME OddTicksAreUnits, NEW tick \in AllTicks, tick.time # None,
         NEW k \in Bucket, NEW kept \in SUBSET AllTicks, PricedBy(k, kept),
         NEW after, after.bucket = k, CountedBy(after, kept)
  PROVE  kept \cup {u \in {tick} : IsMerged(k, u)} = kept
<1>1. kept \in SUBSET Tick /\ \A u \in kept : u.volume = 1
  BY AllAreUnits
<1>2. IsMerged(k, tick) => tick \in kept
  BY <1>1, RepeatIsCounted
<1> QED
  BY <1>2

LEMMA TickKeepsCount ==
  ASSUME OddTicksAreForeign, OddPricesAreFar, OddTicksAreUnits, now \in Today,
         NEW b \in Builder, NEW tick \in AllTicks, Known(tick), tick.time # None,
         b.time = None => b = NewBuilder, CurrentBuilder(b),
         NEW after \in Builder, NEW bar \in Bucket, Handled(b, tick, now, after, bar),
         trades \subseteq AllTicks, IsFiniteSet(trades),
         PricedBy(b.bucket, trades), CountedBy(b, trades),
         NEW ts, ts = TradesOf(after.bucket, Continued(b, tick), tick)
  PROVE  /\ CountedBy(after, ts)
         /\ CountOf(b.bucket, trades, tick) => CountOf(after.bucket, ts, tick)
<1> DEFINE t == tick.time
           c == Confirmed(b, t)
           d == Rolled(c, t)
           k == Continued(b, tick)
           kept == {u \in trades : k.start # None}
<1>1. t \in Nat /\ tick \in Tick /\ now \in Nat
  BY AllAreUnits, TradeIsATick DEF Tick
<1>2. /\ c \in Builder /\ d \in Builder /\ d.price = c.price /\ d.confirmed = c.confirmed
  BY <1>1, ConfirmedCases, RolledCases, Zenon
<1>3. k \in Bucket /\ (k = b.bucket \/ k = NoBucket)
  BY <1>1, ContinuedCases
<1>4. ts = kept \cup {u \in {tick} : IsMerged(after.bucket, u)}
  BY Zenon DEF TradesOf, IsMerged
<1>5. PricedBy(k, kept) /\ kept = IF k.start = None THEN {} ELSE trades
  BY <1>3, KeptIsPriced
<1>6. kept \in SUBSET AllTicks /\ IsFiniteSet(kept)
  BY <1>5, FS_EmptySet
<1>7. ~TimeAccepted(b, t, now) => k = b.bucket
  BY Zenon DEF Continued
<1>8. TimeAccepted(b, t, now) => k = d.bucket
  BY Zenon DEF Continued
<1> HIDE DEF k, kept
<1>9. CountOf(b.bucket, trades, tick) => CountOf(k, kept, tick)
  <2>1. CASE k.start # None
    <3>1. k = b.bucket /\ kept = trades
      BY <1>3, <1>5, <2>1, NewTypes, Zenon
    <3> QED
      BY <3>1, Zenon
  <2>2. CASE k.start = None /\ k = b.bucket
    <3>1. trades = {} /\ kept = {}
      BY <1>5, <2>2, Zenon DEF PricedBy
    <3> QED
      BY <2>2, <3>1, Zenon
  <2>3. CASE k = NoBucket
    <3>1. kept = {}
      BY <1>5, <2>3, NewTypes, Zenon
    <3>2. k.volume = 0 /\ Cardinality({}) = 0
      BY <2>3, FS_EmptySet DEF NoBucket
    <3> QED
      BY <3>1, <3>2, Zenon DEF CountOf
  <2> QED
    BY <1>3, <2>1, <2>2, <2>3
<1>10. ASSUME after.bucket = k, CountedBy(after, kept)
       PROVE  ts = kept
  <2>1. kept \cup {u \in {tick} : IsMerged(k, u)} = kept
    BY <1>3, <1>5, <1>6, <1>10, KeptIsCounted
  <2> QED
    BY <1>4, <1>10, <2>1, Zenon
<1>11. CASE ~TimeAccepted(b, t, now)
  <2>1. TickRejected(b, tick, now, after, bar)
    BY <1>11, Zenon DEF Handled, TickLate, TickUnpriced, TickMerged
  <2>2. after = Disagreed(b, t)
    BY <2>1, Zenon DEF TickRejected
  <2>3. /\ Disagreed(b, t).price = b.price /\ Disagreed(b, t).time = b.time
        /\ Disagreed(b, t).bucket = b.bucket /\ Disagreed(b, t).confirmed = b.confirmed
    BY <1>1, DisagreedCases
  <2>4. k = b.bucket /\ kept = trades
    <3>1. k = b.bucket
      BY <1>7, <1>11
    <3>2. k.start = None => trades = {}
      BY <3>1, Zenon DEF PricedBy
    <3> QED
      BY <1>5, <3>1, <3>2, Zenon
  <2>5. after.bucket = k /\ CountedBy(after, kept)
    BY <2>2, <2>3, <2>4, Zenon DEF CountedBy
  <2>6. ts = kept
    BY <1>10, <2>5
  <2> QED
    BY <1>9, <2>5, <2>6, Zenon
<1>12. CASE TimeAccepted(b, t, now)
  <2>1. k = d.bucket
    BY <1>8, <1>12
  <2>2. CountedBy(d, kept) /\ (kept # {} => d.confirmed)
    <3>1. kept = IF d.bucket.start = None THEN {} ELSE trades
      BY <1>5, <2>1, Zenon
    <3> HIDE DEF d
    <3>2. d = Rolled(c, t)
      BY DEF d
    <3> QED
      BY <1>1, <1>12, <3>1, <3>2, AcceptedIsCounted
  <2>3. CASE after = d
    <3>1. after.bucket = k /\ CountedBy(after, kept)
      BY <2>1, <2>2, <2>3, Zenon
    <3>2. ts = kept
      BY <1>10, <3>1
    <3> QED
      BY <1>9, <3>1, <3>2, Zenon
  <2>4. CASE TickMerged(b, tick, now, after, bar)
    <3>1. /\ after.bucket = Merged(d.bucket, tick) /\ after.price = tick.price
          /\ after.time = t /\ after.confirmed = d.confirmed /\ PriceIsValid(c, tick)
      BY <1>2, <2>4, Zenon DEF TickMerged
    <3>2. PriceIsValid(d, tick)
      BY <1>2, <3>1, Zenon DEF PriceIsValid
    <3>3. d.confirmed => t \in Today
      <4>1. CASE b.time = None
        <5>1. c = NewBuilder
          BY <1>1, <4>1, ConfirmedCases, Zenon
        <5> QED
          BY <1>2, <5>1, NewTypes, Zenon
      <4>2. CASE b.time # None
        BY <1>1, <1>12, <4>2, AcceptedIsOfToday
      <4> QED
        BY <4>1, <4>2
    <3>4. PricedBy(d.bucket, kept)
      BY <1>5, <2>1, Zenon
    <3> HIDE DEF c, d, t
    <3>5. /\ CountedBy(after, kept \cup {tick})
          /\ CountOf(d.bucket, kept, tick) => CountOf(after.bucket, kept \cup {tick}, tick)
      BY <1>2, <1>6, <2>2, <3>1, <3>2, <3>3, <3>4, MergedIsCounted DEF t
    <3>6. IsMerged(after.bucket, tick)
      BY <1>1, <1>3, <2>1, <3>1, MergedPrices
    <3>7. ts = kept \cup {tick}
      BY <1>4, <3>6
    <3> QED
      BY <1>9, <2>1, <3>5, <3>7, Zenon
  <2>5. after = d \/ TickMerged(b, tick, now, after, bar)
    <3>1. CASE TickLate(b, tick, now, after, bar)
      <4>1. after = c /\ IsLate(c, t)
        BY <3>1, Zenon DEF TickLate
      <4>2. c.bucket.start \in Nat /\ BucketStart(t) \in Nat
        <5>1. c \in Builder
          BY <1>2
        <5> HIDE DEF c
        <5> QED
          BY <1>1, <5>1, BucketStarts DEF Builder, Bucket
      <4>3. ~Completes(c, t)
        BY <4>1, <4>2 DEF IsLate, Completes
      <4> QED
        BY <4>1, <4>3, Zenon DEF Rolled
    <3>2. CASE TickUnpriced(b, tick, now, after, bar)
      BY <3>2, Zenon DEF TickUnpriced
    <3>3. ~TickRejected(b, tick, now, after, bar)
      BY <1>12, Zenon DEF TickRejected
    <3> QED
      BY <3>1, <3>2, <3>3, Zenon DEF Handled
  <2> QED
    BY <2>3, <2>4, <2>5
<1> QED
  BY <1>11, <1>12

\* The odd ticks, and the trades that cannot be delivered any more.
Settled == OddTick \cup {Trade(t) : t \in {u \in Today : IsPast(u)}}

\* One thread at a time has the last tick at hand, which is not in the bar or
\* was merged last, and the volume is the number of ticks.
Single ==
  /\ recv[connected].pc = "packet" => recv[connected].tick = last
  /\ CountOf(builder.bucket, trades, last)

Counted ==
  /\ CountedBy(builder, trades) /\ IsFiniteSet(trades) /\ trades \subseteq Settled
  /\ \A r \in Receiver : recv[r].pc = "packet" => recv[r].tick \in Settled
  /\ last = Idle.tick \/ last \in Settled
  /\ ~overlapped => Single

CandleInv == CurrentInv /\ PricedBy(builder.bucket, trades) /\ Counted

LEMMA SettledTicks ==
  /\ Settled \subseteq AllTicks
  /\ \A t \in Today : Trade(t) \in Settled => Trade(t) \in OddTick \/ IsPast(t)
<1>1. Settled \subseteq AllTicks
  BY DEF Settled, AllTicks
<1>2. ASSUME NEW t \in Today, Trade(t) \in Settled, Trade(t) \notin OddTick
      PROVE  IsPast(t)
  <2>1. PICK u \in Today : IsPast(u) /\ Trade(t) = Trade(u)
    BY <1>2 DEF Settled
  <2>2. t = u
    BY <2>1, TradeIsATick
  <2> QED
    BY <2>1, <2>2
<1> QED
  BY <1>1, <1>2

LEMMA SettledGrows ==
  ASSUME \A t \in Today : IsPast(t) => IsPast(t)'
  PROVE  Settled \subseteq Settled'
<1>1. {u \in Today : IsPast(u)} \subseteq {u \in Today : IsPast(u)'}
  OBVIOUS
<1> QED
  BY <1>1 DEF Settled

LEMMA NoVolume ==
  ASSUME NEW tick
  PROVE  CountOf(NoBucket, {}, tick)
BY FS_EmptySet DEF CountOf, NoBucket

\* A tick that is delivered is not in the open bar, or was merged last.
LEMMA FreshOrLast ==
  ASSUME LiveInv, Counted, NEW tick \in Tick, Brings(tick), ~overlapped, tick \in trades
  PROVE  IsMerged(builder.bucket, tick)
<1>1. CASE tick = last
  BY <1>1, Zenon DEF Counted, Single, CountOf
<1>2. CASE tick # last
  <2>1. CountedBy(builder, trades) /\ trades \subseteq Settled
    BY DEF Counted
  <2>2. PICK m \in trades : IsMerged(builder.bucket, m)
    BY <2>1, Zenon DEF CountedBy
  <2>3. tick \in OddTick
    <3>1. CASE \E t \in Today : tick = Trade(t) /\ t \notin delivered /\ t + MaxLag >= now
      <4>1. PICK t \in Today : tick = Trade(t) /\ t \notin delivered /\ t + MaxLag >= now
        BY <3>1
      <4>2. now \in Nat /\ t \in Nat /\ MaxLag \in Nat
        BY TradeIsATick, LiveDataAssumption DEF LiveInv, LiveTypes
      <4>3. ~IsPast(t)
        BY <4>1, <4>2 DEF IsPast
      <4> QED
        BY <2>1, <4>1, <4>3, SettledTicks
    <3> QED
      BY <1>2, <3>1, Zenon DEF Brings
  <2>4. tick = m
    <3>1. CASE ~builder.confirmed
      BY <2>1, <2>2, <3>1, Zenon DEF CountedBy
    <3>2. CASE builder.confirmed
      <4>1. tick \in OddOfToday
        BY <2>1, <2>3, <3>2 DEF CountedBy, OddOfToday
      <4> QED
        BY <2>1, <2>2, <4>1, Zenon DEF CountedBy
    <3> QED
      BY <3>1, <3>2
  <2> QED
    BY <2>2, <2>4
<1> QED
  BY <1>1, <1>2

LEMMA CandleStep ==
  ASSUME OddTicksAreForeign, OddPricesAreFar, OddTicksAreUnits, CandleInv, [Next]_vars
  PROVE  CandleInv'
<1>1. /\ CurrentInv /\ LiveInv /\ LiveTypes /\ CurrentInv' /\ LiveInv'
      /\ now \in Today /\ now \in Nat
  BY CurrentStep, TradeIsATick DEF CandleInv, CurrentInv, LiveInv, LiveTypes
<1>2. PricedBy(builder.bucket, trades)'
  BY <1>1, PricesStep DEF CandleInv, PricesInv
<1>3. /\ CountedBy(builder, trades) /\ IsFiniteSet(trades) /\ trades \subseteq Settled
      /\ \A r \in Receiver : recv[r].pc = "packet" => recv[r].tick \in Settled
      /\ last = Idle.tick \/ last \in Settled
      /\ ~overlapped => Single
      /\ Counted
  BY Zenon DEF CandleInv, Counted
<1>4. CASE \/ Advance \/ Reconnect
           \/ \E r \in Receiver : PutNowait(r) \/ DropOldest(r) \/ PutAgain(r)
           \/ \E halted \in BOOLEAN : ProcessNext(halted)
           \/ UNCHANGED vars
  <2>1. /\ UNCHANGED <<builder, last, trades>>
        /\ \A r \in Receiver :
             recv'[r].pc = "packet" => recv[r].pc = "packet" /\ recv'[r].tick = recv[r].tick
        /\ \A t \in Today : IsPast(t) => IsPast(t)'
        /\ ~overlapped' =>
             ~overlapped /\ (recv'[connected'].pc = "packet" => connected' = connected)
    BY <1>1, <1>4, QuietSteps, Zenon DEF Quiet
  <2>2. Settled \subseteq Settled'
    BY <2>1, SettledGrows
  <2>3. ASSUME ~overlapped'
        PROVE  Single'
    <3>1. connected \in Receiver /\ connected' \in Receiver
      BY <1>1 DEF LiveInv, LiveTypes
    <3> QED
      BY <1>3, <2>1, <2>3, <3>1 DEF Single, CountOf, IsMerged
  <2>4. Counted'
    BY <1>3, <2>1, <2>2, <2>3 DEF Counted, CountedBy, IsMerged
  <2> QED
    BY <1>1, <1>2, <2>4 DEF CandleInv
<1>5. CASE Restart
  <2>1. /\ recv' = [r \in Receiver |-> Idle] /\ builder' = NewBuilder /\ trades' = {}
        /\ UNCHANGED <<now, delivered, last>>
    BY <1>5, Zenon DEF Restart
  <2>2. connected' \in Receiver
    BY <1>1 DEF LiveInv, LiveTypes
  <2>3. builder'.bucket = NoBucket
    BY <2>1, NewTypes
  <2>4. Single'
    <3>1. CountOf(builder'.bucket, trades', last')
      BY <2>1, <2>3, NoVolume, Zenon
    <3>2. recv'[connected'].pc # "packet"
      BY <2>1, <2>2, IdleType
    <3> QED
      BY <3>1, <3>2, Zenon DEF Single
  <2>5. CountedBy(builder', trades') /\ IsFiniteSet(trades') /\ trades' \subseteq Settled'
    BY <2>1, NothingIsCounted, FS_EmptySet
  <2>6. \A r \in Receiver : recv'[r].pc # "packet"
    BY <2>1, IdleType
  <2>7. Settled' = Settled
    BY <2>1 DEF Settled, IsPast
  <2>8. Counted'
    BY <1>3, <2>1, <2>4, <2>5, <2>6, <2>7, Zenon DEF Counted
  <2> QED
    BY <1>1, <1>2, <2>8 DEF CandleInv
<1>6. CASE \E r \in Receiver : Deliver(r) \/ Redeliver(r) \/ DeliverOdd(r)
  <2>1. PICK r \in Receiver : Deliver(r) \/ Redeliver(r) \/ DeliverOdd(r)
    BY <1>6
  <2>2. /\ r = connected
        /\ \E tick \in Tick :
             /\ Brings(tick) /\ last' = tick
             /\ \A s \in Receiver \ {r} : recv'[s] = recv[s]
             /\ recv'[r].pc = "packet" /\ recv'[r].tick = tick
        /\ UNCHANGED <<now, connected, builder, queue, trades, overlapped, emitted>>
    BY <1>1, <2>1, ReceivingSteps
  <2>3. PICK tick \in Tick :
             /\ Brings(tick) /\ last' = tick
             /\ \A s \in Receiver \ {r} : recv'[s] = recv[s]
             /\ recv'[r].pc = "packet" /\ recv'[r].tick = tick
    BY <2>2
  <2>4. Settled \subseteq Settled'
    <3>1. delivered \subseteq delivered' /\ now' = now
      BY <2>2, <2>3 DEF Brings
    <3>2. \A t \in Today : IsPast(t) => IsPast(t)'
      BY <3>1 DEF IsPast
    <3> QED
      BY <3>2, SettledGrows
  <2>5. tick \in Settled'
    <3>1. CASE \E t \in Today : tick = Trade(t) /\ delivered' = delivered \cup {t}
      <4>1. PICK t \in Today : tick = Trade(t) /\ delivered' = delivered \cup {t}
        BY <3>1
      <4>2. IsPast(t)'
        BY <4>1 DEF IsPast
      <4> QED
        BY <4>1, <4>2 DEF Settled
    <3>2. CASE tick = last /\ last # Idle.tick
      BY <1>3, <2>4, <3>2
    <3>3. CASE tick \in OddTick
      BY <3>3 DEF Settled
    <3> QED
      BY <2>3, <3>1, <3>2, <3>3, Zenon DEF Brings
  <2>6. ASSUME ~overlapped'
        PROVE  Single'
    <3>1. ~overlapped /\ CountOf(builder.bucket, trades, last)
      BY <1>3, <2>2, <2>6 DEF Single
    <3>2. tick \in trades => IsMerged(builder.bucket, tick)
      BY <1>1, <1>3, <2>3, <3>1, FreshOrLast
    <3>3. CountOf(builder.bucket, trades, tick)
      BY <3>1, <3>2, Zenon DEF CountOf
    <3>4. builder'.bucket = builder.bucket /\ trades' = trades
      BY <2>2
    <3>5. CountOf(builder'.bucket, trades', last')
      BY <2>3, <3>3, <3>4, Zenon
    <3>6. recv'[connected'].tick = last'
      BY <2>2, <2>3
    <3> QED
      BY <3>5, <3>6, Zenon DEF Single
  <2>7. \A s \in Receiver : recv'[s].pc = "packet" => recv'[s].tick \in Settled'
    BY <1>3, <2>3, <2>4, <2>5
  <2>8. CountedBy(builder', trades') /\ IsFiniteSet(trades') /\ trades' \subseteq Settled'
    BY <1>3, <2>2, <2>4
  <2>9. Counted'
    BY <2>3, <2>5, <2>6, <2>7, <2>8, Zenon DEF Counted
  <2> QED
    BY <1>1, <1>2, <2>9 DEF CandleInv
<1>7. CASE \E r \in Receiver : HandlePacket(r)
  <2>1. PICK r \in Receiver : HandlePacket(r)
    BY <1>7
  <2> DEFINE tick == recv[r].tick
             ts == TradesOf(builder'.bucket, Continued(builder, tick), tick)
  <2>2. /\ recv[r].pc = "packet" /\ tick \in Tick /\ builder' \in Builder
        /\ trades' = ts
        /\ UNCHANGED <<now, connected, delivered, last, overlapped>>
    BY <1>1, <2>1, HandlePacketEffect DEF wire
  <2>3. PICK k \in Bucket :
          /\ Handled(builder, tick, now, builder', k)
          /\ k = NoBucket => recv' = [recv EXCEPT ![r] = Idle] /\ emitted' = emitted
          /\ k # NoBucket =>
               /\ emitted' = Append(emitted, k.start)
               /\ recv' = [recv EXCEPT ![r] = Holding(k, Len(emitted) + 1)]
    BY <1>1, <2>1, HandlePacketEffect
  <2>4. /\ tick \in Settled /\ tick \in AllTicks /\ trades \subseteq AllTicks
        /\ Known(tick) /\ tick.time # None
    <3>1. tick \in Settled /\ Known(tick)
      BY <1>1, <1>3, <2>2, Zenon DEF CurrentInv, Current, KnownTicks
    <3>2. tick.time # None
      BY <1>1, <2>2, CandleAssumption DEF LiveInv, BaselineKnown, Tick, None
    <3> QED
      BY <1>3, <3>1, <3>2, SettledTicks
  <2>5. /\ builder \in Builder /\ (builder.time = None => builder = NewBuilder)
        /\ CurrentBuilder(builder) /\ PricedBy(builder.bucket, trades)
    BY <1>1 DEF LiveInv, LiveTypes, BaselineKnown, CandleInv, CurrentInv, Current
  <2> HIDE DEF tick
  <2>6. /\ CountedBy(builder', ts)
        /\ CountOf(builder.bucket, trades, tick) => CountOf(builder'.bucket, ts, tick)
    BY <1>1, <1>3, <2>2, <2>3, <2>4, <2>5, TickKeepsCount
  <2>7. IsFiniteSet(trades') /\ trades' \subseteq Settled
    <3>1. ts \subseteq trades \cup {tick}
      BY DEF TradesOf
    <3>2. IsFiniteSet(trades \cup {tick})
      BY <1>3, FS_AddElement
    <3>3. IsFiniteSet(ts)
      BY <3>1, <3>2, FS_Subset
    <3> QED
      BY <1>3, <2>2, <2>4, <3>1, <3>3
  <2>8. Settled' = Settled
    BY <2>2 DEF Settled, IsPast
  <2>9. /\ \A s \in Receiver \ {r} : recv'[s] = recv[s]
        /\ recv'[r].pc # "packet"
    <3>1. \E p \in Receiving : recv' = [recv EXCEPT ![r] = p] /\ p.pc # "packet"
      BY <1>1, <2>3, IdleType, HoldingFields DEF LiveTypes
    <3> QED
      BY <1>1, <3>1, OneReceiver
  <2>10. ASSUME ~overlapped'
         PROVE  Single'
    <3>1. ~overlapped /\ r = connected
      BY <1>1, <2>2, <2>10, TheThreadIsTheConnected
    <3>2. tick = last /\ CountOf(builder.bucket, trades, last)
      BY <1>3, <2>2, <3>1, Zenon DEF Single, tick
    <3>3. CountOf(builder'.bucket, trades', last')
      BY <2>2, <2>6, <3>2, Zenon
    <3>4. recv'[connected'].pc # "packet"
      BY <2>2, <2>9, <3>1
    <3> QED
      BY <3>3, <3>4, Zenon DEF Single
  <2>11. \A s \in Receiver : recv'[s].pc = "packet" => recv'[s].tick \in Settled'
    BY <1>3, <2>8, <2>9
  <2>12. CountedBy(builder', trades')
    BY <2>2, <2>6, Zenon
  <2>13. Counted'
    BY <1>3, <2>2, <2>7, <2>8, <2>10, <2>11, <2>12, Zenon DEF Counted
  <2> QED
    BY <1>1, <1>2, <2>13 DEF CandleInv
<1> QED
  BY <1>4, <1>5, <1>6, <1>7, Zenon DEF Next

\* The bar says what its trades say, its volume included: each is counted once,
\* though they arrive late, out of order and again, while one thread receives
\* at a time (_is_redelivered looks at the last merged tick only).  Supposed is
\* that an odd tick is far from the day or has a time of it, that a corrupt
\* price is far from the others, and that an odd tick is of one unit.
THEOREM CandlesAreTheirTrades ==
  ASSUME OddTicksAreForeign, OddPricesAreFar, OddTicksAreUnits
  PROVE  Spec => []CandleIsItsTrades
<1>1. Init => CandleInv
  <2> SUFFICES ASSUME Init
               PROVE  CandleInv
    OBVIOUS
  <2>1. /\ recv = [r \in Receiver |-> Idle] /\ builder = NewBuilder /\ queue = <<>>
        /\ last = Idle.tick /\ trades = {} /\ connected \in Receiver
    BY Zenon DEF Init
  <2>2. \A r \in Receiver : recv[r] = Idle
    BY <2>1
  <2>3. builder.bucket = NoBucket
    BY <2>1, NewTypes
  <2>4. CurrentInv
    BY CurrentInitially
  <2>5. PricedBy(builder.bucket, trades)
    BY <2>1, <2>3, NothingIsPriced, Zenon
  <2>6. Single
    BY <2>1, <2>2, <2>3, IdleType, NoVolume DEF Single
  <2>7. CountedBy(builder, trades) /\ IsFiniteSet(trades)
    BY <2>1, NothingIsCounted, FS_EmptySet
  <2>8. Counted
    BY <2>1, <2>2, <2>6, <2>7, IdleType DEF Counted
  <2> QED
    BY <2>4, <2>5, <2>8 DEF CandleInv
<1>2. CandleInv /\ [Next]_vars => CandleInv'
  BY CandleStep
<1>3. CandleInv => CandleIsItsTrades
  <2> SUFFICES ASSUME CandleInv
               PROVE  CandleIsItsTrades
    OBVIOUS
  <2>1. PricesOfItsTrades
    BY PricedIsOfTrades DEF CandleInv, CurrentInv, LiveInv
  <2>2. ~overlapped => builder.bucket.volume = Cardinality(trades)
    BY Zenon DEF CandleInv, Counted, Single, CountOf
  <2> QED
    BY <2>1, <2>2, Zenon DEF CandleIsItsTrades
<1> QED
  BY <1>1, <1>2, <1>3, PTL DEF Spec
===============================================================================
