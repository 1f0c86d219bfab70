-------------------------------- MODULE LiveData --------------------------------
(***************************************************************************)
(* The data path of one symbol in a live session: the threads that receive *)
(* packets (_on_raw_message, _handle_packet and _enqueue_bar of            *)
(* live/dhan/market_data_source.py), the builder they feed, the bounded    *)
(* queue, and the polling thread that takes a bar through process_next     *)
(* (live/pipeline.py) into the indicator buffer.                           *)
(*                                                                         *)
(* Exchange time advances with the trades, one per unit of time.  The wire *)
(* delays and reorders them, repeats the last tick, and now and then       *)
(* brings a snapshot of another day or a corrupt tick.  A restart loses    *)
(* everything but the paper engine's cursor, which is in the database.     *)
(***************************************************************************)
EXTENDS CandleBuilder, Sequences, FiniteSets

CONSTANTS
  Receiver,      \* the receive threads: one per connection whose thread is still alive
  Open, MaxTime, \* bound: today's exchange times
  Price(_),      \* the price of the trade at a time
  OddTick,       \* snapshots of another day, and corrupt ticks
  MaxOdd,        \* bound: how many of them come
  MaxLag,        \* bound: how late a trade arrives
  MaxRestarts,   \* bound
  MaxQueuedBars, \* max_queued_bars
  MaxBufferBars  \* DEFAULT_MAX_BUFFER_BARS

ASSUME LiveDataAssumption ==
  /\ Receiver # {} /\ MaxTime \in Nat
  /\ Open \in BucketSeconds .. MaxTime \* None is no bucket's start
  /\ \A t \in Open .. MaxTime : Price(t) \in Nat \ {0}
  /\ OddTick \subseteq Tick /\ \A tick \in OddTick : BucketSeconds <= tick.time
  /\ MaxLag \in Nat /\ MaxOdd \in Nat /\ MaxRestarts \in Nat
  /\ MaxQueuedBars \in Nat \ {0} /\ MaxBufferBars \in Nat \ {0}

VARIABLES
  now,       \* the exchange clock, and the local one
  connected, \* the receive thread of the current connection generation
  recv,      \* recv[r]: where receive thread r is, with its tick or bar
  builder,   \* self._candle_builders[symbol]
  queue,     \* self._bar_queue
  cursor,    \* the paper engine's last_bar_timestamp
  buffer,    \* the bars of self._buffers[symbol], by their timestamps
  delivered, \* the trades of the last MaxLag units that were received
  last,      \* the last tick the wire brought
  odd, restarts, \* counters
  trades,    \* history: the ticks that are in the open bucket
  run,       \* history: consecutive current ticks on_tick was given
  overlapped,\* history: a receive thread outlived its connection
  emitted    \* history: the starts of the completed bars; a bar's id is its place

wire == <<now, connected, delivered, last, odd, restarts>>
vars == <<wire, recv, builder, queue, cursor, buffer, trades, run, overlapped, emitted>>

Idle == [pc |-> "idle", tick |-> [price |-> 0, volume |-> 0, time |-> 0],
         bar |-> [start |-> None, id |-> 0]]

Trade(t) == [price |-> Price(t), volume |-> 1, time |-> t]
Today == Open .. MaxTime

\* A trade of today, received when it is not yet old.
IsCurrent(tick) ==
  /\ tick.time \in Today /\ tick = Trade(tick.time)
  /\ PlausibleRelativeToReceipt(tick.time, now)

Bar == [start : Nat, id : Nat]

Init ==
  /\ now = Open
  /\ connected \in Receiver
  /\ recv = [r \in Receiver |-> Idle]
  /\ builder = NewBuilder
  /\ queue = <<>> /\ cursor = None /\ buffer = <<>>
  /\ delivered = {} /\ last = Idle.tick
  /\ odd = 0 /\ restarts = 0
  /\ trades = {} /\ run = <<>> /\ overlapped = FALSE /\ emitted = <<>>

-----------------------------------------------------------------------------
(* The exchange and the wire *)

Recent(ts, t) == {u \in ts : u + MaxLag >= t}

Advance ==
  /\ now < MaxTime
  /\ now' = now + 1
  /\ delivered' = Recent(delivered, now')
  /\ UNCHANGED <<connected, last, odd, restarts, recv, builder, queue, cursor, buffer,
                 trades, run, overlapped, emitted>>

\* _on_raw_message: the generation is checked, the packet handled after it.
Receive(r, tick) ==
  /\ r = connected /\ recv[r].pc = "idle"
  /\ recv' = [recv EXCEPT ![r].pc = "packet", ![r].tick = tick]
  /\ last' = tick
  /\ UNCHANGED <<now, connected, restarts, builder, queue, cursor, buffer, trades, run, overlapped, emitted>>

Deliver(r) ==
  \E t \in Today :
    /\ t <= now /\ t + MaxLag >= now /\ t \notin delivered
    /\ Receive(r, Trade(t))
    /\ delivered' = delivered \cup {t}
    /\ UNCHANGED odd

Redeliver(r) ==
  /\ last # Idle.tick
  /\ Receive(r, last)
  /\ UNCHANGED <<delivered, odd>>

DeliverOdd(r) ==
  /\ odd < MaxOdd
  /\ \E tick \in OddTick : Receive(r, tick)
  /\ odd' = odd + 1
  /\ UNCHANGED delivered

\* A new connection has its own receive thread; the old one may still be at
\* work on its last packet.
Reconnect ==
  /\ \E r \in Receiver \ {connected} : recv[r].pc = "idle" /\ connected' = r
  /\ overlapped' = (overlapped \/ recv[connected].pc # "idle")
  /\ UNCHANGED <<now, delivered, last, odd, restarts, recv, builder, queue, cursor, buffer,
                 trades, run, emitted>>

-----------------------------------------------------------------------------
(* _handle_packet and _enqueue_bar *)

\* The bucket that on_tick goes on with: one that is complete is gone, and so
\* is one that was built on a baseline given up.
Continued(b, tick) ==
  IF TimeAccepted(b, tick.time, now)
    THEN Rolled(Confirmed(b, tick.time), tick.time).bucket ELSE b.bucket

\* The ticks of bucket k after on_tick was given this one.
TradesOf(k, continued, tick) ==
  {u \in trades : continued.start # None}
    \cup {u \in {tick} : k.mergedTime = u.time /\ k.mergedPrice = u.price}

\* The current ticks in a row, each within the permitted skew of the one before.
Extended(tick) ==
  IF ~IsCurrent(tick) THEN <<>>
  ELSE IF run # <<>> /\ Agrees(tick.time, run[1])
    THEN <<tick.time, 2>> ELSE <<tick.time, 1>>

HandlePacket(r) ==
  LET tick == recv[r].tick
      bar  == CompletedBar(builder, tick, now)
  IN
  /\ recv[r].pc = "packet"
  /\ builder' = OnTick(builder, tick, now)
  /\ trades' = TradesOf(builder'.bucket, Continued(builder, tick), tick)
  /\ run' = Extended(tick)
  /\ IF bar = NoBucket
       THEN recv' = [recv EXCEPT ![r] = Idle] /\ UNCHANGED emitted
       ELSE /\ emitted' = Append(emitted, bar.start)
            /\ recv' = [recv EXCEPT ![r] = [Idle EXCEPT !.pc = "put",
                                              !.bar = [start |-> bar.start, id |-> Len(emitted')]]]
  /\ UNCHANGED <<wire, queue, cursor, buffer, overlapped>>

Full == Len(queue) = MaxQueuedBars

\* Mutant of PutNowait: when the queue is full, the new bar is dropped.
PutOrGiveUp(r) ==
  /\ recv[r].pc = "put"
  /\ recv' = [recv EXCEPT ![r] = Idle]
  /\ queue' = IF Full THEN queue ELSE Append(queue, recv[r].bar)
  /\ UNCHANGED <<wire, builder, cursor, buffer, trades, run, overlapped, emitted>>

PutNowait(r) ==
  /\ recv[r].pc = "put"
  /\ IF Full
       THEN recv' = [recv EXCEPT ![r].pc = "drop"] /\ UNCHANGED queue
       ELSE queue' = Append(queue, recv[r].bar) /\ recv' = [recv EXCEPT ![r] = Idle]
  /\ UNCHANGED <<wire, builder, cursor, buffer, trades, run, overlapped, emitted>>

DropOldest(r) ==
  /\ recv[r].pc = "drop"
  /\ queue' = IF queue = <<>> THEN <<>> ELSE Tail(queue)
  /\ recv' = [recv EXCEPT ![r].pc = "put_again"]
  /\ UNCHANGED <<wire, builder, cursor, buffer, trades, run, overlapped, emitted>>

\* The second put_nowait is not in a try: queue.Full leaves the callback.
PutAgain(r) ==
  /\ recv[r].pc = "put_again"
  /\ recv' = [recv EXCEPT ![r] = Idle]
  /\ queue' = IF Full THEN queue ELSE Append(queue, recv[r].bar)
  /\ UNCHANGED <<wire, builder, cursor, buffer, trades, run, overlapped, emitted>>

-----------------------------------------------------------------------------
(* process_next: a bar goes to the engine, and then to the buffer *)

Appended(bar) ==
  LET b == Append(buffer, bar.start)
  IN  IF Len(b) > MaxBufferBars THEN Tail(b) ELSE b

\* halted: a pending fill was held back, so the bar is returned before it
\* reaches the buffer.  A stale bar is not: it only makes no signal.
ProcessNext(halted) ==
  /\ queue # <<>>
  /\ queue' = Tail(queue)
  /\ IF Head(queue).start <= cursor
       THEN UNCHANGED <<cursor, buffer>>
       ELSE /\ cursor' = Head(queue).start
            /\ buffer' = IF halted THEN buffer ELSE Appended(Head(queue))
  /\ UNCHANGED <<wire, recv, builder, trades, run, overlapped, emitted>>

\* The process dies and is started again.
Restart ==
  /\ restarts < MaxRestarts
  /\ restarts' = restarts + 1
  /\ recv' = [r \in Receiver |-> Idle]
  /\ builder' = NewBuilder /\ queue' = <<>> /\ buffer' = <<>>
  /\ trades' = {} /\ run' = <<>> /\ overlapped' = FALSE /\ emitted' = <<>>
  /\ UNCHANGED <<now, connected, delivered, last, odd, cursor>>

Next ==
  \/ Advance \/ Reconnect \/ Restart
  \/ \E r \in Receiver :
       \/ Deliver(r) \/ Redeliver(r) \/ DeliverOdd(r)
       \/ HandlePacket(r) \/ PutNowait(r) \/ DropOldest(r) \/ PutAgain(r)
  \/ \E halted \in BOOLEAN : ProcessNext(halted)

Spec == Init /\ [][Next]_vars

-----------------------------------------------------------------------------
(* Properties *)

\* Types: where the receive threads are, the builder's flag and the volume of
\* its bucket, and the bounds of the queue and of the buffer.
TypeOK ==
  /\ now \in Today /\ connected \in Receiver
  /\ \A r \in Receiver :
       /\ recv[r].pc \in {"idle", "packet", "put", "drop", "put_again"}
       /\ recv[r].tick \in Tick /\ recv[r].bar \in Bar
  /\ builder.confirmed \in BOOLEAN
  /\ builder.bucket.volume \in Nat
  /\ Len(queue) <= MaxQueuedBars /\ \A i \in DOMAIN queue : queue[i] \in Bar
  /\ Len(buffer) <= MaxBufferBars
  /\ cursor \in Nat

\* The prices of a bar are those of the trades in it, in whatever order and
\* however often they arrive: the extremes, and the last by exchange time.
PricesOfItsTrades ==
  LET k == builder.bucket
      prices == {u.price : u \in trades}
  IN  k.start # None =>
        /\ \A u \in trades : BucketStart(u.time) = k.start
        /\ {k.high, k.low, k.open} \subseteq prices
        /\ \A p \in prices : k.low <= p /\ p <= k.high
        /\ \E u \in trades :
             k.close = u.price /\ \A v \in trades : v.time <= u.time

\* So is its volume, each trade once, as long as one thread receives at a time.
CandleIsItsTrades ==
  /\ PricesOfItsTrades
  /\ builder.bucket.start # None /\ ~overlapped =>
       builder.bucket.volume = Cardinality(trades)

\* A snapshot of another day or a corrupt timestamp never becomes a bar, not
\* even when it is the first tick or comes twice.
BarsAreCurrent ==
  \A i \in DOMAIN queue : queue[i].start \in BucketStart(Open) .. now

\* Two current ticks in a row confirm the baseline, whatever snapshot or
\* corrupt timestamp came before them, and then a bucket is open, as long as
\* the last price accepted is one of the day and the last time accepted is
\* within the permitted skew of theirs: a lull that is longer shuts the rest
\* of the day out (the note on the baseline in candle_builder.py), and so does
\* a corrupt first price, below.
PriceIsOfToday == \E t \in Today : builder.price = Price(t)

ColdStartRecovers ==
  run # <<>> /\ run[2] = 2 =>
    /\ builder.confirmed
    /\ PriceIsOfToday /\ Agrees(run[1], builder.time) => builder.bucket.start # None

\* Without the condition on the price it does not hold: the very first tick is
\* accepted whatever its price (docs/LIVE_DATA_STRESS_TESTING.md:60-62), and
\* when that was a corrupt one no trade of the day is near it.
NoPriceShutsOut ==
  run # <<>> /\ run[2] = 2 /\ Agrees(run[1], builder.time) => builder.bucket.start # None

\* When the consumer falls behind, it is the oldest bars that are lost: the
\* queue holds the last bars completed, in order, once they are put.  It is
\* what _enqueue_bar promises of the one producer it assumes.
NewestBarsSurvive ==
  ~overlapped /\ (\A r \in Receiver : recv[r].pc \in {"idle", "packet"}) =>
    \A i \in DOMAIN queue : queue[i].id = Len(emitted) - Len(queue) + i

\* The comment on a late tick ("Dropped, never fabricated into either
\* bucket"): a bucket that was completed is not built again, even when two
\* receive threads bring the ticks.  A corrupt price completes a bucket and
\* leaves none open, so after one the next late tick is not late to anything:
\* this holds as long as there was none, on a day whose prices are steady.
ClosedBucketStaysClosed ==
  odd = 0 => \A i, j \in DOMAIN emitted : i < j => emitted[i] < emitted[j]

-----------------------------------------------------------------------------
(* What the theorems about bars suppose of the day and of its odd ticks *)

\* No two trades of the day are further apart than the permitted deviation.
PricesAreSteady == \A t, u \in Today : Near(Price(t), Price(u))

\* Too far from every time of the day to agree with one or to be plausible.
Far(t) == \A u \in Today : Distance(t, u) > MaxSkew /\ Distance(t, u) > MaxReceiptSkew

OddOfToday == {tick \in OddTick : tick.time \in Today}

\* An odd tick is of another day, or has a time of this one.
OddTicksAreForeign == \A tick \in OddTick : tick \in OddOfToday \/ Far(tick.time)

\* A corrupt price that is one is not near to another of the day.
DayTicks == {Trade(t) : t \in Today} \cup OddOfToday

OddPricesAreFar ==
  \A tick \in OddOfToday : tick.price > 0 =>
    \A other \in DayTicks \ {tick} :
      ~Near(other.price, tick.price) /\ ~Near(tick.price, other.price)

\* Like a trade, an odd tick is of one unit.
OddTicksAreUnits == \A tick \in OddTick : tick.volume = 1

\* Two odd ticks with times of today do not follow each other into later
\* buckets: if they could, the second would complete the bucket of the first
\* before its time.
NoTwoAhead ==
  \A tick, later \in OddOfToday :
    tick.price > 0 => BucketStart(later.time) <= BucketStart(tick.time)

=============================================================================
