------------------------------ MODULE FeedProofs ------------------------------
(***************************************************************************)
(* Proofs about the market-data feed, for any number of threads, symbols   *)
(* and connections and any retry budget: its types, that CONNECTED means   *)
(* an opened transport, that no subscription is forgotten, and that the    *)
(* retry budget bounds the dials.                                          *)
(*                                                                         *)
(* The four rest on one inductive invariant, FeedInv.  What the runs look  *)
(* at between callbacks it states at every step: which thread still has to *)
(* send which symbols, which transport a dialling thread is about to       *)
(* connect, and how many dials have been granted and not yet made.         *)
(***************************************************************************)
EXTENDS Feed, TLAPS, FiniteSetTheorems, SequenceTheorems

\* A watcher that works on a reconnect knows that it retries: it never ends the
\* command as a subscribe() that fails does.
RetriesKnown ==
  \A w \in Watcher :
    proc[w].pc \in {"backoff", "dial", "dial_failed"} => proc[w].retries

\* The symbols the polling thread registered and has not settled yet.
Pending ==
  IF proc[Main].pc \in {"registered", "sending"} THEN proc[Main].symbols ELSE {}

Registered ==
  /\ Pending \subseteq subscribed
  /\ \A g \in 1 .. generation : sock[g].todo \subseteq subscribed

\* Every thread about to dial has a transport of its own, not yet connected.
Dialers ==
  /\ \A t \in Thread : At(t, "dial") => proc[t].gen # 0 /\ sock[proc[t].gen].phase = "new"
  /\ \A t, u \in Thread :
       At(t, "dial") /\ At(u, "dial") /\ t # u => proc[t].gen # proc[u].gen

OpenOnce ==
  state = "CONNECTED" => generation # 0 /\ sock[generation].phase \in {"open", "gone"}

\* What a connected feed has not sent, its callback or the polling thread will.
UnderWay ==
  state = "CONNECTED" /\ CanSend =>
    subscribed \subseteq (sent \cup sock[generation].todo \cup Pending)

\* The threads that were granted a dial and have yet to make it.
Grants == {t \in Thread : proc[t].pc \in {"backoff", "connecting"}}

\* Every dial but the first is an attempt of the budget.
Charged == dials + Cardinality(Grants) <= attempts + 1

FeedInv ==
  TypeOK /\ RetriesKnown /\ Registered /\ Dialers /\ OpenOnce /\ UnderWay /\ Charged

-----------------------------------------------------------------------------
(* Lemmas on the two tables, the transports and the threads *)

\* The transports after a step that changes one of them.
LEMMA OneSocket ==
  ASSUME TypeOK, NEW g \in 1 .. generation, NEW s \in Socket,
         sock' = [sock EXCEPT ![g] = s]
  PROVE  /\ sock' \in Seq(Socket) /\ generation' = generation
         /\ \A h \in 1 .. generation : sock'[h] = IF h = g THEN s ELSE sock[h]
<1> DEFINE after == [sock EXCEPT ![g] = s]
<1>1. /\ after \in Seq(Socket) /\ Len(after) = generation
      /\ \A h \in 1 .. generation : after[h] = IF h = g THEN s ELSE sock[h]
  BY ExceptSeq DEF TypeOK, generation
<1>2. sock' = after
  OBVIOUS
<1> HIDE DEF after
<1> QED
  BY <1>1, <1>2 DEF generation

LEMMA SocketFields ==
  ASSUME TypeOK, NEW g \in 1 .. generation
  PROVE  /\ sock[g] \in Socket
         /\ sock[g].phase \in {"new", "dialing", "opening", "open", "gone"}
         /\ sock[g].asked \in BOOLEAN /\ sock[g].todo \in SUBSET Symbol
         /\ generation \in Nat /\ generation \in 1 .. generation
<1>1. sock \in Seq(Socket) /\ generation = Len(sock)
  BY DEF TypeOK, generation
<1>2. sock[g] \in Socket /\ generation \in Nat
  BY <1>1
<1>3. generation \in 1 .. generation
  BY <1>2
<1> QED
  BY <1>2, <1>3 DEF Socket

LEMMA ThreadFields ==
  ASSUME TypeOK, NEW t \in Thread
  PROVE  /\ proc[t] \in Process
         /\ proc[t].pc \in PC /\ proc[t].gen \in 0 .. generation
         /\ proc[t].old \in 0 .. generation
         /\ proc[t].symbols \in SUBSET Symbol /\ proc[t].retries \in BOOLEAN
BY DEF TypeOK, Process

\* The threads after a step of one of them.
LEMMA OneThread ==
  ASSUME TypeOK, NEW t \in Thread, NEW p \in Process, NEW after,
         after = [proc EXCEPT ![t] = p]
  PROVE  /\ after \in [Thread -> Process]
         /\ \A u \in Thread : after[u] = IF u = t THEN p ELSE proc[u]
BY DEF TypeOK

LEMMA FreeIsFree ==
  /\ Free \in Process
  /\ Free.pc = "free" /\ Free.gen = 0 /\ Free.old = 0 /\ Free.symbols = {}
  /\ Free.retries = FALSE
BY DEF Free, Process, PC

\* The threads after reports started on some of them.
LEMMA Reports ==
  ASSUME TypeOK, NEW ts \in SUBSET Thread, NEW g \in 0 .. generation
  PROVE  /\ Reporting(ts, g) \in [Thread -> Process]
         /\ \A u \in Thread \ ts : Reporting(ts, g)[u] = proc[u]
         /\ \A u \in ts : /\ Reporting(ts, g)[u].pc = "lost" /\ Reporting(ts, g)[u].gen = g
                          /\ Reporting(ts, g)[u].old = 0
<1>1. generation \in Nat
  BY DEF TypeOK, generation
<1> DEFINE started == [Free EXCEPT !.pc = "lost", !.gen = g]
<1>2. started \in Process
  <2>1. g \in Nat /\ "lost" \in PC
    BY <1>1 DEF PC
  <2> QED
    BY <2>1, FreeIsFree DEF Process
<1>3. started.pc = "lost" /\ started.gen = g /\ started.old = 0
  BY FreeIsFree DEF Process
<1>4. \A u \in Thread : proc[u] \in Process
  BY DEF TypeOK
<1>5. Reporting(ts, g) = [u \in Thread |-> IF u \in ts THEN started ELSE proc[u]]
  BY Zenon DEF Reporting
<1> HIDE DEF started
<1> QED
  BY <1>2, <1>3, <1>4, <1>5

LEMMA ProgramCounters ==
  /\ {"free", "lost", "backoff", "dial", "dial_failed"} \subseteq PC
  /\ {"registered", "sending", "idle", "connecting", "raised", "shut", "closed"} \subseteq PC
BY DEF PC

LEMMA MainOrWatcher ==
  /\ Main \in Thread /\ Watcher \subseteq Thread /\ Main \notin Watcher
  /\ \A t \in Thread : t # Main => t \in Watcher
BY FeedAssumption DEF Thread

-----------------------------------------------------------------------------
(* What most steps leave alone *)

\* A thread that moves holds no grant, and takes up none of the work the
\* invariant follows.
QuietThreads ==
  \A t \in Thread :
    \/ proc'[t] = proc[t]
    \/ /\ proc[t].pc \notin {"backoff", "connecting"}
       /\ proc'[t].pc \notin {"backoff", "connecting", "dial", "registered", "sending"}
       /\ proc'[t].pc = "dial_failed" => proc'[t].retries

LEMMA QuietKeeps ==
  ASSUME RetriesKnown, QuietThreads
  PROVE  /\ RetriesKnown' /\ Grants' = Grants
         /\ Pending' = Pending \/ (Pending' = {} /\ proc'[Main].pc # proc[Main].pc)
         /\ \A t \in Thread : proc'[t].pc = "dial" => proc'[t] = proc[t]
<1>1. RetriesKnown'
  <2> SUFFICES ASSUME NEW w \in Watcher,
                      proc'[w].pc \in {"backoff", "dial", "dial_failed"}
               PROVE  proc'[w].retries
    BY Zenon DEF RetriesKnown
  <2>1. \/ proc'[w] = proc[w]
        \/ proc'[w].pc = "dial_failed" => proc'[w].retries
    BY MainOrWatcher DEF QuietThreads
  <2>2. proc'[w] = proc[w] \/ proc'[w].pc = "dial_failed"
    BY MainOrWatcher DEF QuietThreads
  <2>3. CASE proc'[w] = proc[w]
    BY <2>3 DEF RetriesKnown
  <2> QED
    BY <2>1, <2>2, <2>3, Zenon
<1>2. Grants' = Grants
  <2>1. \A t \in Thread : proc'[t].pc \in {"backoff", "connecting"}
                            <=> proc[t].pc \in {"backoff", "connecting"}
    BY DEF QuietThreads
  <2> QED
    BY <2>1, Zenon DEF Grants
<1>3. Pending' = Pending \/ (Pending' = {} /\ proc'[Main].pc # proc[Main].pc)
  <2>1. \/ proc'[Main] = proc[Main]
        \/ proc'[Main].pc \notin {"registered", "sending"}
    BY MainOrWatcher DEF QuietThreads
  <2> QED
    BY <2>1 DEF Pending
<1>4. ASSUME NEW t \in Thread, proc'[t].pc = "dial"
      PROVE  proc'[t] = proc[t]
  BY <1>4 DEF QuietThreads
<1> QED
  BY <1>1, <1>2, <1>3, <1>4

LEMMA DialersKept ==
  ASSUME Dialers,
         \A t \in Thread : proc'[t].pc = "dial" =>
           /\ proc[t].pc = "dial" /\ proc'[t].gen = proc[t].gen
           /\ sock'[proc[t].gen].phase = "new"
  PROVE  Dialers'
BY DEF Dialers, At

\* The types of a step that moves threads only as QuietThreads says, or not.
ThreadTypes ==
  /\ proc \in [Thread -> Process]
  /\ \A t \in Thread : proc[t].gen \in 0 .. generation /\ proc[t].old \in 0 .. generation
  /\ \A w \in Watcher : proc[w].pc \in
       {"free", "lost", "backoff", "dial", "dial_failed"}

LEMMA OtherTypes ==
  TypeOK <=>
    /\ state \in DhanConnectionState /\ attempts \in 0 .. MaxReconnectAttempts
    /\ connectedAt \in {"none", "fresh", "stable"} /\ lastMessage \in {"none", "recent", "old"}
    /\ subscribed \subseteq Symbol /\ sock \in Seq(Socket)
    /\ sent \subseteq subscribed /\ timer \in BOOLEAN
    /\ stables \in 0 .. MaxStable /\ dials \in Int
    /\ ThreadTypes
BY Zenon DEF TypeOK, ThreadTypes

LEMMA ReportersAreQuiet ==
  ASSUME TypeOK, NEW ts \in SUBSET FreeWatchers, NEW g \in 0 .. generation,
         proc' = Reporting(ts, g), generation' = generation
  PROVE  QuietThreads /\ ThreadTypes'
<1>1. ts \in SUBSET Thread /\ \A w \in ts : proc[w].pc = "free" /\ w \in Watcher
  BY MainOrWatcher DEF FreeWatchers, At
<1>2. /\ proc' \in [Thread -> Process]
      /\ \A u \in Thread \ ts : proc'[u] = proc[u]
      /\ \A u \in ts : proc'[u].pc = "lost" /\ proc'[u].gen = g /\ proc'[u].old = 0
  BY <1>1, Reports
<1>3. QuietThreads
  BY <1>1, <1>2 DEF QuietThreads
<1>4. generation \in Nat
  BY DEF TypeOK, generation
<1>5. \A u \in Thread : proc'[u].gen \in 0 .. generation /\ proc'[u].old \in 0 .. generation
  <2> SUFFICES ASSUME NEW u \in Thread
               PROVE  proc'[u].gen \in 0 .. generation /\ proc'[u].old \in 0 .. generation
    OBVIOUS
  <2>1. CASE u \in ts
    BY <1>2, <1>4, <2>1
  <2>2. CASE u \notin ts
    BY <1>2, <2>2, ThreadFields
  <2> QED
    BY <2>1, <2>2
<1>6. \A w \in Watcher : proc'[w].pc \in {"free", "lost", "backoff", "dial", "dial_failed"}
  BY <1>1, <1>2, MainOrWatcher DEF TypeOK
<1> QED
  BY <1>2, <1>3, <1>5, <1>6 DEF ThreadTypes

\* A step of the clock or a message, which no transport and no thread notices.
LEMMA TimeKeeps ==
  ASSUME FeedInv,
         UNCHANGED <<state, attempts, subscribed, sock, sent, timer, proc, dials>>,
         connectedAt' \in {"none", "fresh", "stable"},
         lastMessage' \in {"none", "recent", "old"}, stables' \in 0 .. MaxStable
  PROVE  FeedInv'
<1>1. TypeOK'
  BY DEF FeedInv, TypeOK, generation
<1>2. RetriesKnown' /\ Registered' /\ Dialers' /\ OpenOnce'
  BY DEF FeedInv, RetriesKnown, Registered, Pending, Dialers, At, OpenOnce, generation
<1>3. UnderWay' /\ Charged'
  BY DEF FeedInv, UnderWay, CanSend, Pending, Charged, Grants, generation
<1> QED
  BY <1>1, <1>2, <1>3 DEF FeedInv

\* A step of quiet threads only; what they leave pending is done.
LEMMA QuietStepKeeps ==
  ASSUME FeedInv, QuietThreads, ThreadTypes',
         UNCHANGED <<subscribed, sock>>,
         state' = state \/ state' \in DhanConnectionState \ {"CONNECTED"},
         attempts' \in 0 .. MaxReconnectAttempts, dials' \in Int,
         dials' + Cardinality(Grants) <= attempts' + 1,
         connectedAt' \in {"none", "fresh", "stable"},
         lastMessage' \in {"none", "recent", "old"},
         timer' \in BOOLEAN, stables' = stables,
         sent' \subseteq subscribed, sent \subseteq sent',
         Pending' = Pending \/ ~CanSend \/ state # "CONNECTED" \/ Pending \subseteq sent'
  PROVE  FeedInv'
<1>1. TypeOK'
  <2>1. state' \in DhanConnectionState /\ attempts' \in 0 .. MaxReconnectAttempts
        /\ subscribed' \subseteq Symbol /\ sock' \in Seq(Socket)
        /\ sent' \subseteq subscribed'
        /\ stables' \in 0 .. MaxStable /\ dials' \in Int
    BY DEF FeedInv, TypeOK
  <2> QED
    BY <2>1, OtherTypes, Zenon DEF TypeOK, ThreadTypes
<1>2. /\ RetriesKnown' /\ Grants' = Grants
      /\ Pending' = Pending \/ Pending' = {}
      /\ \A t \in Thread : proc'[t].pc = "dial" => proc'[t] = proc[t]
  BY QuietKeeps DEF FeedInv
<1>3. Registered'
  BY <1>2 DEF FeedInv, Registered, generation
<1>4. Dialers'
  <2>1. \A t \in Thread : proc'[t].pc = "dial" =>
           /\ proc[t].pc = "dial" /\ proc'[t].gen = proc[t].gen
           /\ sock'[proc[t].gen].phase = "new"
    BY <1>2 DEF FeedInv, Dialers, At
  <2> QED
    BY <2>1, DialersKept DEF FeedInv
<1>5. OpenOnce'
  BY DEF FeedInv, OpenOnce, generation
<1>6. UnderWay'
  BY <1>2 DEF FeedInv, UnderWay, CanSend, generation
<1>7. Charged'
  BY <1>2 DEF Charged
<1> QED
  BY <1>1, <1>2, <1>3, <1>4, <1>5, <1>6, <1>7 DEF FeedInv

-----------------------------------------------------------------------------
(* The steps that touch no transport *)

LEMMA OnMessageInv ==
  ASSUME FeedInv, NEW g \in 1 .. generation, OnMessage(g)
  PROVE  FeedInv'
<1>1. lastMessage' \in {"none", "recent", "old"}
  BY DEF OnMessage, Heard, FeedInv, TypeOK
<1> QED
  BY <1>1, TimeKeeps DEF OnMessage, FeedInv, TypeOK

LEMMA TimeInv ==
  ASSUME FeedInv, Stabilise \/ FallSilent
  PROVE  FeedInv'
<1>1. stables \in 0 .. MaxStable /\ connectedAt \in {"none", "fresh", "stable"}
      /\ lastMessage \in {"none", "recent", "old"}
  BY DEF FeedInv, TypeOK
<1>2. CASE Stabilise
  <2>1. stables' \in 0 .. MaxStable
    BY <1>1, <1>2, FeedAssumption DEF Stabilise
  <2> QED
    BY <1>1, <1>2, <2>1, TimeKeeps DEF Stabilise
<1>3. CASE FallSilent
  BY <1>1, <1>3, TimeKeeps DEF FallSilent
<1> QED
  BY <1>2, <1>3

\* What a quiet step usually leaves alone.
LEMMA UnchangedCounts ==
  ASSUME FeedInv
  PROVE  /\ dials + Cardinality(Grants) <= attempts + 1 /\ dials \in Int
         /\ attempts \in 0 .. MaxReconnectAttempts /\ timer \in BOOLEAN
         /\ connectedAt \in {"none", "fresh", "stable"}
         /\ lastMessage \in {"none", "recent", "old"}
         /\ sent \subseteq subscribed /\ generation \in Nat
BY DEF FeedInv, Charged, TypeOK, generation

\* A report on other threads leaves the polling thread where it is.
LEMMA ReportsLeaveMain ==
  ASSUME TypeOK, NEW ts \in SUBSET FreeWatchers, NEW g \in 0 .. generation,
         proc' = Reporting(ts, g)
  PROVE  proc'[Main] = proc[Main] /\ Pending' = Pending
<1>1. ts \in SUBSET Thread /\ Main \in Thread \ ts
  BY MainOrWatcher DEF FreeWatchers
<1>2. proc'[Main] = proc[Main]
  BY <1>1, Reports
<1> QED
  BY <1>2 DEF Pending

LEMMA OnDisconnectPacketInv ==
  ASSUME FeedInv, NEW g \in 1 .. generation, OnDisconnectPacket(g)
  PROVE  FeedInv'
<1>1. PICK w \in FreeWatchers : proc' = Reporting({w}, 0)
  BY Zenon DEF OnDisconnectPacket
<1>2. UNCHANGED <<state, attempts, connectedAt, subscribed, sent, sock, timer, stables, dials>>
  BY Zenon DEF OnDisconnectPacket
<1>3. lastMessage' \in {"none", "recent", "old"}
  BY UnchangedCounts DEF OnDisconnectPacket, Heard
<1>4. 0 \in 0 .. generation /\ {w} \in SUBSET FreeWatchers
  BY UnchangedCounts
<1>5. QuietThreads /\ ThreadTypes'
  BY <1>1, <1>2, <1>4, ReportersAreQuiet DEF FeedInv, generation
<1>6. Pending' = Pending
  BY <1>1, <1>4, ReportsLeaveMain DEF FeedInv
<1> QED
  BY <1>2, <1>3, <1>5, <1>6, UnchangedCounts, QuietStepKeeps

LEMMA OnConnectTimeoutInv ==
  ASSUME FeedInv, OnConnectTimeout
  PROVE  FeedInv'
<1>1. PICK w \in FreeWatchers : proc' = Reporting({w}, generation)
  BY Zenon DEF OnConnectTimeout
<1>2. UNCHANGED <<state, attempts, connectedAt, lastMessage, subscribed, sent, sock, stables, dials>>
      /\ timer' = FALSE
  BY Zenon DEF OnConnectTimeout
<1>4. generation \in 0 .. generation /\ {w} \in SUBSET FreeWatchers
  BY UnchangedCounts
<1>5. QuietThreads /\ ThreadTypes'
  BY <1>1, <1>2, <1>4, ReportersAreQuiet DEF FeedInv, generation
<1>6. Pending' = Pending
  BY <1>1, <1>4, ReportsLeaveMain DEF FeedInv
<1> QED
  BY <1>2, <1>5, <1>6, UnchangedCounts, QuietStepKeeps

-----------------------------------------------------------------------------
(* The steps of one thread that touch no transport *)

\* A thread may be here with these fields.
Placed(t, p) ==
  /\ p \in Process /\ p.gen \in 0 .. generation /\ p.old \in 0 .. generation
  /\ t \in Watcher => p.pc \in {"free", "lost", "backoff", "dial", "dial_failed"}

LEMMA PlacedTypes ==
  ASSUME TypeOK, NEW t \in Thread, NEW p, Placed(t, p), generation' = generation,
         proc' = [proc EXCEPT ![t] = p]
  PROVE  /\ ThreadTypes'
         /\ \A u \in Thread : proc'[u] = IF u = t THEN p ELSE proc[u]
         /\ t # Main => Pending' = Pending
<1>0. p \in Process
  BY DEF Placed
<1>1. /\ proc' \in [Thread -> Process]
      /\ \A u \in Thread : proc'[u] = IF u = t THEN p ELSE proc[u]
  BY <1>0, OneThread
<1>2. \A u \in Thread : proc'[u].gen \in 0 .. generation /\ proc'[u].old \in 0 .. generation
  BY <1>1 DEF Placed, TypeOK
<1>3. \A w \in Watcher : proc'[w].pc \in {"free", "lost", "backoff", "dial", "dial_failed"}
  BY <1>1, MainOrWatcher DEF Placed, TypeOK
<1>4. t # Main => Pending' = Pending
  BY <1>1, MainOrWatcher DEF Pending
<1> QED
  BY <1>1, <1>2, <1>3, <1>4 DEF ThreadTypes

\* A thread that held no grant and takes none.
LEMMA OneThreadIsQuiet ==
  ASSUME TypeOK, NEW t \in Thread, NEW p, Placed(t, p), generation' = generation,
         proc' = [proc EXCEPT ![t] = p],
         proc[t].pc \notin {"backoff", "connecting"},
         p.pc \notin {"backoff", "connecting", "dial", "registered", "sending"},
         p.pc = "dial_failed" => p.retries
  PROVE  QuietThreads /\ ThreadTypes' /\ (t # Main => Pending' = Pending)
<1>1. /\ ThreadTypes'
      /\ \A u \in Thread : proc'[u] = IF u = t THEN p ELSE proc[u]
      /\ t # Main => Pending' = Pending
  BY PlacedTypes
<1>2. QuietThreads
  BY <1>1 DEF QuietThreads
<1> QED
  BY <1>1, <1>2

\* A thread that returns, or ends, is well placed.
LEMMA FreeIsPlaced ==
  ASSUME TypeOK, NEW t \in Thread
  PROVE  Placed(t, Free) /\ Free.pc = "free"
<1>1. 0 \in 0 .. generation
  BY DEF TypeOK, generation
<1> QED
  BY <1>1, FreeIsFree DEF Placed

\* The grants are counted one by one.
LEMMA GrantsAreFinite ==
  /\ IsFiniteSet(Grants) /\ Cardinality(Grants) \in Nat
  /\ \A t : t \notin Grants => Cardinality(Grants \cup {t}) = Cardinality(Grants) + 1
  /\ \A t \in Grants : Cardinality(Grants \ {t}) = Cardinality(Grants) - 1
<1>1. IsFiniteSet(Thread)
  BY FeedAssumption, FS_AddElement DEF Thread
<1>2. IsFiniteSet(Grants)
  BY <1>1, FS_Subset DEF Grants
<1> QED
  BY <1>2, FS_CardinalityType, FS_AddElement, FS_RemoveElement

LEMMA GrantedIsOthers ==
  ASSUME NEW t \in Thread
  PROVE  Granted(t) = Cardinality(Grants \ {t})
<1>1. {u \in Thread \ {t} : proc[u].pc \in {"backoff", "connecting"}} = Grants \ {t}
  BY Zenon DEF Grants
<1> QED
  BY <1>1, Zenon DEF Granted

\* A thread is granted a dial, which the budget is charged for.
LEMMA GrantKeeps ==
  ASSUME FeedInv, NEW t \in Thread, NEW p, Placed(t, p),
         proc' = [proc EXCEPT ![t] = p],
         proc[t].pc \notin {"backoff", "connecting"},
         p.pc \in {"backoff", "connecting"}, t \in Watcher => p.retries,
         UNCHANGED <<subscribed, sock, sent, stables>>,
         \/ state' = state /\ (state = "CONNECTED" => Pending' = Pending)
         \/ state' \in DhanConnectionState \ {"CONNECTED"},
         attempts' \in 0 .. MaxReconnectAttempts, dials' \in Int,
         dials' + Cardinality(Grants) <= attempts',
         connectedAt' \in {"none", "fresh", "stable"},
         lastMessage' \in {"none", "recent", "old"}, timer' \in BOOLEAN
  PROVE  FeedInv'
<1>0. generation' = generation
  BY DEF generation
<1>1. /\ ThreadTypes'
      /\ \A u \in Thread : proc'[u] = IF u = t THEN p ELSE proc[u]
      /\ t # Main => Pending' = Pending
  BY <1>0, PlacedTypes DEF FeedInv
<1>2. TypeOK'
  <2>1. state' \in DhanConnectionState
        /\ subscribed' \subseteq Symbol /\ sock' \in Seq(Socket)
        /\ sent' \subseteq subscribed' /\ stables' \in 0 .. MaxStable
    BY DEF FeedInv, TypeOK
  <2> QED
    BY <1>1, <2>1, Zenon DEF TypeOK, ThreadTypes
<1>3. RetriesKnown'
  BY <1>1, MainOrWatcher DEF FeedInv, RetriesKnown
<1>4. Pending' = Pending \/ Pending' = {}
  BY <1>1 DEF Pending
<1>5. Registered'
  BY <1>0, <1>4 DEF FeedInv, Registered
<1>6. Dialers'
  <2>1. \A u \in Thread : proc'[u].pc = "dial" =>
           /\ proc[u].pc = "dial" /\ proc'[u].gen = proc[u].gen
           /\ sock'[proc[u].gen].phase = "new"
    BY <1>1 DEF FeedInv, Dialers, At
  <2> QED
    BY <2>1, DialersKept DEF FeedInv
<1>7. OpenOnce' /\ UnderWay'
  BY <1>0 DEF FeedInv, OpenOnce, UnderWay, CanSend
<1>8. Charged'
  <2>1. Grants' = Grants \cup {t} /\ t \notin Grants
    BY <1>1 DEF Grants
  <2>2. Cardinality(Grants)' = Cardinality(Grants) + 1
    BY <2>1, GrantsAreFinite
  <2>3. attempts' \in Int /\ Cardinality(Grants) \in Nat
    BY GrantsAreFinite
  <2> QED
    BY <2>2, <2>3 DEF Charged
<1> QED
  BY <1>2, <1>3, <1>5, <1>6, <1>7, <1>8 DEF FeedInv

\* A report: refused, or the budget decides.
LEMMA ReportConnectionLostInv ==
  ASSUME FeedInv, NEW t \in Thread, ReportConnectionLost(t)
  PROVE  FeedInv'
<1>0. generation' = generation /\ TypeOK
  BY Zenon DEF ReportConnectionLost, Reported, generation, FeedInv
<1>1. proc[t].pc = "lost" /\ UNCHANGED <<subscribed, sent, sock, stables>>
  BY Zenon DEF ReportConnectionLost, Reported, At
<1>3. ASSUME Return(t)
      PROVE  QuietThreads /\ ThreadTypes' /\ Pending' = Pending
  <2>1. proc' = [proc EXCEPT ![t] = Free]
    BY <1>3, Zenon DEF Return
  <2>2. Placed(t, Free) /\ Free.pc = "free"
    BY <1>0, FreeIsPlaced
  <2>3. QuietThreads /\ ThreadTypes' /\ (t # Main => Pending' = Pending)
    BY <1>0, <1>1, <2>1, <2>2, OneThreadIsQuiet
  <2>4. t = Main => Pending' = Pending
    BY <1>0, <1>1, <2>1, <2>2, MainOrWatcher, FreeIsFree, OneThread DEF Pending
  <2> QED
    BY <2>3, <2>4
<1>4. CASE /\ Return(t)
           /\ UNCHANGED <<state, attempts, connectedAt, lastMessage, timer, dials>>
  BY <1>1, <1>3, <1>4, UnchangedCounts, QuietStepKeeps
<1>5. CASE Claim(t)
  <2> DEFINE n == IF connectedAt = "stable" THEN 0 ELSE attempts
  <2>1. /\ connectedAt' = "none" /\ lastMessage' = "none" /\ timer' = FALSE
        /\ dials' = IF connectedAt = "stable" THEN -Granted(t) ELSE dials
    BY <1>5, Zenon DEF Claim
  <2>2. \/ n >= MaxReconnectAttempts /\ state' = "FAILED" /\ attempts' = n /\ Return(t)
        \/ /\ ~(n >= MaxReconnectAttempts) /\ state' = "RECONNECTING" /\ attempts' = n + 1
           /\ proc' = [proc EXCEPT ![t] = [Free EXCEPT !.pc = "backoff", !.retries = TRUE]]
    BY <1>5, Zenon DEF Claim
  <2>3. Granted(t) = Cardinality(Grants) /\ Cardinality(Grants) \in Nat
    <3>1. Grants \ {t} = Grants
      BY <1>1 DEF Grants
    <3> QED
      BY <3>1, GrantedIsOthers, GrantsAreFinite
  <2>4. n \in 0 .. MaxReconnectAttempts /\ dials' \in Int
        /\ dials' + Cardinality(Grants) <= n + 1
    <3>1. CASE connectedAt = "stable"
      BY <2>1, <2>3, <3>1, FeedAssumption
    <3>2. CASE connectedAt # "stable"
      BY <2>1, <2>3, <3>2, UnchangedCounts
    <3> QED
      BY <3>1, <3>2
  <2> HIDE DEF n
  <2>5. CASE n >= MaxReconnectAttempts /\ state' = "FAILED" /\ attempts' = n /\ Return(t)
    <3>1. state' \in DhanConnectionState \ {"CONNECTED"}
      BY <2>5 DEF DhanConnectionState
    <3> QED
      BY <1>1, <1>3, <2>1, <2>4, <2>5, <3>1, UnchangedCounts, QuietStepKeeps
  <2>6. CASE /\ ~(n >= MaxReconnectAttempts) /\ state' = "RECONNECTING" /\ attempts' = n + 1
             /\ proc' = [proc EXCEPT ![t] = [Free EXCEPT !.pc = "backoff", !.retries = TRUE]]
    <3> DEFINE p == [Free EXCEPT !.pc = "backoff", !.retries = TRUE]
    <3>1. state' \in DhanConnectionState \ {"CONNECTED"}
      BY <2>6 DEF DhanConnectionState
    <3>2. attempts' \in 0 .. MaxReconnectAttempts
      BY <2>4, <2>6, FeedAssumption
    <3>3. p \in Process
      BY FreeIsFree, ProgramCounters DEF Process
    <3>4. p.pc = "backoff" /\ p.retries = TRUE /\ p.gen = 0 /\ p.old = 0
      BY FreeIsFree DEF Process
    <3>5. Placed(t, p)
      BY <3>3, <3>4, UnchangedCounts DEF Placed
    <3>6. dials' + Cardinality(Grants) <= attempts'
      <4>1. n \in Int /\ dials' \in Int /\ Cardinality(Grants) \in Int
        BY <2>3, <2>4
      <4>2. dials' + Cardinality(Grants) <= n + 1 /\ attempts' = n + 1
        BY <2>4, <2>6
      <4> QED
        BY <4>1, <4>2
    <3>7. proc' = [proc EXCEPT ![t] = p]
      BY <2>6
    <3> HIDE DEF p
    <3> QED
      BY <1>1, <2>1, <2>4, <3>1, <3>2, <3>4, <3>5, <3>6, <3>7, GrantKeeps
  <2> QED
    BY <2>2, <2>5, <2>6
<1> QED
  BY <1>4, <1>5, Zenon DEF ReportConnectionLost, Reported

\* A thread that was going neither to dial nor to subscribe returns.
LEMMA ReturnIsQuiet ==
  ASSUME TypeOK, NEW t \in Thread, Return(t), generation' = generation,
         proc[t].pc \notin {"backoff", "connecting"}
  PROVE  /\ QuietThreads /\ ThreadTypes'
         /\ proc[t].pc \notin {"registered", "sending"} => Pending' = Pending
<1>1. proc' = [proc EXCEPT ![t] = Free]
  BY Zenon DEF Return
<1>2. Placed(t, Free) /\ Free.pc = "free"
  BY FreeIsPlaced
<1>3. QuietThreads /\ ThreadTypes' /\ (t # Main => Pending' = Pending)
  BY <1>1, <1>2, OneThreadIsQuiet
<1>4. t = Main /\ proc[t].pc \notin {"registered", "sending"} => Pending' = Pending
  BY <1>1, <1>2, MainOrWatcher, FreeIsFree, OneThread DEF Pending
<1> QED
  BY <1>3, <1>4

LEMMA RetryReconnectInv ==
  ASSUME FeedInv, NEW t \in Thread, RetryReconnect(t)
  PROVE  FeedInv'
<1>0. generation' = generation /\ TypeOK
  BY Zenon DEF RetryReconnect, generation, FeedInv
<1>1. /\ proc[t].pc = "dial_failed"
      /\ UNCHANGED <<connectedAt, lastMessage, subscribed, sent, sock, timer, stables, dials>>
  BY Zenon DEF RetryReconnect, At
<1>2. CASE attempts >= MaxReconnectAttempts
  <2>1. state' = "FAILED" /\ Return(t) /\ attempts' = attempts
    BY <1>2, Zenon DEF RetryReconnect
  <2>2. QuietThreads /\ ThreadTypes' /\ Pending' = Pending
    BY <1>0, <1>1, <2>1, ReturnIsQuiet
  <2>3. state' \in DhanConnectionState \ {"CONNECTED"}
    BY <2>1 DEF DhanConnectionState
  <2> QED
    BY <1>1, <2>1, <2>2, <2>3, UnchangedCounts, QuietStepKeeps
<1>3. CASE ~(attempts >= MaxReconnectAttempts)
  <2>1. attempts' = attempts + 1 /\ Goto(t, "backoff") /\ state' = state
    BY <1>3, Zenon DEF RetryReconnect
  <2> DEFINE p == [proc[t] EXCEPT !.pc = "backoff"]
  <2>2. proc' = [proc EXCEPT ![t] = p]
    BY <2>1, Zenon DEF Goto
  <2>3. p \in Process
    BY <1>0, ThreadFields, ProgramCounters DEF Process
  <2>4. /\ p.pc = "backoff" /\ p.gen = proc[t].gen /\ p.old = proc[t].old
        /\ p.retries = proc[t].retries
    BY <1>0, ThreadFields DEF Process
  <2>5. Placed(t, p)
    BY <1>0, <2>3, <2>4, ThreadFields DEF Placed
  <2>6. t \in Watcher => p.retries
    BY <1>1, <2>4 DEF FeedInv, RetriesKnown
  <2>7. attempts' \in 0 .. MaxReconnectAttempts
    BY <1>3, <2>1, UnchangedCounts, FeedAssumption
  <2>8. dials' + Cardinality(Grants) <= attempts'
    BY <1>1, <2>1, UnchangedCounts
  <2> HIDE DEF p
  <2>9. Pending' = Pending
    <3>1. \A u \in Thread : proc'[u] = IF u = t THEN p ELSE proc[u]
      BY <1>0, <2>2, <2>3, OneThread
    <3> QED
      BY <1>1, <2>4, <3>1, MainOrWatcher DEF Pending
  <2> QED
    BY <1>1, <2>1, <2>2, <2>4, <2>5, <2>6, <2>7, <2>8, <2>9, UnchangedCounts, GrantKeeps
<1> QED
  BY <1>2, <1>3

LEMMA SubscribeInv ==
  ASSUME FeedInv, Subscribe
  PROVE  FeedInv'
<1>0. generation' = generation /\ TypeOK
  BY Zenon DEF Subscribe, generation, FeedInv
<1>1. /\ proc[Main].pc = "registered" /\ Main \in Thread /\ Main \notin Watcher
      /\ UNCHANGED <<state, lastMessage, subscribed, sent, sock, timer, stables>>
  BY MainOrWatcher, Zenon DEF Subscribe, At
<1>2. CASE state \in {"DISCONNECTED", "FAILED"}
  <2>1. /\ attempts' = 0 /\ connectedAt' = "none" /\ dials' = -Granted(Main)
        /\ proc' = [proc EXCEPT ![Main] = [Free EXCEPT !.pc = "connecting"]]
    BY <1>2, Zenon DEF Subscribe
  <2>2. Granted(Main) = Cardinality(Grants) /\ Cardinality(Grants) \in Nat
    <3>1. Grants \ {Main} = Grants
      BY <1>1 DEF Grants
    <3> QED
      BY <1>1, <3>1, GrantedIsOthers, GrantsAreFinite
  <2> DEFINE p == [Free EXCEPT !.pc = "connecting"]
  <2>3. p \in Process
    BY FreeIsFree, ProgramCounters DEF Process
  <2>4. p.pc = "connecting" /\ p.gen = 0 /\ p.old = 0
    BY FreeIsFree DEF Process
  <2>5. Placed(Main, p)
    BY <1>1, <2>3, <2>4, UnchangedCounts DEF Placed
  <2>6. /\ attempts' \in 0 .. MaxReconnectAttempts /\ dials' \in Int
        /\ dials' + Cardinality(Grants) <= attempts'
    BY <2>1, <2>2, FeedAssumption
  <2>7. proc' = [proc EXCEPT ![Main] = p]
    BY <2>1
  <2> HIDE DEF p
  <2> QED
    BY <1>1, <1>2, <2>1, <2>4, <2>5, <2>6, <2>7, UnchangedCounts, GrantKeeps
<1>3. CASE state \notin {"DISCONNECTED", "FAILED"} /\ state = "CONNECTED"
  <2>1. attempts' = attempts /\ connectedAt' = connectedAt /\ dials' = dials
        /\ Goto(Main, "sending")
    BY <1>3, Zenon DEF Subscribe
  <2> DEFINE p == [proc[Main] EXCEPT !.pc = "sending"]
  <2>2. proc' = [proc EXCEPT ![Main] = p]
    BY <2>1, Zenon DEF Goto
  <2>3. p \in Process
    BY <1>0, <1>1, ThreadFields, ProgramCounters DEF Process
  <2>4. p.pc = "sending" /\ p.gen = proc[Main].gen /\ p.old = proc[Main].old
        /\ p.symbols = proc[Main].symbols
    BY <1>0, <1>1, ThreadFields DEF Process
  <2>5. Placed(Main, p)
    BY <1>0, <1>1, <2>3, <2>4, ThreadFields DEF Placed
  <2> HIDE DEF p
  <2>6. ThreadTypes' /\ \A u \in Thread : proc'[u] = IF u = Main THEN p ELSE proc[u]
    BY <1>0, <1>1, <2>2, <2>5, PlacedTypes
  <2>7. Pending' = Pending /\ Grants' = Grants
    BY <1>1, <2>4, <2>6 DEF Pending, Grants
  <2>8. TypeOK'
    <3>1. attempts' \in 0 .. MaxReconnectAttempts /\ dials' \in Int
          /\ state' \in DhanConnectionState /\ connectedAt' \in {"none", "fresh", "stable"}
          /\ lastMessage' \in {"none", "recent", "old"} /\ timer' \in BOOLEAN
          /\ subscribed' \subseteq Symbol /\ sock' \in Seq(Socket)
          /\ sent' \subseteq subscribed' /\ stables' \in 0 .. MaxStable
      BY <1>1, <2>1 DEF FeedInv, TypeOK
    <3> QED
      BY <2>6, <3>1, Zenon DEF TypeOK, ThreadTypes
  <2>9. RetriesKnown'
    BY <1>1, <2>6, MainOrWatcher DEF FeedInv, RetriesKnown
  <2>10. Dialers'
    <3>1. \A u \in Thread : proc'[u].pc = "dial" =>
             /\ proc[u].pc = "dial" /\ proc'[u].gen = proc[u].gen
             /\ sock'[proc[u].gen].phase = "new"
      BY <1>1, <2>4, <2>6 DEF FeedInv, Dialers, At
    <3> QED
      BY <3>1, DialersKept DEF FeedInv
  <2>11. Registered' /\ OpenOnce' /\ UnderWay' /\ Charged'
    BY <1>0, <1>1, <2>1, <2>7
       DEF FeedInv, Registered, OpenOnce, UnderWay, CanSend, Charged
  <2> QED
    BY <2>8, <2>9, <2>10, <2>11 DEF FeedInv
<1>4. CASE state \notin {"DISCONNECTED", "FAILED"} /\ state # "CONNECTED"
  <2>1. attempts' = attempts /\ connectedAt' = connectedAt /\ dials' = dials /\ Return(Main)
    BY <1>4, Zenon DEF Subscribe
  <2>2. QuietThreads /\ ThreadTypes'
    BY <1>0, <1>1, <2>1, ReturnIsQuiet
  <2> QED
    BY <1>1, <1>4, <2>1, <2>2, UnchangedCounts, QuietStepKeeps
<1> QED
  BY <1>2, <1>3, <1>4

LEMMA RegisterInv ==
  ASSUME FeedInv, NEW symbols \in SUBSET Symbol, Register(symbols)
  PROVE  FeedInv'
<1>0. generation' = generation /\ TypeOK
  BY Zenon DEF Register, generation, FeedInv
<1>1. /\ proc[Main].pc = "free" /\ Main \in Thread /\ Main \notin Watcher
      /\ subscribed' = subscribed \cup symbols
      /\ UNCHANGED <<state, attempts, connectedAt, lastMessage, sent, sock, timer, stables, dials>>
  BY MainOrWatcher, Zenon DEF Register, At
<1> DEFINE p == [proc[Main] EXCEPT !.pc = "registered", !.symbols = symbols]
<1>2. proc' = [proc EXCEPT ![Main] = p]
  BY Zenon DEF Register
<1>3. p \in Process
  BY <1>0, <1>1, ThreadFields, ProgramCounters DEF Process
<1>4. p.pc = "registered" /\ p.gen = proc[Main].gen /\ p.old = proc[Main].old
      /\ p.symbols = symbols
  BY <1>0, <1>1, ThreadFields DEF Process
<1>5. Placed(Main, p)
  BY <1>0, <1>1, <1>3, <1>4, ThreadFields DEF Placed
<1> HIDE DEF p
<1>6. ThreadTypes' /\ \A u \in Thread : proc'[u] = IF u = Main THEN p ELSE proc[u]
  BY <1>0, <1>1, <1>2, <1>5, PlacedTypes
<1>7. Pending = {} /\ Pending' = symbols /\ Grants' = Grants
  BY <1>1, <1>4, <1>6 DEF Pending, Grants
<1>8. TypeOK'
  <2>1. attempts' \in 0 .. MaxReconnectAttempts /\ dials' \in Int
        /\ state' \in DhanConnectionState /\ connectedAt' \in {"none", "fresh", "stable"}
        /\ lastMessage' \in {"none", "recent", "old"} /\ timer' \in BOOLEAN
        /\ subscribed' \subseteq Symbol /\ sock' \in Seq(Socket)
        /\ sent' \subseteq subscribed' /\ stables' \in 0 .. MaxStable
    BY <1>1 DEF FeedInv, TypeOK
  <2> QED
    BY <1>6, <2>1, Zenon DEF TypeOK, ThreadTypes
<1>9. RetriesKnown'
  BY <1>1, <1>6, MainOrWatcher DEF FeedInv, RetriesKnown
<1>10. Dialers'
  <2>1. \A u \in Thread : proc'[u].pc = "dial" =>
           /\ proc[u].pc = "dial" /\ proc'[u].gen = proc[u].gen
           /\ sock'[proc[u].gen].phase = "new"
    BY <1>1, <1>4, <1>6 DEF FeedInv, Dialers, At
  <2> QED
    BY <2>1, DialersKept DEF FeedInv
<1>11. Registered' /\ OpenOnce' /\ Charged'
  BY <1>0, <1>1, <1>7 DEF FeedInv, Registered, OpenOnce, Charged
<1>12. UnderWay'
  BY <1>0, <1>1, <1>7 DEF FeedInv, UnderWay, CanSend
<1> QED
  BY <1>8, <1>9, <1>10, <1>11, <1>12 DEF FeedInv

LEMMA SendSubscribeInv ==
  ASSUME FeedInv, SendSubscribe
  PROVE  FeedInv'
<1>0. generation' = generation /\ TypeOK
  BY Zenon DEF SendSubscribe, generation, FeedInv
<1>1. /\ proc[Main].pc = "sending" /\ Main \in Thread
      /\ UNCHANGED <<state, attempts, connectedAt, lastMessage, subscribed, sock, timer, stables, dials>>
  BY MainOrWatcher, Zenon DEF SendSubscribe, At
<1>2. Pending = proc[Main].symbols /\ Pending \subseteq subscribed
  BY <1>1 DEF Pending, FeedInv, Registered
<1>3. CASE CanSend
  <2>1. sent' = sent \cup proc[Main].symbols /\ Return(Main)
    BY <1>3, Zenon DEF SendSubscribe
  <2>2. QuietThreads /\ ThreadTypes'
    BY <1>0, <1>1, <2>1, ReturnIsQuiet
  <2>3. sent' \subseteq subscribed /\ sent \subseteq sent' /\ Pending \subseteq sent'
    BY <1>2, <2>1, UnchangedCounts
  <2> QED
    BY <1>1, <2>2, <2>3, UnchangedCounts, QuietStepKeeps
<1>4. CASE ~CanSend
  <2>1. proc' = Reporting({Main}, 0) /\ sent' = sent
    BY <1>4, Zenon DEF SendSubscribe
  <2>2. 0 \in 0 .. generation
    BY UnchangedCounts
  <2>3. /\ proc' \in [Thread -> Process]
        /\ \A u \in Thread \ {Main} : proc'[u] = proc[u]
        /\ proc'[Main].pc = "lost" /\ proc'[Main].gen = 0 /\ proc'[Main].old = 0
    BY <1>0, <1>1, <2>1, <2>2, Reports
  <2>4. QuietThreads
    BY <1>1, <2>3 DEF QuietThreads
  <2>5. ThreadTypes'
    BY <1>0, <2>2, <2>3, MainOrWatcher DEF ThreadTypes, TypeOK
  <2> QED
    BY <1>1, <1>4, <2>1, <2>4, <2>5, UnchangedCounts, QuietStepKeeps
<1> QED
  BY <1>3, <1>4

LEMMA IdleCheckInv ==
  ASSUME FeedInv, IdleCheck
  PROVE  FeedInv'
<1>0. generation' = generation /\ TypeOK
  BY Zenon DEF IdleCheck, IdleSeen, generation, FeedInv
<1>1. /\ proc[Main].pc = "free" /\ Main \in Thread /\ Main \notin Watcher
      /\ UNCHANGED <<state, attempts, connectedAt, lastMessage, subscribed, sent, sock, timer,
                     stables, dials>>
  BY MainOrWatcher, Zenon DEF IdleCheck, IdleSeen, At
<1> DEFINE p == [proc[Main] EXCEPT !.pc = "idle"]
<1>2. proc' = [proc EXCEPT ![Main] = p]
  BY Zenon DEF IdleCheck, IdleSeen, Goto
<1>3. p \in Process
  BY <1>0, <1>1, ThreadFields, ProgramCounters DEF Process
<1>4. p.pc = "idle" /\ p.gen = proc[Main].gen /\ p.old = proc[Main].old
  BY <1>0, <1>1, ThreadFields DEF Process
<1>5. Placed(Main, p)
  BY <1>0, <1>1, <1>3, <1>4, ThreadFields DEF Placed
<1> HIDE DEF p
<1>6. QuietThreads /\ ThreadTypes'
  BY <1>0, <1>1, <1>2, <1>4, <1>5, OneThreadIsQuiet
<1>7. Pending' = Pending
  BY <1>0, <1>1, <1>2, <1>3, <1>4, OneThread DEF Pending
<1> QED
  BY <1>1, <1>6, <1>7, UnchangedCounts, QuietStepKeeps

LEMMA IdleReportInv ==
  ASSUME FeedInv, IdleReport
  PROVE  FeedInv'
<1>0. generation' = generation /\ TypeOK
  BY Zenon DEF IdleReport, generation, FeedInv
<1>1. /\ proc[Main].pc = "idle" /\ Main \in Thread
      /\ UNCHANGED <<state, attempts, connectedAt, lastMessage, subscribed, sent, sock, timer,
                     stables, dials>>
  BY MainOrWatcher, Zenon DEF IdleReport, At
<1>2. PICK w \in FreeWatchers : proc' = [Reporting({w}, generation) EXCEPT ![Main] = Free]
  BY Zenon DEF IdleReport
<1>3. w \in Thread /\ w \in Watcher /\ proc[w].pc = "free" /\ w # Main
      /\ generation \in 0 .. generation
  BY MainOrWatcher, UnchangedCounts DEF FreeWatchers, At
<1>4. /\ Reporting({w}, generation) \in [Thread -> Process]
      /\ \A u \in Thread \ {w} : Reporting({w}, generation)[u] = proc[u]
      /\ Reporting({w}, generation)[w].pc = "lost"
      /\ Reporting({w}, generation)[w].gen = generation
      /\ Reporting({w}, generation)[w].old = 0
  BY <1>0, <1>3, Reports
<1>5. /\ proc' \in [Thread -> Process]
      /\ \A u \in Thread \ {w, Main} : proc'[u] = proc[u]
      /\ proc'[w].pc = "lost" /\ proc'[w].gen = generation /\ proc'[w].old = 0
      /\ proc'[Main] = Free
  <2> DEFINE q == Reporting({w}, generation)
  <2>1. q \in [Thread -> Process] /\ proc' = [q EXCEPT ![Main] = Free]
    BY <1>2, <1>4
  <2> HIDE DEF q
  <2>2. /\ proc' \in [Thread -> Process] /\ proc'[Main] = Free
        /\ \A u \in Thread \ {Main} : proc'[u] = q[u]
    BY <1>1, <2>1, FreeIsFree
  <2> QED
    BY <1>3, <1>4, <2>2 DEF q
<1>6. QuietThreads
  BY <1>1, <1>3, <1>5, FreeIsFree DEF QuietThreads
<1>7. ThreadTypes'
  <2>1. 0 \in 0 .. generation
    BY UnchangedCounts
  <2> QED
    BY <1>0, <1>3, <1>5, <2>1, FreeIsFree, MainOrWatcher DEF ThreadTypes, TypeOK
<1>8. Pending' = Pending
  BY <1>1, <1>5, FreeIsFree DEF Pending
<1> QED
  BY <1>1, <1>6, <1>7, <1>8, UnchangedCounts, QuietStepKeeps

LEMMA CloseInv ==
  ASSUME FeedInv, Close
  PROVE  FeedInv'
<1>0. generation' = generation /\ TypeOK
  BY Zenon DEF Close, generation, FeedInv
<1>1. /\ proc[Main].pc = "free" /\ Main \in Thread /\ Main \notin Watcher
      /\ state' = "CLOSED" /\ lastMessage' = "none" /\ timer' = FALSE
      /\ UNCHANGED <<attempts, connectedAt, subscribed, sent, sock, stables, dials>>
  BY MainOrWatcher, Zenon DEF Close, At
<1> DEFINE p == [proc[Main] EXCEPT !.pc = "shut", !.old = generation]
<1>2. proc' = [proc EXCEPT ![Main] = p]
  BY Zenon DEF Close
<1>3. p \in Process
  BY <1>0, <1>1, ThreadFields, ProgramCounters, UnchangedCounts DEF Process
<1>4. p.pc = "shut" /\ p.gen = proc[Main].gen /\ p.old = generation
  BY <1>0, <1>1, ThreadFields DEF Process
<1>5. Placed(Main, p)
  BY <1>0, <1>1, <1>3, <1>4, ThreadFields, UnchangedCounts DEF Placed
<1> HIDE DEF p
<1>6. QuietThreads /\ ThreadTypes'
  BY <1>0, <1>1, <1>2, <1>4, <1>5, OneThreadIsQuiet
<1>7. Pending' = Pending
  BY <1>0, <1>1, <1>2, <1>3, <1>4, OneThread DEF Pending
<1>8. state' \in DhanConnectionState \ {"CONNECTED"}
  BY <1>1 DEF DhanConnectionState
<1> QED
  BY <1>1, <1>6, <1>7, <1>8, UnchangedCounts, QuietStepKeeps

-----------------------------------------------------------------------------
(* The steps of the transports *)

\* A step of the transports and of quiet threads: what is left is which
\* transport is open, and what is still to be sent on it.
LEMMA TransportStepKeeps ==
  ASSUME FeedInv, QuietThreads, ThreadTypes',
         sock' \in Seq(Socket), generation' = generation,
         UNCHANGED <<attempts, subscribed, stables, dials>>,
         state' \in DhanConnectionState, sent' \subseteq subscribed,
         connectedAt' \in {"none", "fresh", "stable"},
         lastMessage' \in {"none", "recent", "old"}, timer' \in BOOLEAN,
         \A h \in 1 .. generation : sock'[h].todo \subseteq subscribed,
         \A t \in Thread : proc[t].pc = "dial" /\ proc'[t] = proc[t] =>
           sock'[proc[t].gen].phase = "new",
         OpenOnce', UnderWay'
  PROVE  FeedInv'
<1>1. TypeOK'
  <2>1. attempts' \in 0 .. MaxReconnectAttempts /\ subscribed' \subseteq Symbol
        /\ sent' \subseteq subscribed' /\ stables' \in 0 .. MaxStable /\ dials' \in Int
    BY DEF FeedInv, TypeOK
  <2> QED
    BY <2>1, Zenon DEF TypeOK, ThreadTypes
<1>2. /\ RetriesKnown' /\ Grants' = Grants
      /\ Pending' = Pending \/ Pending' = {}
      /\ \A t \in Thread : proc'[t].pc = "dial" => proc'[t] = proc[t]
  BY QuietKeeps DEF FeedInv
<1>3. Registered'
  BY <1>2 DEF FeedInv, Registered
<1>4. Dialers'
  <2>1. \A t \in Thread : proc'[t].pc = "dial" =>
           /\ proc[t].pc = "dial" /\ proc'[t].gen = proc[t].gen
           /\ sock'[proc[t].gen].phase = "new"
    BY <1>2
  <2> QED
    BY <2>1, DialersKept DEF FeedInv
<1>5. Charged'
  BY <1>2, Zenon DEF FeedInv, Charged
<1> QED
  BY <1>1, <1>2, <1>3, <1>4, <1>5 DEF FeedInv

\* No thread: nothing moves.
LEMMA NobodyMoves ==
  ASSUME TypeOK, proc' = proc, generation' = generation
  PROVE  QuietThreads /\ ThreadTypes' /\ Pending' = Pending
BY DEF TypeOK, ThreadTypes, QuietThreads, Pending

\* A dialling thread's transport is new and exists.
LEMMA DialsANewOne ==
  ASSUME FeedInv, NEW t \in Thread, proc[t].pc = "dial"
  PROVE  proc[t].gen \in 1 .. generation /\ sock[proc[t].gen].phase = "new"
<1>1. proc[t].gen # 0 /\ sock[proc[t].gen].phase = "new"
  BY DEF FeedInv, Dialers, At
<1>2. proc[t].gen \in 0 .. generation /\ generation \in Nat
  BY UnchangedCounts, ThreadFields DEF FeedInv
<1> QED
  BY <1>1, <1>2

LEMMA HandshakeInv ==
  ASSUME FeedInv, NEW g \in 1 .. generation, Handshake(g)
  PROVE  FeedInv'
<1>1. /\ sock[g].phase = "dialing"
      /\ UNCHANGED <<state, attempts, connectedAt, lastMessage, subscribed, sent, timer, proc,
                     stables, dials>>
  BY Zenon DEF Handshake
<1>2. TypeOK /\ sock[g] \in Socket
  BY SocketFields DEF FeedInv
<1> DEFINE s == [sock[g] EXCEPT !.phase = "opening"]
<1>3. s \in Socket /\ s.phase = "opening" /\ s.todo = sock[g].todo
  BY <1>2 DEF Socket
<1>4. sock' = [sock EXCEPT ![g] = s]
  BY Zenon DEF Handshake
<1> HIDE DEF s
<1>5. /\ sock' \in Seq(Socket) /\ generation' = generation
      /\ \A h \in 1 .. generation : sock'[h] = IF h = g THEN s ELSE sock[h]
  BY <1>2, <1>3, <1>4, OneSocket
<1>6. QuietThreads /\ ThreadTypes' /\ Pending' = Pending
  BY <1>1, <1>2, <1>5, NobodyMoves
<1>7. \A h \in 1 .. generation : sock'[h].todo \subseteq subscribed
  BY <1>3, <1>5 DEF FeedInv, Registered
<1>8. \A t \in Thread : proc[t].pc = "dial" /\ proc'[t] = proc[t] =>
           sock'[proc[t].gen].phase = "new"
  BY <1>1, <1>5, DialsANewOne
<1>9. generation # 0 => generation \in 1 .. generation
  BY UnchangedCounts
<1>10. OpenOnce'
  BY <1>1, <1>5, <1>9 DEF FeedInv, OpenOnce
<1>11. UnderWay'
  BY <1>1, <1>3, <1>5, <1>6, <1>9 DEF FeedInv, UnderWay, CanSend
<1> QED
  BY <1>1, <1>5, <1>6, <1>7, <1>8, <1>10, <1>11, UnchangedCounts, TransportStepKeeps
     DEF FeedInv, TypeOK

LEMMA NewSocketFields ==
  /\ NewSocket \in Socket /\ NewSocket.phase = "new" /\ NewSocket.todo = {}
  /\ Ended \in Socket /\ Ended.phase = "gone" /\ Ended.todo = {}
BY DEF NewSocket, Ended, Socket

LEMMA LostInv ==
  ASSUME FeedInv, NEW g \in 1 .. generation, Lost(g)
  PROVE  FeedInv'
<1>1. /\ sock[g].phase \in {"dialing", "open"} /\ sock' = [sock EXCEPT ![g] = Ended]
      /\ UNCHANGED <<state, attempts, connectedAt, lastMessage, subscribed, sent, timer, stables, dials>>
  BY Zenon DEF Lost
<1>2. PICK ts \in SUBSET FreeWatchers : proc' = Reporting(ts, g)
  BY Zenon DEF Lost
<1>3. TypeOK /\ g \in 0 .. generation
  BY UnchangedCounts DEF FeedInv
<1>4. /\ sock' \in Seq(Socket) /\ generation' = generation
      /\ \A h \in 1 .. generation : sock'[h] = IF h = g THEN Ended ELSE sock[h]
  BY <1>1, <1>3, OneSocket, NewSocketFields
<1>5. QuietThreads /\ ThreadTypes' /\ Pending' = Pending
  BY <1>2, <1>3, <1>4, ReportersAreQuiet, ReportsLeaveMain
<1>6. \A h \in 1 .. generation : sock'[h].todo \subseteq subscribed
  BY <1>4, NewSocketFields DEF FeedInv, Registered
<1>7. \A t \in Thread : proc[t].pc = "dial" /\ proc'[t] = proc[t] =>
           sock'[proc[t].gen].phase = "new"
  BY <1>1, <1>4, DialsANewOne
<1>8. generation # 0 => generation \in 1 .. generation
  BY UnchangedCounts
<1>9. OpenOnce'
  BY <1>1, <1>4, <1>8, NewSocketFields DEF FeedInv, OpenOnce
<1>10. UnderWay'
  BY <1>1, <1>4, <1>5, <1>8, NewSocketFields DEF FeedInv, UnderWay, CanSend
<1> QED
  BY <1>1, <1>4, <1>5, <1>6, <1>7, <1>9, <1>10, UnchangedCounts, TransportStepKeeps
     DEF FeedInv, TypeOK

\* The callback of an older connection changes nothing but its own transport.
LEMMA OnOpenInv ==
  ASSUME FeedInv, NEW g \in 1 .. generation, OnOpen(g)
  PROVE  FeedInv'
<1>1. sock[g].phase = "opening" /\ UNCHANGED <<subscribed, sent, proc, stables, dials>>
  BY Zenon DEF OnOpen, Opened
<1>2. TypeOK /\ sock[g] \in Socket /\ subscribed \in SUBSET Symbol
      /\ (generation # 0 => generation \in 1 .. generation)
  BY SocketFields, UnchangedCounts DEF FeedInv, TypeOK
<1>3. CASE g # generation
  <2>1. /\ sock' = [sock EXCEPT ![g].phase = "open"]
        /\ UNCHANGED <<state, attempts, connectedAt, lastMessage, timer>>
    BY <1>3, Zenon DEF OnOpen, Opened
  <2> DEFINE s == [sock[g] EXCEPT !.phase = "open"]
  <2>2. s \in Socket /\ s.phase = "open" /\ s.todo = sock[g].todo
    BY <1>2 DEF Socket
  <2>3. sock' = [sock EXCEPT ![g] = s]
    BY <2>1, Zenon
  <2> HIDE DEF s
  <2>4. /\ sock' \in Seq(Socket) /\ generation' = generation
        /\ \A h \in 1 .. generation : sock'[h] = IF h = g THEN s ELSE sock[h]
    BY <1>2, <2>2, <2>3, OneSocket
  <2>5. QuietThreads /\ ThreadTypes' /\ Pending' = Pending
    BY <1>1, <1>2, <2>4, NobodyMoves
  <2>6. \A h \in 1 .. generation : sock'[h].todo \subseteq subscribed
    BY <2>2, <2>4 DEF FeedInv, Registered
  <2>7. \A t \in Thread : proc[t].pc = "dial" /\ proc'[t] = proc[t] =>
             sock'[proc[t].gen].phase = "new"
    BY <1>1, <2>4, DialsANewOne
  <2>8. OpenOnce' /\ UnderWay'
    BY <1>1, <1>2, <1>3, <2>1, <2>4, <2>5 DEF FeedInv, OpenOnce, UnderWay, CanSend
  <2> QED
    BY <1>1, <2>1, <2>4, <2>5, <2>6, <2>7, <2>8, UnchangedCounts, TransportStepKeeps
       DEF FeedInv, TypeOK
<1>4. CASE g = generation
  <2>1. /\ state' = "CONNECTED" /\ attempts' = attempts
        /\ connectedAt' = "fresh" /\ lastMessage' = "recent" /\ timer' = FALSE
        /\ sock' = [sock EXCEPT ![g].phase = "open", ![g].todo = subscribed]
    BY <1>4, Zenon DEF OnOpen, Opened
  <2> DEFINE s == [sock[g] EXCEPT !.phase = "open", !.todo = subscribed]
  <2>2. s \in Socket /\ s.phase = "open" /\ s.todo = subscribed
    BY <1>2 DEF Socket
  <2>3. sock' = [sock EXCEPT ![g] = s]
    <3>1. sock \in Seq(Socket) /\ g \in DOMAIN sock
      BY <1>2 DEF TypeOK, generation
    <3> QED
      BY <2>1, <3>1
  <2> HIDE DEF s
  <2>4. /\ sock' \in Seq(Socket) /\ generation' = generation
        /\ \A h \in 1 .. generation : sock'[h] = IF h = g THEN s ELSE sock[h]
    BY <1>2, <2>2, <2>3, OneSocket
  <2>5. QuietThreads /\ ThreadTypes' /\ Pending' = Pending
    BY <1>1, <1>2, <2>4, NobodyMoves
  <2>6. \A h \in 1 .. generation : sock'[h].todo \subseteq subscribed
    BY <2>2, <2>4 DEF FeedInv, Registered
  <2>7. \A t \in Thread : proc[t].pc = "dial" /\ proc'[t] = proc[t] =>
             sock'[proc[t].gen].phase = "new"
    BY <1>1, <2>4, DialsANewOne
  <2>8. OpenOnce' /\ UnderWay'
    BY <1>1, <1>2, <1>4, <2>1, <2>2, <2>4 DEF OpenOnce, UnderWay, CanSend
  <2>9. state' \in DhanConnectionState
    BY <2>1 DEF DhanConnectionState
  <2> QED
    BY <1>1, <2>1, <2>4, <2>5, <2>6, <2>7, <2>8, <2>9, UnchangedCounts, TransportStepKeeps
<1> QED
  BY <1>3, <1>4

LEMMA SendOnOpenInv ==
  ASSUME FeedInv, NEW g \in 1 .. generation, SendOnOpen(g)
  PROVE  FeedInv'
<1>1. /\ sock[g].phase = "open" /\ sock' = [sock EXCEPT ![g].todo = {}]
      /\ UNCHANGED <<state, attempts, connectedAt, lastMessage, subscribed, timer, stables, dials>>
  BY Zenon DEF SendOnOpen
<1>2. TypeOK /\ sock[g] \in Socket /\ g \in 0 .. generation
      /\ (generation # 0 => generation \in 1 .. generation)
  BY SocketFields, UnchangedCounts DEF FeedInv
<1> DEFINE s == [sock[g] EXCEPT !.todo = {}]
<1>3. s \in Socket /\ s.phase = "open" /\ s.asked = sock[g].asked /\ s.todo = {}
  BY <1>1, <1>2 DEF Socket
<1>4. sock' = [sock EXCEPT ![g] = s]
  BY <1>1, Zenon
<1> HIDE DEF s
<1>5. /\ sock' \in Seq(Socket) /\ generation' = generation
      /\ \A h \in 1 .. generation : sock'[h] = IF h = g THEN s ELSE sock[h]
  BY <1>2, <1>3, <1>4, OneSocket
<1>6. \A h \in 1 .. generation : sock'[h].todo \subseteq subscribed
  BY <1>3, <1>5 DEF FeedInv, Registered
<1>7. \A t \in Thread : proc[t].pc = "dial" /\ proc'[t] = proc[t] =>
           sock'[proc[t].gen].phase = "new"
  BY <1>1, <1>5, DialsANewOne
<1>8. OpenOnce'
  BY <1>1, <1>2, <1>3, <1>5 DEF FeedInv, OpenOnce
<1>9. CanSend' = CanSend
  BY <1>1, <1>2, <1>3, <1>5 DEF CanSend
<1>10. CASE CanSend
  <2>1. sent' = sent \cup sock[g].todo /\ proc' = proc
    BY <1>10, Zenon DEF SendOnOpen
  <2>2. sent' \subseteq subscribed
    BY <2>1, UnchangedCounts DEF FeedInv, Registered
  <2>3. QuietThreads /\ ThreadTypes' /\ Pending' = Pending
    BY <1>2, <1>5, <2>1, NobodyMoves
  <2>4. UnderWay'
    BY <1>1, <1>2, <1>3, <1>5, <1>9, <2>1, <2>3 DEF FeedInv, UnderWay, CanSend
  <2> QED
    BY <1>1, <1>5, <1>6, <1>7, <1>8, <2>2, <2>3, <2>4, UnchangedCounts, TransportStepKeeps
       DEF FeedInv, TypeOK
<1>11. CASE ~CanSend
  <2>1. PICK w \in FreeWatchers : proc' = Reporting({w}, g)
    BY <1>11, Zenon DEF SendOnOpen
  <2>2. sent' = sent
    BY <1>11, Zenon DEF SendOnOpen
  <2>3. QuietThreads /\ ThreadTypes'
    BY <1>2, <1>5, <2>1, ReportersAreQuiet
  <2>4. UnderWay'
    BY <1>9, <1>11 DEF UnderWay
  <2> QED
    BY <1>1, <1>5, <1>6, <1>7, <1>8, <2>2, <2>3, <2>4, UnchangedCounts, TransportStepKeeps
       DEF FeedInv, TypeOK
<1> QED
  BY <1>10, <1>11

\* close() on a transport asks it to end, at most.
LEMMA ShutAsks ==
  ASSUME TypeOK, NEW g \in 0 .. generation
  PROVE  /\ Shut(sock, g) \in Seq(Socket) /\ Len(Shut(sock, g)) = generation
         /\ \A h \in 1 .. generation :
              /\ Shut(sock, g)[h].phase = sock[h].phase
              /\ Shut(sock, g)[h].todo = sock[h].todo
              /\ sock[h].asked => Shut(sock, g)[h].asked
<1>0. sock \in Seq(Socket) /\ generation = Len(sock) /\ generation \in Nat
  BY DEF TypeOK, generation
<1>1. CASE g # 0 /\ sock[g].phase \in Live
  <2>1. g \in 1 .. generation /\ sock[g] \in Socket
    BY <1>0, <1>1
  <2> DEFINE s == [sock[g] EXCEPT !.asked = TRUE]
  <2>2. s \in Socket /\ s.phase = sock[g].phase /\ s.todo = sock[g].todo /\ s.asked
    BY <2>1 DEF Socket
  <2>3. Shut(sock, g) = [sock EXCEPT ![g] = s]
    BY <1>1, Zenon DEF Shut
  <2> HIDE DEF s
  <2>4. /\ Shut(sock, g) \in Seq(Socket) /\ Len(Shut(sock, g)) = generation
        /\ \A h \in 1 .. generation : Shut(sock, g)[h] = IF h = g THEN s ELSE sock[h]
    BY <1>0, <2>1, <2>2, <2>3, ExceptSeq
  <2> QED
    BY <2>2, <2>4
<1>2. CASE ~(g # 0 /\ sock[g].phase \in Live)
  <2>1. Shut(sock, g) = sock
    BY <1>2, Zenon DEF Shut
  <2> QED
    BY <1>0, <2>1
<1> QED
  BY <1>1, <1>2

LEMMA CloseTransportInv ==
  ASSUME FeedInv, CloseTransport
  PROVE  FeedInv'
<1>1. /\ proc[Main].pc = "shut" /\ Main \in Thread /\ Main \notin Watcher
      /\ sock' = Shut(sock, proc[Main].old)
      /\ proc' = [proc EXCEPT ![Main] = [Free EXCEPT !.pc = "closed"]]
      /\ UNCHANGED <<state, attempts, connectedAt, lastMessage, subscribed, sent, timer, stables, dials>>
  BY MainOrWatcher, Zenon DEF CloseTransport, At
<1>2. TypeOK /\ proc[Main].old \in 0 .. generation
      /\ (generation # 0 => generation \in 1 .. generation)
  BY <1>1, ThreadFields, UnchangedCounts DEF FeedInv
<1>3. /\ sock' \in Seq(Socket) /\ generation' = generation
      /\ \A h \in 1 .. generation :
           /\ sock'[h].phase = sock[h].phase /\ sock'[h].todo = sock[h].todo
           /\ sock[h].asked => sock'[h].asked
  <2>1. /\ Shut(sock, proc[Main].old) \in Seq(Socket)
        /\ Len(Shut(sock, proc[Main].old)) = generation
        /\ \A h \in 1 .. generation :
             /\ Shut(sock, proc[Main].old)[h].phase = sock[h].phase
             /\ Shut(sock, proc[Main].old)[h].todo = sock[h].todo
             /\ sock[h].asked => Shut(sock, proc[Main].old)[h].asked
    BY <1>2, ShutAsks
  <2>2. generation' = Len(sock')
    BY DEF generation
  <2> QED
    BY <1>1, <2>1, <2>2
<1> DEFINE p == [Free EXCEPT !.pc = "closed"]
<1>4. p \in Process
  BY FreeIsFree, ProgramCounters DEF Process
<1>5. p.pc = "closed" /\ p.gen = 0 /\ p.old = 0
  BY FreeIsFree DEF Process
<1>6. Placed(Main, p)
  BY <1>1, <1>4, <1>5, UnchangedCounts DEF Placed
<1>7. proc' = [proc EXCEPT ![Main] = p]
  BY <1>1
<1> HIDE DEF p
<1>8. QuietThreads /\ ThreadTypes'
  BY <1>1, <1>2, <1>3, <1>5, <1>6, <1>7, OneThreadIsQuiet
<1>9. Pending' = Pending
  BY <1>1, <1>2, <1>4, <1>5, <1>7, OneThread DEF Pending
<1>10. \A h \in 1 .. generation : sock'[h].todo \subseteq subscribed
  BY <1>3 DEF FeedInv, Registered
<1>11. \A t \in Thread : proc[t].pc = "dial" /\ proc'[t] = proc[t] =>
           sock'[proc[t].gen].phase = "new"
  BY <1>3, DialsANewOne
<1>12. OpenOnce' /\ UnderWay'
  <2>1. ASSUME state = "CONNECTED"
        PROVE  /\ generation \in 1 .. generation /\ generation' = generation
               /\ sock'[generation].phase = sock[generation].phase
               /\ sock'[generation].todo = sock[generation].todo
               /\ sock[generation].asked => sock'[generation].asked
    <3>1. generation # 0
      BY <2>1 DEF FeedInv, OpenOnce
    <3> QED
      BY <1>2, <1>3, <3>1
  <2>2. UNCHANGED <<state, subscribed, sent>>
    BY <1>1
  <2>3. OpenOnce'
    BY <2>1, <2>2 DEF FeedInv, OpenOnce
  <2>4. UnderWay'
    BY <1>9, <2>1, <2>2 DEF FeedInv, UnderWay, CanSend
  <2> QED
    BY <2>3, <2>4
<1> QED
  BY <1>1, <1>3, <1>8, <1>10, <1>11, <1>12, UnchangedCounts, TransportStepKeeps
     DEF FeedInv, TypeOK

\* The end of a dial: the older transport is asked to end, the thread's own is
\* connected or gone.
LEMMA DialEndKeeps ==
  ASSUME FeedInv, NEW t \in Thread, proc[t].pc = "dial", NEW r \in Socket,
         r.phase \in {"dialing", "gone"}, r.todo \subseteq subscribed,
         sock' = [Shut(sock, proc[t].old) EXCEPT ![proc[t].gen] = r],
         NEW p, Placed(t, p), proc' = [proc EXCEPT ![t] = p],
         p.pc \in {"free", "raised", "dial_failed"},
         p.pc = "dial_failed" => p.retries, timer' \in BOOLEAN,
         UNCHANGED <<state, attempts, connectedAt, lastMessage, subscribed, sent, stables, dials>>
  PROVE  FeedInv'
<1>1. TypeOK /\ proc[t].old \in 0 .. generation
      /\ (generation # 0 => generation \in 1 .. generation)
  BY ThreadFields, UnchangedCounts DEF FeedInv
<1>2. proc[t].gen \in 1 .. generation /\ sock[proc[t].gen].phase = "new"
  BY DialsANewOne
<1> DEFINE q == Shut(sock, proc[t].old)
           g == proc[t].gen
<1>3. /\ q \in Seq(Socket) /\ Len(q) = generation
      /\ \A h \in 1 .. generation :
           /\ q[h].phase = sock[h].phase /\ q[h].todo = sock[h].todo
           /\ sock[h].asked => q[h].asked
  BY <1>1, ShutAsks
<1>4. sock' = [q EXCEPT ![g] = r] /\ g \in 1 .. generation
  BY <1>2
<1> HIDE DEF q, g
<1>5. /\ sock' \in Seq(Socket) /\ generation' = generation
      /\ \A h \in 1 .. generation : sock'[h] = IF h = g THEN r ELSE q[h]
  <2> DEFINE after == [q EXCEPT ![g] = r]
  <2>1. /\ after \in Seq(Socket) /\ Len(after) = generation
        /\ \A h \in 1 .. generation : after[h] = IF h = g THEN r ELSE q[h]
    BY <1>3, <1>4, ExceptSeq
  <2>2. sock' = after
    BY <1>4
  <2> HIDE DEF after
  <2> QED
    BY <2>1, <2>2 DEF generation
<1>6. QuietThreads /\ ThreadTypes' /\ (t # Main => Pending' = Pending)
  BY <1>1, <1>5, OneThreadIsQuiet
<1>7. Pending' = Pending
  BY <1>1, <1>6, OneThread DEF Pending, Placed
<1>8. \A h \in 1 .. generation : sock'[h].todo \subseteq subscribed
  BY <1>3, <1>5 DEF FeedInv, Registered
<1>9. ASSUME NEW u \in Thread, proc[u].pc = "dial", proc'[u] = proc[u]
      PROVE  sock'[proc[u].gen].phase = "new"
  <2>1. u # t
    BY <1>1, <1>9, OneThread DEF Placed
  <2>2. proc[u].gen # g
    BY <1>9, <2>1 DEF FeedInv, Dialers, At, g
  <2>3. proc[u].gen \in 1 .. generation /\ sock[proc[u].gen].phase = "new"
    BY <1>9, DialsANewOne
  <2> QED
    BY <1>3, <1>5, <2>2, <2>3
<1>10. state = "CONNECTED" => generation \in 1 .. generation /\ generation # g
  BY <1>1, <1>2 DEF FeedInv, OpenOnce, g
<1>11. OpenOnce' /\ UnderWay'
  <2>1. ASSUME state = "CONNECTED"
        PROVE  /\ sock'[generation].phase = sock[generation].phase
               /\ sock'[generation].todo = sock[generation].todo
               /\ sock[generation].asked => sock'[generation].asked
    BY <1>3, <1>5, <1>10, <2>1
  <2>2. generation' = generation
    BY <1>5
  <2>3. OpenOnce'
    BY <2>1, <2>2 DEF FeedInv, OpenOnce
  <2>4. UnderWay'
    BY <1>7, <2>1, <2>2 DEF FeedInv, UnderWay, CanSend
  <2> QED
    BY <2>3, <2>4
<1> QED
  BY <1>5, <1>6, <1>8, <1>9, <1>11, UnchangedCounts, TransportStepKeeps DEF FeedInv, TypeOK

LEMMA DialInv ==
  ASSUME FeedInv, NEW t \in Thread, Dial(t)
  PROVE  FeedInv'
<1> DEFINE q == Shut(sock, proc[t].old)
           g == proc[t].gen
<1>1. /\ proc[t].pc = "dial" /\ Return(t)
      /\ sock' = [q EXCEPT ![g].phase = "dialing"]
      /\ timer' = IF g = generation /\ state = "CONNECTING" THEN TRUE ELSE timer
      /\ UNCHANGED <<state, attempts, connectedAt, lastMessage, subscribed, sent, stables, dials>>
  BY Zenon DEF Dial, Dialled, At
<1>2. g \in 1 .. generation
  BY <1>1, DialsANewOne
<1>3. q \in Seq(Socket) /\ Len(q) = generation /\ q[g].todo = sock[g].todo
  BY <1>2, ThreadFields, ShutAsks DEF FeedInv
<1> DEFINE r == [q[g] EXCEPT !.phase = "dialing"]
<1>4. sock' = [q EXCEPT ![g] = r]
  BY <1>1, Zenon
<1>5. q[g] \in Socket
  BY <1>2, <1>3
<1> HIDE DEF q, g
<1>6. r \in Socket /\ r.phase = "dialing" /\ r.todo = q[g].todo
  BY <1>5 DEF Socket
<1>7. r.todo \subseteq subscribed
  BY <1>2, <1>3, <1>6 DEF FeedInv, Registered
<1>8. proc' = [proc EXCEPT ![t] = Free] /\ Placed(t, Free) /\ Free.pc = "free"
  BY <1>1, FreeIsPlaced, Zenon DEF FeedInv, Return
<1>9. timer' \in BOOLEAN
  BY <1>1, UnchangedCounts
<1> HIDE DEF r
<1>10. sock' = [Shut(sock, proc[t].old) EXCEPT ![proc[t].gen] = r]
  BY <1>4 DEF q, g
<1>11. r.phase \in {"dialing", "gone"} /\ Free.pc \in {"free", "raised", "dial_failed"}
       /\ (Free.pc = "dial_failed" => Free.retries)
  BY <1>6, <1>8
<1> QED
  BY <1>1, <1>6, <1>7, <1>8, <1>9, <1>10, <1>11, DialEndKeeps

LEMMA DialRaisesInv ==
  ASSUME FeedInv, NEW t \in Thread, DialRaises(t)
  PROVE  FeedInv'
<1> DEFINE p == [Free EXCEPT !.pc = IF proc[t].retries THEN "dial_failed" ELSE "raised",
                             !.retries = proc[t].retries]
<1>1. /\ proc[t].pc = "dial" /\ proc' = [proc EXCEPT ![t] = p]
      /\ sock' = [Shut(sock, proc[t].old) EXCEPT ![proc[t].gen] = Ended]
      /\ UNCHANGED <<state, attempts, connectedAt, lastMessage, subscribed, sent, timer, stables, dials>>
  BY Zenon DEF DialRaises, At
<1>2. proc[t].retries \in BOOLEAN /\ (t \in Watcher => proc[t].retries)
  BY <1>1, ThreadFields DEF FeedInv, RetriesKnown
<1>3. p \in Process /\ p.gen = 0 /\ p.old = 0 /\ p.retries = proc[t].retries
      /\ p.pc = IF proc[t].retries THEN "dial_failed" ELSE "raised"
  <2>1. (IF proc[t].retries THEN "dial_failed" ELSE "raised") \in PC
    BY ProgramCounters
  <2> QED
    BY <1>2, <2>1, FreeIsFree DEF Process
<1> HIDE DEF p
<1>4. Placed(t, p)
  BY <1>2, <1>3, UnchangedCounts DEF Placed
<1>5. p.pc \in {"free", "raised", "dial_failed"} /\ (p.pc = "dial_failed" => p.retries)
  BY <1>3
<1>6. Ended \in Socket /\ Ended.phase \in {"dialing", "gone"} /\ Ended.todo \subseteq subscribed
  BY NewSocketFields
<1> QED
  BY <1>1, <1>4, <1>5, <1>6, UnchangedCounts, DialEndKeeps

\* A granted dial is made, or given up because the feed was closed.
LEMMA ConnectInv ==
  ASSUME FeedInv, NEW t \in Thread, Connect(t)
  PROVE  FeedInv'
<1>1. /\ proc[t].pc \in {"connecting", "backoff"}
      /\ UNCHANGED <<attempts, connectedAt, subscribed, stables>>
  BY Zenon DEF Connect
<1>2. TypeOK /\ generation \in Nat /\ (generation # 0 => generation \in 1 .. generation)
  BY UnchangedCounts DEF FeedInv
<1>3. t \in Grants /\ Cardinality(Grants \ {t}) = Cardinality(Grants) - 1
      /\ Cardinality(Grants) \in Nat
  BY <1>1, GrantsAreFinite DEF Grants
<1>4. proc[t].pc \notin {"registered", "sending", "dial"}
  BY <1>1
<1>5. CASE state = "CLOSED"
  <2>1. /\ proc' = [proc EXCEPT ![t] = Free]
        /\ UNCHANGED <<state, lastMessage, sock, sent, timer, dials>>
    BY <1>5, Zenon DEF Connect, Return
  <2>2. generation' = generation /\ Placed(t, Free)
    BY <1>2, <2>1, FreeIsPlaced DEF generation
  <2>3. /\ ThreadTypes' /\ \A u \in Thread : proc'[u] = IF u = t THEN Free ELSE proc[u]
        /\ t # Main => Pending' = Pending
    BY <1>2, <2>1, <2>2, PlacedTypes
  <2>4. Pending' = Pending
    BY <1>4, <2>3, FreeIsFree, MainOrWatcher DEF Pending
  <2>5. TypeOK'
    <3>1. attempts' \in 0 .. MaxReconnectAttempts /\ dials' \in Int
          /\ state' \in DhanConnectionState /\ connectedAt' \in {"none", "fresh", "stable"}
          /\ lastMessage' \in {"none", "recent", "old"} /\ timer' \in BOOLEAN
          /\ subscribed' \subseteq Symbol /\ sock' \in Seq(Socket)
          /\ sent' \subseteq subscribed' /\ stables' \in 0 .. MaxStable
      BY <1>1, <2>1 DEF FeedInv, TypeOK
    <3> QED
      BY <2>3, <3>1, Zenon DEF TypeOK, ThreadTypes
  <2>6. RetriesKnown'
    BY <2>3, FreeIsFree, MainOrWatcher DEF FeedInv, RetriesKnown
  <2>7. Dialers'
    <3>1. \A u \in Thread : proc'[u].pc = "dial" =>
             /\ proc[u].pc = "dial" /\ proc'[u].gen = proc[u].gen
             /\ sock'[proc[u].gen].phase = "new"
      BY <2>1, <2>3, FreeIsFree DEF FeedInv, Dialers, At
    <3> QED
      BY <3>1, DialersKept DEF FeedInv
  <2>8. Registered' /\ OpenOnce' /\ UnderWay'
    BY <1>1, <2>1, <2>2, <2>4 DEF FeedInv, Registered, OpenOnce, UnderWay, CanSend
  <2>9. Charged'
    <3>1. Grants' = Grants \ {t}
      BY <2>3, FreeIsFree DEF Grants
    <3>2. Cardinality(Grants)' = Cardinality(Grants) - 1
      BY <1>3, <3>1
    <3> QED
      BY <1>1, <1>3, <2>1, <3>2, UnchangedCounts DEF Charged
  <2> QED
    BY <2>5, <2>6, <2>7, <2>8, <2>9 DEF FeedInv
<1>6. CASE state # "CLOSED"
  <2> DEFINE p == [proc[t] EXCEPT !.pc = "dial", !.gen = generation + 1, !.old = generation]
  <2>1. /\ state' = "CONNECTING" /\ lastMessage' = "none" /\ sent' = {} /\ timer' = FALSE
        /\ sock' = Append(sock, NewSocket) /\ dials' = dials + 1
    BY <1>6, Zenon DEF Connect
  <2>2. proc' = [proc EXCEPT ![t].pc = "dial", ![t].gen = generation + 1, ![t].old = generation]
    BY <1>6, Zenon DEF Connect
  <2>3. proc' = [proc EXCEPT ![t] = p]
    BY <1>2, <2>2 DEF TypeOK
  <2>4. p \in Process
    <3>1. generation + 1 \in Nat
      BY <1>2
    <3> QED
      BY <1>2, <3>1, ThreadFields, ProgramCounters DEF Process
  <2>5. p.pc = "dial" /\ p.gen = generation + 1 /\ p.old = generation
        /\ p.retries = proc[t].retries
    BY <1>2, ThreadFields DEF Process
  <2> HIDE DEF p
  <2>6. /\ proc' \in [Thread -> Process]
        /\ \A u \in Thread : proc'[u] = IF u = t THEN p ELSE proc[u]
    BY <1>2, <2>3, <2>4, OneThread
  <2>7. /\ sock' \in Seq(Socket) /\ generation' = generation + 1
        /\ \A h \in 1 .. generation : sock'[h] = sock[h]
        /\ sock'[generation + 1] = NewSocket
    <3> DEFINE after == Append(sock, NewSocket)
    <3>1. /\ after \in Seq(Socket) /\ Len(after) = generation + 1
          /\ \A h \in 1 .. generation : after[h] = sock[h]
          /\ after[generation + 1] = NewSocket
      BY <1>2, NewSocketFields, AppendProperties DEF TypeOK, generation
    <3>2. sock' = after
      BY <2>1
    <3> HIDE DEF after
    <3>3. generation' = Len(after)
      BY <3>2 DEF generation
    <3> QED
      BY <3>1, <3>2, <3>3
  <2>8. ThreadTypes'
    <3>1. \A u \in Thread : proc'[u].gen \in 0 .. generation + 1
                              /\ proc'[u].old \in 0 .. generation + 1
      <4> SUFFICES ASSUME NEW u \in Thread
                   PROVE  proc'[u].gen \in 0 .. generation + 1
                            /\ proc'[u].old \in 0 .. generation + 1
        OBVIOUS
      <4>1. proc[u].gen \in 0 .. generation /\ proc[u].old \in 0 .. generation
        BY <1>2, ThreadFields
      <4>2. CASE u = t
        BY <1>2, <2>5, <2>6, <4>2
      <4>3. CASE u # t
        BY <1>2, <2>6, <4>1, <4>3
      <4> QED
        BY <4>2, <4>3
    <3>2. \A w \in Watcher : proc'[w].pc \in {"free", "lost", "backoff", "dial", "dial_failed"}
      BY <1>2, <2>5, <2>6, MainOrWatcher DEF TypeOK
    <3> QED
      BY <2>6, <2>7, <3>1, <3>2 DEF ThreadTypes
  <2>9. TypeOK'
    <3>1. attempts' \in 0 .. MaxReconnectAttempts /\ dials' \in Int
          /\ connectedAt' \in {"none", "fresh", "stable"}
          /\ subscribed' \subseteq Symbol /\ stables' \in 0 .. MaxStable
      BY <1>1, <2>1 DEF FeedInv, TypeOK
    <3>2. state' \in DhanConnectionState /\ lastMessage' \in {"none", "recent", "old"}
          /\ timer' \in BOOLEAN /\ sent' \subseteq subscribed'
      BY <2>1 DEF DhanConnectionState
    <3> QED
      BY <2>7, <2>8, <3>1, <3>2, Zenon DEF TypeOK, ThreadTypes
  <2>10. RetriesKnown'
    <3>1. t \in Watcher => proc[t].retries
      BY <1>1, <1>2, FeedAssumption DEF FeedInv, RetriesKnown, TypeOK
    <3> QED
      BY <2>5, <2>6, <3>1, MainOrWatcher DEF FeedInv, RetriesKnown
  <2>11. Registered'
    <3>1. Pending' = Pending \/ Pending' = {}
      BY <2>5, <2>6, MainOrWatcher DEF Pending
    <3>2. \A h \in 1 .. generation + 1 : sock'[h].todo \subseteq subscribed
      <4> SUFFICES ASSUME NEW h \in 1 .. generation + 1
                   PROVE  sock'[h].todo \subseteq subscribed
        OBVIOUS
      <4>1. h \in 1 .. generation \/ h = generation + 1
        BY <1>2
      <4> QED
        BY <2>7, <4>1, NewSocketFields DEF FeedInv, Registered
    <3> QED
      BY <1>1, <2>7, <3>1, <3>2 DEF FeedInv, Registered
  <2>12. Dialers'
    <3>1. \A u \in Thread : u # t /\ proc'[u].pc = "dial" =>
            /\ proc'[u].gen = proc[u].gen /\ proc[u].pc = "dial"
            /\ proc[u].gen \in 1 .. generation /\ proc'[u].gen # generation + 1
            /\ sock'[proc[u].gen].phase = "new"
      <4> SUFFICES ASSUME NEW u \in Thread, u # t, proc'[u].pc = "dial"
                   PROVE  /\ proc'[u].gen = proc[u].gen /\ proc[u].pc = "dial"
                          /\ proc[u].gen \in 1 .. generation /\ proc'[u].gen # generation + 1
                          /\ sock'[proc[u].gen].phase = "new"
        BY Zenon
      <4>1. proc'[u] = proc[u]
        BY <2>6
      <4>2. proc[u].gen \in 1 .. generation /\ sock[proc[u].gen].phase = "new"
        BY <4>1, DialsANewOne
      <4>3. proc[u].gen # generation + 1
        BY <1>2, <4>2
      <4> QED
        BY <2>7, <4>1, <4>2, <4>3
    <3>2. proc'[t].gen = generation + 1 /\ proc'[t].gen # 0
          /\ sock'[proc'[t].gen].phase = "new"
      BY <1>2, <2>5, <2>6, <2>7, NewSocketFields
    <3>3. \A u \in Thread : proc'[u].pc = "dial" =>
            proc'[u].gen # 0 /\ sock'[proc'[u].gen].phase = "new"
      BY <1>2, <3>1, <3>2
    <3>4. \A u, v \in Thread : proc'[u].pc = "dial" /\ proc'[v].pc = "dial" /\ u # v =>
            proc'[u].gen # proc'[v].gen
      <4> SUFFICES ASSUME NEW u \in Thread, NEW v \in Thread,
                          proc'[u].pc = "dial", proc'[v].pc = "dial", u # v
                   PROVE  proc'[u].gen # proc'[v].gen
        BY Zenon
      <4>1. CASE u = t \/ v = t
        BY <3>1, <3>2, <4>1
      <4>2. CASE u # t /\ v # t
        BY <3>1, <4>2 DEF FeedInv, Dialers, At
      <4> QED
        BY <4>1, <4>2
    <3> QED
      BY <3>3, <3>4, Zenon DEF Dialers, At
  <2>13. OpenOnce' /\ UnderWay'
    BY <2>1 DEF OpenOnce, UnderWay
  <2>14. Charged'
    <3>1. Grants' = Grants \ {t}
      BY <2>5, <2>6 DEF Grants
    <3>2. Cardinality(Grants)' = Cardinality(Grants) - 1
      BY <1>3, <3>1
    <3> QED
      BY <1>1, <1>3, <2>1, <3>2, UnchangedCounts DEF Charged
  <2> QED
    BY <2>9, <2>10, <2>11, <2>12, <2>13, <2>14 DEF FeedInv
<1> QED
  BY <1>5, <1>6

-----------------------------------------------------------------------------

LEMMA FeedInitially ==
  Init => FeedInv
<1> SUFFICES ASSUME Init
             PROVE  FeedInv
  OBVIOUS
<1>1. sock = <<>> /\ generation = 0 /\ state = "DISCONNECTED" /\ dials = 0 /\ attempts = 0
      /\ sent = {} /\ subscribed = {}
  BY DEF Init, generation
<1>2. proc = [t \in Thread |-> Free] /\ Main \in Thread /\ Watcher \subseteq Thread
  BY MainOrWatcher DEF Init
<1>3. \A t \in Thread : proc[t].pc = "free" /\ proc[t].gen = 0 /\ proc[t].old = 0
  BY <1>2, FreeIsFree
<1>4. TypeOK
  <2>1. proc \in [Thread -> Process]
    BY <1>2, FreeIsFree
  <2>2. state \in DhanConnectionState /\ attempts \in 0 .. MaxReconnectAttempts
        /\ stables \in 0 .. MaxStable /\ dials \in Int /\ timer \in BOOLEAN
        /\ connectedAt \in {"none", "fresh", "stable"} /\ lastMessage \in {"none", "recent", "old"}
    <3>1. attempts = 0 /\ stables = 0 /\ dials = 0 /\ timer = FALSE /\ state = "DISCONNECTED"
          /\ connectedAt = "none" /\ lastMessage = "none"
      BY Zenon DEF Init
    <3>2. 0 \in 0 .. MaxReconnectAttempts /\ 0 \in 0 .. MaxStable
      BY FeedAssumption
    <3>3. state \in DhanConnectionState
      BY <3>1, Zenon DEF DhanConnectionState
    <3>4. timer \in BOOLEAN
      BY <3>1, Zenon
    <3>5. dials \in Int
      BY DEF Init
    <3>6. connectedAt \in {"none", "fresh", "stable"} /\ lastMessage \in {"none", "recent", "old"}
      BY <3>1
    <3> QED
      BY <3>1, <3>2, <3>3, <3>4, <3>5, <3>6, Zenon
  <2>3. ThreadTypes
    BY <1>1, <1>2, <1>3, <2>1 DEF ThreadTypes
  <2>4. sock \in Seq(Socket) /\ subscribed \subseteq Symbol /\ sent \subseteq subscribed
    BY <1>1
  <2> QED
    BY <2>2, <2>3, <2>4, OtherTypes
<1>5. Pending = {} /\ Grants = {}
  BY <1>2, <1>3 DEF Pending, Grants
<1>6. Charged
  BY <1>1, <1>5, FS_EmptySet DEF Charged
<1>7. RetriesKnown /\ Registered /\ Dialers /\ OpenOnce /\ UnderWay
  BY <1>1, <1>2, <1>3, <1>5 DEF RetriesKnown, Registered, Dialers, OpenOnce, UnderWay, At
<1> QED
  BY <1>4, <1>6, <1>7 DEF FeedInv

LEMMA FeedStep ==
  FeedInv /\ [Next]_vars => FeedInv'
<1> SUFFICES ASSUME FeedInv, [Next]_vars
             PROVE  FeedInv'
  OBVIOUS
<1>1. CASE UNCHANGED vars
  <2>1. connectedAt' \in {"none", "fresh", "stable"}
        /\ lastMessage' \in {"none", "recent", "old"} /\ stables' \in 0 .. MaxStable
    BY <1>1 DEF vars, FeedInv, TypeOK
  <2> QED
    BY <1>1, <2>1, TimeKeeps DEF vars
<1>2. ASSUME NEW g \in 1 .. generation, Handshake(g) \/ Lost(g) \/ Callback(g)
      PROVE  FeedInv'
  BY <1>2, HandshakeInv, LostInv, OnOpenInv, SendOnOpenInv, OnMessageInv,
     OnDisconnectPacketInv DEF Callback
<1>3. ASSUME NEW t \in Thread, Reconnect(t)
      PROVE  FeedInv'
  BY <1>3, ReportConnectionLostInv, ConnectInv, DialInv, DialRaisesInv, RetryReconnectInv
     DEF Reconnect
<1>4. CASE Poll
  BY <1>4, SubscribeInv, SendSubscribeInv, IdleCheckInv, IdleReportInv, CloseTransportInv
     DEF Poll
<1> QED
  BY <1>1, <1>2, <1>3, <1>4, OnConnectTimeoutInv, RegisterInv, CloseInv, TimeInv, Zenon
     DEF Next

LEMMA FeedInvariant ==
  Spec => []FeedInv
BY FeedInitially, FeedStep, PTL DEF Spec

\* For any threads, symbols and budgets the attempts stay within the budget,
\* every thread works for a generation that exists, and a watcher never
\* subscribes, polls or closes.
THEOREM FeedTypeCorrect ==
  Spec => []TypeOK
<1>1. FeedInv => TypeOK
  BY DEF FeedInv
<1> QED
  BY <1>1, FeedInvariant, PTL

\* Whatever late callbacks of superseded connections arrive, a feed that says
\* CONNECTED has a transport that completed its handshake: it is the dialling
\* thread's own, fresh transport that a dial turns, never the current one.
THEOREM ConnectedMeansOpened ==
  Spec => []ConnectedIsOpen
<1>1. FeedInv => ConnectedIsOpen
  BY DEF FeedInv, OpenOnce, ConnectedIsOpen
<1> QED
  BY <1>1, FeedInvariant, PTL

\* No interleaving of subscribe() with a reconnect forgets a symbol: what a
\* connected feed has not sent is in the hands of the callback or of the
\* polling thread, so nothing is left once both are done.
THEOREM NoSubscriptionForgotten ==
  Spec => []SubscriptionSent
<1>1. ASSUME FeedInv, state = "CONNECTED", Quiescent, CanSend,
             \A g \in 1 .. generation : sock[g].todo = {}
      PROVE  subscribed \subseteq sent
  <2>1. generation \in 1 .. generation
    BY <1>1, UnchangedCounts DEF CanSend
  <2>2. Pending = {}
    BY <1>1, MainOrWatcher DEF Quiescent, Pending
  <2> QED
    BY <1>1, <2>1, <2>2 DEF FeedInv, UnderWay
<1>2. FeedInv => SubscriptionSent
  BY <1>1 DEF SubscriptionSent
<1> QED
  BY <1>2, FeedInvariant, PTL

\* However many threads report a loss at once, the dials made since the budget
\* was refilled and those granted and not yet made never exceed it, the first
\* dial aside.
THEOREM BudgetBoundsTheStorm ==
  Spec => []StormBounded
<1>1. FeedInv => StormBounded
  <2> SUFFICES ASSUME FeedInv
               PROVE  dials <= MaxReconnectAttempts + 1
    BY DEF StormBounded
  <2>1. Cardinality(Grants) \in Nat
    BY GrantsAreFinite
  <2> QED
    BY <2>1, UnchangedCounts, FeedAssumption
<1> QED
  BY <1>1, FeedInvariant, PTL
===============================================================================
