-------------------------------- MODULE Feed --------------------------------
(***************************************************************************)
(* The Dhan WebSocket feed: DhanMarketDataSource                           *)
(* (live/dhan/market_data_source.py), its connection state machine across  *)
(* the threads that drive it.                                              *)
(*                                                                         *)
(* Main is the thread that polls: it subscribes, calls next_bar and closes *)
(* the feed.  A Watcher is any thread that runs _report_connection_lost:   *)
(* a socket callback, the connect timer, or the thread the idle check      *)
(* starts; the one that claims the reconnect also backs off and connects.  *)
(* Every section under self._lock is a step, and so is every call between. *)
(* Time is abstract: a connection becomes stable, a connected feed falls   *)
(* silent, a timer fires.  What the bars are is the module LiveData.       *)
(***************************************************************************)
EXTENDS Integers, Sequences, FiniteSets

CONSTANTS
  Main, Watcher,
  Symbol,
  MaxReconnectAttempts, \* max_reconnect_attempts
  MaxStable             \* bound: connections that last min_stable_connection_seconds

ASSUME FeedAssumption ==
  /\ Main \notin Watcher /\ IsFiniteSet(Watcher)
  /\ MaxReconnectAttempts \in Nat /\ MaxStable \in Nat

Thread == Watcher \cup {Main}

VARIABLES
  state,       \* self.state
  attempts,    \* self._reconnect_attempts
  connectedAt, \* self._connected_at: unset, younger or older than the minimum
  lastMessage, \* self._last_message_monotonic: within the idle timeout or not,
               \* while the feed is CONNECTED, the only state that reads it
  subscribed,  \* self._subscribed_symbols
  sock,        \* sock[g]: the transport of generation g
  sent,        \* the symbols whose subscription went out on the current one
  timer,       \* the connect timer of the current attempt is armed; once the
               \* attempt is no longer CONNECTING it fires without effect
  proc,        \* proc[t]: where thread t is
  stables,     \* counts the connections that became stable
  dials        \* history: transports made since the retry budget was last refilled,
               \* those granted before it not counted

vars == <<state, attempts, connectedAt, lastMessage, subscribed, sock, sent, timer,
          proc, stables, dials>>

\* self._connection_generation: every _connect makes one transport.
generation == Len(sock)

DhanConnectionState ==
  {"DISCONNECTED", "CONNECTING", "CONNECTED", "RECONNECTING", "FAILED", "CLOSED"}

\* A transport is made (new) before it is connected.  asked: close() was
\* called on it; todo: what its on_open callback still has to send.
Socket == [phase : {"new", "dialing", "opening", "open", "gone"}, asked : BOOLEAN,
           todo : SUBSET Symbol]

NewSocket == [phase |-> "new", asked |-> FALSE, todo |-> {}]
Ended == [NewSocket EXCEPT !.phase = "gone"]

PC == {"free", "registered", "sending", "idle", "lost", "backoff", "connecting",
       "dial", "dial_failed", "raised", "shut", "closed"}

\* gen: the generation a thread works for; 0 in a report about whatever is
\* current.  old: the transport it will close.  retries: it connects for a
\* claimed reconnect, not for subscribe().
Process == [pc : PC, gen : Nat, old : Nat, symbols : SUBSET Symbol, retries : BOOLEAN]

Free == [pc |-> "free", gen |-> 0, old |-> 0, symbols |-> {}, retries |-> FALSE]

Init ==
  /\ state = "DISCONNECTED" /\ attempts = 0
  /\ connectedAt = "none" /\ lastMessage = "none"
  /\ subscribed = {} /\ sock = <<>> /\ sent = {} /\ timer = FALSE
  /\ proc = [t \in Thread |-> Free]
  /\ stables = 0 /\ dials = 0

At(t, pc) == proc[t].pc = pc
Goto(t, pc) == proc' = [proc EXCEPT ![t].pc = pc]
Return(t) == proc' = [proc EXCEPT ![t] = Free]

\* A report of generation g starts on each of the threads ts.
Reporting(ts, g) ==
  [t \in Thread |-> IF t \in ts THEN [Free EXCEPT !.pc = "lost", !.gen = g] ELSE proc[t]]

FreeWatchers == {w \in Watcher : At(w, "free")}

-----------------------------------------------------------------------------
(* The transport: websocket-client *)

Live == {"dialing", "opening", "open"}

\* transport.close(): nothing happens before connect() or after the end.
Shut(s, g) ==
  IF g # 0 /\ s[g].phase \in Live THEN [s EXCEPT ![g].asked = TRUE] ELSE s

\* send_json works on an open connection only.
CanSend == generation # 0 /\ sock[generation].phase = "open" /\ ~sock[generation].asked

\* The handshake completes; the on_open callback may still have to wait for
\* the lock.
Handshake(g) ==
  /\ sock[g].phase = "dialing"
  /\ sock' = [sock EXCEPT ![g].phase = "opening"]
  /\ UNCHANGED <<state, attempts, connectedAt, lastMessage, subscribed, sent, timer, proc,
                 stables, dials>>

\* The connection ends, or was closed: on_error, on_close or both report it.
Lost(g) ==
  /\ sock[g].phase \in {"dialing", "open"} /\ sock[g].todo = {}
  /\ sock' = [sock EXCEPT ![g] = Ended]
  /\ \E ts \in SUBSET FreeWatchers :
       /\ Cardinality(ts) \in 1 .. 2
       /\ proc' = Reporting(ts, g)
  /\ UNCHANGED <<state, attempts, connectedAt, lastMessage, subscribed, sent, timer, stables, dials>>

-----------------------------------------------------------------------------
(* Callbacks of the transport *)

Opened(g, check, todo, n) ==
  /\ sock[g].phase = "opening"
  /\ IF check /\ g # generation
     THEN /\ sock' = [sock EXCEPT ![g].phase = "open"]
          /\ UNCHANGED <<state, attempts, connectedAt, lastMessage, timer>>
     ELSE /\ state' = "CONNECTED"
          /\ attempts' = n
          /\ connectedAt' = "fresh" /\ lastMessage' = "recent"
          /\ sock' = [sock EXCEPT ![g].phase = "open", ![g].todo = todo]
          /\ timer' = FALSE
  /\ UNCHANGED <<subscribed, sent, proc, stables, dials>>

\* Mutants of OnOpen: no generation check; no resubscription; the attempts are
\* forgotten as soon as a connection opens.
OnOpenUnchecked(g) == Opened(g, FALSE, subscribed, attempts)
OnOpenSilent(g) == Opened(g, TRUE, {}, attempts)
OnOpenForgets(g) == Opened(g, TRUE, subscribed, 0)

\* _on_transport_open.
OnOpen(g) == Opened(g, TRUE, subscribed, attempts)

\* ... which then sends the subscriptions, on self._transport; a failure is
\* reported for the generation that opened.
SendOnOpen(g) ==
  /\ sock[g].phase = "open" /\ sock[g].todo # {}
  /\ IF CanSend
     THEN sent' = sent \cup sock[g].todo /\ UNCHANGED proc
     ELSE /\ \E w \in FreeWatchers : proc' = Reporting({w}, g)
          /\ UNCHANGED sent
  /\ sock' = [sock EXCEPT ![g].todo = {}]
  /\ UNCHANGED <<state, attempts, connectedAt, lastMessage, subscribed, timer, stables, dials>>

Heard == IF state = "CONNECTED" THEN "recent" ELSE lastMessage

\* _on_raw_message: any message of the current generation, valid or not.
OnMessage(g) ==
  /\ sock[g].phase = "open" /\ sock[g].todo = {}
  /\ g = generation
  /\ lastMessage' = Heard
  /\ UNCHANGED <<state, attempts, connectedAt, subscribed, sent, sock, timer, proc, stables, dials>>

\* _handle_packet of a server-sent disconnect reports the generation that is
\* current by then.
OnDisconnectPacket(g) ==
  /\ sock[g].phase = "open" /\ sock[g].todo = {}
  /\ g = generation
  /\ lastMessage' = Heard
  /\ \E w \in FreeWatchers : proc' = Reporting({w}, 0)
  /\ UNCHANGED <<state, attempts, connectedAt, subscribed, sent, sock, timer, stables, dials>>

\* _on_connect_timeout of an attempt that did not resolve; any other timer
\* does nothing when it fires.
OnConnectTimeout ==
  /\ timer /\ state = "CONNECTING"
  /\ timer' = FALSE
  /\ \E w \in FreeWatchers : proc' = Reporting({w}, generation)
  /\ UNCHANGED <<state, attempts, connectedAt, lastMessage, subscribed, sent, sock, stables, dials>>

-----------------------------------------------------------------------------
(* _report_connection_lost and the reconnect it claims *)

\* The dials other threads were granted and have yet to make.
Granted(t) ==
  Cardinality({u \in Thread \ {t} : proc[u].pc \in {"backoff", "connecting"}})

\* _claim_reconnect_locked, when it is not refused.
Claim(t) ==
  LET n == IF connectedAt = "stable" THEN 0 ELSE attempts
  IN  /\ connectedAt' = "none" /\ lastMessage' = "none" /\ timer' = FALSE
      /\ dials' = IF connectedAt = "stable" THEN -Granted(t) ELSE dials
      /\ IF n >= MaxReconnectAttempts
         THEN state' = "FAILED" /\ attempts' = n /\ Return(t)
         ELSE /\ state' = "RECONNECTING" /\ attempts' = n + 1
              /\ proc' = [proc EXCEPT ![t] = [Free EXCEPT !.pc = "backoff", !.retries = TRUE]]

Reported(t, refusing) ==
  LET g == IF proc[t].gen = 0 THEN generation ELSE proc[t].gen
  IN  /\ At(t, "lost")
      /\ IF g # generation \/ state \in refusing
         THEN /\ Return(t)
              /\ UNCHANGED <<state, attempts, connectedAt, lastMessage, timer, dials>>
         ELSE Claim(t)
      /\ UNCHANGED <<subscribed, sent, sock, stables>>

\* A report of a superseded generation, one made after close(), or while a
\* reconnect is in flight, does nothing.
ReportConnectionLost(t) == Reported(t, {"CLOSED", "RECONNECTING"})

\* _connect under the lock, by subscribe() or after the backoff of
\* _run_reconnect_attempt (whose own look at CLOSED this one repeats): a new
\* generation with its transport, unless the feed was closed.
Connect(t) ==
  /\ proc[t].pc \in {"connecting", "backoff"}
  /\ IF state = "CLOSED"
     THEN Return(t) /\ UNCHANGED <<state, lastMessage, sock, sent, timer, dials>>
     ELSE /\ state' = "CONNECTING" /\ lastMessage' = "none"
          /\ sock' = Append(sock, NewSocket)
          /\ sent' = {} /\ timer' = FALSE
          /\ dials' = dials + 1
          /\ proc' = [proc EXCEPT ![t].pc = "dial", ![t].gen = generation + 1,
                                  ![t].old = generation]
  /\ UNCHANGED <<attempts, connectedAt, subscribed, stables>>

Dialled(t, armed) ==
  LET g == proc[t].gen IN
  /\ At(t, "dial")
  /\ sock' = [Shut(sock, proc[t].old) EXCEPT ![g].phase = "dialing"]
  /\ timer' = IF g = generation /\ state = "CONNECTING" THEN armed ELSE timer
  /\ Return(t)
  /\ UNCHANGED <<state, attempts, connectedAt, lastMessage, subscribed, sent, stables, dials>>

\* Mutant of Dial: no connect timeout.
DialUntimed(t) == Dialled(t, FALSE)

\* Outside the lock: the previous transport is closed, the new one connected
\* and its timer started.
Dial(t) == Dialled(t, TRUE)

\* transport.connect raises: for a subscribe() this ends the command ...
DialRaises(t) ==
  /\ At(t, "dial")
  /\ sock' = [Shut(sock, proc[t].old) EXCEPT ![proc[t].gen] = Ended]
  /\ proc' = [proc EXCEPT ![t] = [Free EXCEPT
       !.pc = IF proc[t].retries THEN "dial_failed" ELSE "raised",
       !.retries = proc[t].retries]]
  /\ UNCHANGED <<state, attempts, connectedAt, lastMessage, subscribed, sent, timer, stables, dials>>

\* Mutant of RetryReconnect: the attempts are not looked at.
RetryForever(t) ==
  /\ At(t, "dial_failed")
  /\ attempts' = attempts + 1 /\ Goto(t, "backoff")
  /\ UNCHANGED <<state, connectedAt, lastMessage, subscribed, sent, sock, timer, stables, dials>>

\* ... and a reconnect tries again until its attempts are used up.
RetryReconnect(t) ==
  /\ At(t, "dial_failed")
  /\ IF attempts >= MaxReconnectAttempts
     THEN state' = "FAILED" /\ Return(t) /\ UNCHANGED attempts
     ELSE attempts' = attempts + 1 /\ Goto(t, "backoff") /\ UNCHANGED state
  /\ UNCHANGED <<connectedAt, lastMessage, subscribed, sent, sock, timer, stables, dials>>

-----------------------------------------------------------------------------
(* The polling thread *)

\* subscribe: every symbol is resolved, then they are registered ...
Register(symbols) ==
  /\ At(Main, "free") /\ symbols # {} /\ symbols \cap subscribed = {}
  /\ subscribed' = subscribed \cup symbols
  /\ proc' = [proc EXCEPT ![Main].pc = "registered", ![Main].symbols = symbols]
  /\ UNCHANGED <<state, attempts, connectedAt, lastMessage, sent, sock, timer, stables, dials>>

\* ... and the state read: a first or failed feed is connected with a fresh
\* retry budget, a connected one is sent the subscription, and one that is
\* connecting will send it when it opens.
Subscribe ==
  LET connects == state \in {"DISCONNECTED", "FAILED"}
  IN  /\ At(Main, "registered")
      /\ attempts' = IF connects THEN 0 ELSE attempts
      /\ connectedAt' = IF connects THEN "none" ELSE connectedAt
      /\ dials' = IF connects THEN -Granted(Main) ELSE dials
      /\ IF connects THEN proc' = [proc EXCEPT ![Main] = [Free EXCEPT !.pc = "connecting"]]
         ELSE IF state = "CONNECTED" THEN Goto(Main, "sending")
         ELSE Return(Main)
      /\ UNCHANGED <<state, lastMessage, subscribed, sent, sock, timer, stables>>

\* A failed send is reported by this thread, for the current generation.
SendSubscribe ==
  /\ At(Main, "sending")
  /\ IF CanSend
     THEN sent' = sent \cup proc[Main].symbols /\ Return(Main)
     ELSE proc' = Reporting({Main}, 0) /\ UNCHANGED sent
  /\ UNCHANGED <<state, attempts, connectedAt, lastMessage, subscribed, sock, timer, stables, dials>>

IdleSeen(ages) ==
  /\ At(Main, "free")
  /\ state = "CONNECTED" /\ lastMessage = "old" /\ connectedAt \in ages
  /\ Goto(Main, "idle")
  /\ UNCHANGED <<state, attempts, connectedAt, lastMessage, subscribed, sent, sock, timer,
                 stables, dials>>

\* Mutant of IdleCheck: only a connection that was stable is watched.
IdleCheckStable == IdleSeen({"stable"})

\* next_bar: _check_connected_idle_timeout reads the state and the age of the
\* last message ...
IdleCheck == IdleSeen({"none", "fresh", "stable"})

\* ... then the generation, and reports it on a thread of its own.
IdleReport ==
  /\ At(Main, "idle")
  /\ \E w \in FreeWatchers :
       proc' = [Reporting({w}, generation) EXCEPT ![Main] = Free]
  /\ UNCHANGED <<state, attempts, connectedAt, lastMessage, subscribed, sent, sock, timer,
                 stables, dials>>

\* close(), under the lock ...
Close ==
  /\ At(Main, "free")
  /\ state' = "CLOSED" /\ lastMessage' = "none" /\ timer' = FALSE
  /\ proc' = [proc EXCEPT ![Main].pc = "shut", ![Main].old = generation]
  /\ UNCHANGED <<attempts, connectedAt, subscribed, sent, sock, stables, dials>>

\* ... and outside it.
CloseTransport ==
  /\ At(Main, "shut")
  /\ sock' = Shut(sock, proc[Main].old)
  /\ proc' = [proc EXCEPT ![Main] = [Free EXCEPT !.pc = "closed"]]
  /\ UNCHANGED <<state, attempts, connectedAt, lastMessage, subscribed, sent, timer, stables, dials>>

-----------------------------------------------------------------------------
(* Time *)

Stabilise ==
  /\ connectedAt = "fresh" /\ state # "CLOSED" /\ stables < MaxStable
  /\ connectedAt' = "stable" /\ stables' = stables + 1
  /\ UNCHANGED <<state, attempts, lastMessage, subscribed, sent, sock, timer, proc, dials>>

FallSilent ==
  /\ state = "CONNECTED" /\ lastMessage = "recent"
  /\ lastMessage' = "old"
  /\ UNCHANGED <<state, attempts, connectedAt, subscribed, sent, sock, timer, proc, stables, dials>>

-----------------------------------------------------------------------------

Reconnect(t) ==
  \/ ReportConnectionLost(t) \/ Connect(t)
  \/ Dial(t) \/ DialRaises(t) \/ RetryReconnect(t)

Callback(g) ==
  OnOpen(g) \/ SendOnOpen(g) \/ OnMessage(g) \/ OnDisconnectPacket(g)

\* What the polling thread does once it is asked to.
Poll == Subscribe \/ SendSubscribe \/ IdleCheck \/ IdleReport \/ CloseTransport

Next ==
  \/ \E g \in 1 .. generation : Handshake(g) \/ Lost(g) \/ Callback(g)
  \/ OnConnectTimeout
  \/ \E t \in Thread : Reconnect(t)
  \/ \E symbols \in SUBSET Symbol : Register(symbols)
  \/ Poll \/ Close \/ Stabilise \/ FallSilent

Spec == Init /\ [][Next]_vars

\* Threads run, timers fire, a callback that has begun ends, and a transport
\* that was closed ends.  Nothing is assumed of the network.
FairSpec ==
  /\ Spec
  /\ WF_vars(OnConnectTimeout) /\ WF_vars(Poll)
  /\ \A t \in Thread : WF_vars(Reconnect(t))
  /\ WF_vars(\E g \in 1 .. generation : OnOpen(g))
  /\ WF_vars(\E g \in 1 .. generation : SendOnOpen(g))
  /\ SF_vars(\E g \in 1 .. generation : sock[g].asked /\ Lost(g))

-----------------------------------------------------------------------------
(* Type invariant *)

\* The retry budget is never exceeded, a thread works for a generation that
\* exists, and only the polling thread subscribes, polls and closes.
TypeOK ==
  /\ state \in DhanConnectionState /\ attempts \in 0 .. MaxReconnectAttempts
  /\ connectedAt \in {"none", "fresh", "stable"} /\ lastMessage \in {"none", "recent", "old"}
  /\ subscribed \subseteq Symbol /\ sock \in Seq(Socket)
  /\ sent \subseteq subscribed /\ timer \in BOOLEAN
  /\ proc \in [Thread -> Process] /\ stables \in 0 .. MaxStable /\ dials \in Int
  /\ \A t \in Thread : proc[t].gen \in 0 .. generation /\ proc[t].old \in 0 .. generation
  /\ \A w \in Watcher : proc[w].pc \in
       {"free", "lost", "backoff", "dial", "dial_failed"}

-----------------------------------------------------------------------------
(* Safety *)

\* "Nothing here is CONNECTED before on_open fires": the current transport has
\* completed its handshake whenever the feed says CONNECTED, whatever late
\* callbacks of older ones arrive.
ConnectedIsOpen == state = "CONNECTED" => sock[generation].phase \in {"open", "gone"}

Quiescent == \A t \in Thread : proc[t].pc \in {"free", "raised", "closed"}

\* A subscribe() that meets a connection being made, lost or remade is not
\* forgotten: once no callback is at work, a connected feed has sent every
\* registered symbol on the connection it has.
SubscriptionSent ==
  state = "CONNECTED" /\ Quiescent /\ CanSend
    /\ (\A g \in 1 .. generation : sock[g].todo = {})
  => subscribed \subseteq sent

\* No reconnect storm: connections that open and drop without ever being
\* stable use up the retry budget.  A dial granted before the budget was
\* refilled is not charged to it.
StormBounded == dials <= MaxReconnectAttempts + 1

\* close() is final: when it has returned, the feed stays CLOSED and no
\* transport is connected behind the caller's back.
ClosedIsFinal ==
  [][At(Main, "closed") /\ state = "CLOSED" =>
       /\ state' = "CLOSED"
       /\ \A g \in 1 .. generation :
            sock[g].phase \notin Live => sock'[g].phase \notin Live]_vars

-----------------------------------------------------------------------------
(* Liveness *)

\* An attempt is never pending for ever: a handshake that neither completes
\* nor fails is ended by the connect timeout, and retries end in FAILED.
AttemptsSettle ==
  state \in {"CONNECTING", "RECONNECTING"} ~>
    state \in {"CONNECTED", "FAILED", "CLOSED"} \/ At(Main, "raised")

\* A connection that stays up and says nothing is given up, as long as someone
\* polls the feed.
SilenceDetected ==
  state = "CONNECTED" /\ lastMessage = "old" ~>
    \/ state # "CONNECTED" \/ lastMessage = "recent"
    \/ At(Main, "closed") \/ At(Main, "raised")

=============================================================================
