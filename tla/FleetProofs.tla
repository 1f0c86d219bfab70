------------------------------ MODULE FleetProofs ------------------------------
(***************************************************************************)
(* The safety of Fleet for any number of symbols, restarts, failing        *)
(* launches and failing health checks.                                     *)
(***************************************************************************)
EXTENDS Fleet, TLAPS

\* While the fleet is launched, the symbols still to come have no worker.
LaunchingHasWork ==
  pc = "launching" => todo # {} /\ \A s \in todo : worker[s] = "none"

\* Every symbol that a cycle has visited has a status.
VisitedHaveStatus ==
  pc = "polling" => \A s \in Symbol \ todo : \E st \in statuses : st.symbol = s

\* The shutdown asks for all, and what it has waited for is gone.
WaitedAreGone ==
  /\ pc = "terminating" => todo = Symbol
  /\ pc = "waiting" => \A s \in Symbol \ todo : ~Alive(s)

FleetInv ==
  /\ TypeOK
  /\ LaunchingHasWork /\ VisitedHaveStatus /\ WaitedAreGone
  /\ NoOrphans /\ HealthyKept

-----------------------------------------------------------------------------

LEMMA InitFleetInv == Init => FleetInv
  <1> SUFFICES ASSUME Init PROVE FleetInv
    OBVIOUS
  <1>1. \A x \in {"none", "stale"} : x \in {"none", "fresh", "stale"}
    OBVIOUS
  <1>2. heartbeat \in [Symbol -> {"none", "fresh", "stale"}]
    BY <1>1 DEF Init
  <1>3. TypeOK
    <2>1. restarts \in [Symbol -> 0 .. MaxRestarts]
      BY FleetAssumption DEF Init
    <2>2. /\ worker \in [Symbol -> {"none", "starting", "running", "hung", "clean", "error"}]
          /\ log \in [Symbol -> {"none", "data", "gap"}]
      BY DEF Init
    <2> QED
      BY <1>2, <2>1, <2>2 DEF Init, TypeOK
  <1>4. LaunchingHasWork /\ VisitedHaveStatus /\ WaitedAreGone
    BY FleetAssumption DEF Init, LaunchingHasWork, VisitedHaveStatus, WaitedAreGone
  <1>5. NoOrphans /\ HealthyKept
    BY DEF Init, NoOrphans, HealthyKept
  <1> QED
    BY <1>3, <1>4, <1>5 DEF FleetInv

\* A worker that is not alive stays so, whatever the workers do, and one that
\* was never launched is never anything else.
LEMMA WorkersOnlyEnd ==
  ASSUME TypeOK, NEW s \in Symbol, Worker(s)
  PROVE  /\ UNCHANGED supervision
         /\ worker' \in [Symbol -> {"none", "starting", "running", "hung", "clean", "error"}]
         /\ heartbeat' \in [Symbol -> {"none", "fresh", "stale"}]
         /\ log' \in [Symbol -> {"none", "data", "gap"}]
         /\ \A r \in Symbol : ~Alive(r) => worker'[r] = worker[r]
         /\ \A r \in Symbol : worker[r] = "none" <=> worker'[r] = "none"
  <1>1. CASE Beat(s)
    BY <1>1 DEF Beat, Becomes, TypeOK, Alive
  <1>2. CASE ExitClean(s)
    BY <1>2 DEF ExitClean, Becomes, TypeOK, Alive, files
  <1>3. CASE Crash(s)
    BY <1>3 DEF Crash, Becomes, TypeOK, Alive, files
  <1>4. CASE Hang(s)
    BY <1>4 DEF Hang, Becomes, TypeOK, Alive, files
  <1>5. CASE HeartbeatAges(s)
    BY <1>5 DEF HeartbeatAges, TypeOK, Alive
  <1> QED
    BY <1>1, <1>2, <1>3, <1>4, <1>5 DEF Worker

LEMMA WorkerKeepsFleetInv ==
  ASSUME FleetInv, NEW s \in Symbol, Worker(s)
  PROVE  FleetInv'
  <1>1. TypeOK
    BY DEF FleetInv
  <1>2. /\ UNCHANGED supervision
        /\ worker' \in [Symbol -> {"none", "starting", "running", "hung", "clean", "error"}]
        /\ heartbeat' \in [Symbol -> {"none", "fresh", "stale"}]
        /\ log' \in [Symbol -> {"none", "data", "gap"}]
        /\ \A r \in Symbol : ~Alive(r) => worker'[r] = worker[r]
        /\ \A r \in Symbol : worker[r] = "none" <=> worker'[r] = "none"
    BY <1>1, WorkersOnlyEnd
  <1>3. \A r \in Symbol : ~Alive(r) => ~Alive(r)'
    BY <1>2 DEF Alive
  <1>4. TypeOK'
    BY <1>1, <1>2 DEF TypeOK, supervision
  <1>5. (LaunchingHasWork /\ VisitedHaveStatus /\ WaitedAreGone)'
    BY <1>1, <1>2, <1>3
    DEF FleetInv, TypeOK, LaunchingHasWork, VisitedHaveStatus, WaitedAreGone, supervision
  <1>6. NoOrphans'
    BY <1>2, <1>3 DEF FleetInv, NoOrphans, supervision
  <1>7. HealthyKept'
    BY <1>2 DEF FleetInv, HealthyKept, supervision
  <1> QED
    BY <1>4, <1>5, <1>6, <1>7 DEF FleetInv

LEMMA HealthIsOne ==
  ASSUME NEW s \in Symbol
  PROVE  CheckWorkerHealth(s) \in WorkerHealth
  <1>1. CASE worker[s] = "clean" \/ worker[s] = "error"
    BY <1>1, Zenon DEF CheckWorkerHealth, WorkerHealth
  <1>2. CASE ~(worker[s] = "clean" \/ worker[s] = "error")
    BY <1>2, ZenonT(30) DEF CheckWorkerHealth, WorkerHealth
  <1> QED
    BY <1>1, <1>2

LEMMA VisitingGivesStatus ==
  ASSUME VisitedHaveStatus, NEW s \in Symbol, pc = "polling",
         todo' = todo \ {s}, statuses \subseteq statuses', \E st \in statuses' : st.symbol = s
  PROVE  VisitedHaveStatus'
  <1> SUFFICES ASSUME NEW r \in Symbol \ todo'
               PROVE  \E st \in statuses' : st.symbol = r
    BY DEF VisitedHaveStatus
  <1>1. CASE r = s
    BY <1>1
  <1>2. CASE r # s
    <2>1. r \in Symbol \ todo
      BY <1>2
    <2>2. PICK st \in statuses : st.symbol = r
      BY <2>1 DEF VisitedHaveStatus
    <2> QED
      BY <2>2
  <1> QED
    BY <1>1, <1>2

LEMMA SuperviseKeepsFleetInv ==
  ASSUME FleetInv, NEW s \in Symbol, Supervise(s)
  PROVE  FleetInv'
  <1> USE FleetAssumption
  <1>1. CASE Launch(s)
    BY <1>1
    DEF Launch, Sleeping, Becomes, files, FleetInv, TypeOK, LaunchingHasWork,
        VisitedHaveStatus, WaitedAreGone, NoOrphans, HealthyKept, Alive
  <1>2. CASE PollSymbol(s)
    <2>1. CheckWorkerHealth(s) \in WorkerHealth
      BY HealthIsOne
    <2>2. TypeOK'
      BY <1>2, <2>1
      DEF PollSymbol, Visited, Status, ShouldRestart, Becomes, files, FleetInv, TypeOK
    <2>3. VisitedHaveStatus'
      <3>1. /\ pc = "polling" /\ todo' = todo \ {s} /\ statuses \subseteq statuses'
            /\ Status(s, CheckWorkerHealth(s)) \in statuses'
        BY <1>2 DEF PollSymbol, Visited
      <3>2. \E st \in statuses' : st.symbol = s
        BY <3>1 DEF Status
      <3> QED
        BY <3>1, <3>2, VisitingGivesStatus DEF FleetInv
    <2>4. pc' = "polling"
      BY <1>2 DEF PollSymbol, Visited
    <2> QED
      BY <2>2, <2>3, <2>4
      DEF FleetInv, LaunchingHasWork, WaitedAreGone, NoOrphans, HealthyKept
  <1>3. CASE PollFails(s)
    <2>1. CheckWorkerHealth(s) \in WorkerHealth
      BY HealthIsOne
    <2>2. TypeOK'
      BY <1>3, <2>1
      DEF PollFails, Visited, Status, files, FleetInv, TypeOK, WorkerHealth
    <2>3. VisitedHaveStatus'
      <3>1. /\ pc = "polling" /\ todo' = todo \ {s} /\ statuses \subseteq statuses'
            /\ Status(s, "SUPERVISION_ERROR") \in statuses'
        BY <1>3 DEF PollFails, Visited
      <3>2. \E st \in statuses' : st.symbol = s
        BY <3>1 DEF Status
      <3> QED
        BY <3>1, <3>2, VisitingGivesStatus DEF FleetInv
    <2>4. pc' = "polling"
      BY <1>3 DEF PollFails, Visited
    <2> QED
      BY <2>2, <2>3, <2>4
      DEF FleetInv, LaunchingHasWork, WaitedAreGone, NoOrphans, HealthyKept
  <1>4. CASE WaitFor(s)
    <2>1. TypeOK'
      BY <1>4 DEF WaitFor, files, FleetInv, TypeOK
    <2>2. \A r \in Symbol \ todo' : ~Alive(r)'
      BY <1>4 DEF WaitFor, FleetInv, TypeOK, WaitedAreGone, Alive
    <2>3. pc' = "stopped" => todo' = {}
      BY <1>4 DEF WaitFor
    <2>4. pc' \in {"waiting", "stopped"}
      BY <1>4 DEF WaitFor
    <2> QED
      BY <2>1, <2>2, <2>3, <2>4
      DEF FleetInv, LaunchingHasWork, VisitedHaveStatus, WaitedAreGone, NoOrphans, HealthyKept
  <1> QED
    BY <1>1, <1>2, <1>3, <1>4 DEF Supervise

LEMMA LoopKeepsFleetInv ==
  ASSUME FleetInv, Loop \/ LaunchFails \/ Interrupt
  PROVE  FleetInv'
  <1>1. CASE StartCycle
    BY <1>1
    DEF StartCycle, files, FleetInv, TypeOK, LaunchingHasWork, VisitedHaveStatus,
        WaitedAreGone, NoOrphans, HealthyKept
  <1>2. CASE StopRequested
    BY <1>2
    DEF StopRequested, ShutdownFleet, files, FleetInv, TypeOK, LaunchingHasWork,
        VisitedHaveStatus, WaitedAreGone, NoOrphans, HealthyKept
  <1>3. CASE EndCycle
    <2>1. TypeOK'
      BY <1>3 DEF EndCycle, Sleeping, ShutdownFleet, files, FleetInv, TypeOK
    <2>2. CASE \A st \in statuses : st.health \in Exited
      <3>1. pc' = "terminating" /\ todo' = Symbol /\ statuses' = statuses
        BY <1>3, <2>2 DEF EndCycle, ShutdownFleet
      <3>2. \A r \in Symbol : \E st \in statuses : st.symbol = r
        BY <1>3 DEF EndCycle, FleetInv, VisitedHaveStatus
      <3>3. HealthyKept'
        BY <2>2, <3>1, <3>2 DEF HealthyKept
      <3> QED
        BY <2>1, <3>1, <3>3
        DEF FleetInv, LaunchingHasWork, VisitedHaveStatus, WaitedAreGone, NoOrphans
    <2>3. CASE ~\A st \in statuses : st.health \in Exited
      <3>1. pc' = "sleeping"
        BY <1>3, <2>3 DEF EndCycle, Sleeping
      <3> QED
        BY <2>1, <3>1
        DEF FleetInv, LaunchingHasWork, VisitedHaveStatus, WaitedAreGone, NoOrphans, HealthyKept
    <2> QED
      BY <2>2, <2>3
  <1>4. CASE Terminate
    BY <1>4
    DEF Terminate, files, FleetInv, TypeOK, LaunchingHasWork, VisitedHaveStatus,
        WaitedAreGone, NoOrphans, HealthyKept
  <1>5. CASE LaunchFails
    BY <1>5
    DEF LaunchFails, ShutdownFleet, files, FleetInv, TypeOK, LaunchingHasWork,
        VisitedHaveStatus, WaitedAreGone, NoOrphans, HealthyKept
  <1>6. CASE Interrupt
    BY <1>6
    DEF Interrupt, files, FleetInv, TypeOK, LaunchingHasWork, VisitedHaveStatus,
        WaitedAreGone, NoOrphans, HealthyKept, Alive
  <1> QED
    BY <1>1, <1>2, <1>3, <1>4, <1>5, <1>6 DEF Loop

LEMMA StutterKeepsFleetInv ==
  ASSUME FleetInv, UNCHANGED vars
  PROVE  FleetInv'
  BY DEF vars, files, FleetInv, TypeOK, LaunchingHasWork, VisitedHaveStatus,
         WaitedAreGone, NoOrphans, HealthyKept, Alive

LEMMA FleetInvariant == Spec => []FleetInv
  <1>1. FleetInv /\ [Next]_vars => FleetInv'
    BY WorkerKeepsFleetInv, SuperviseKeepsFleetInv, LoopKeepsFleetInv, StutterKeepsFleetInv
    DEF Next
  <1> QED
    BY <1>1, InitFleetInv, PTL DEF Spec

-----------------------------------------------------------------------------

\* The handles of live/fleet_supervisor.py are well typed, and no worker is
\* restarted more than max_restarts times.
THEOREM FleetTypeCorrect == Spec => []TypeOK
  BY FleetInvariant, PTL DEF FleetInv

\* However run_fleet_supervise_command ends, shutdown_fleet has ended every
\* worker, those of a launch that failed half way included.
THEOREM NoWorkerOutlives == Spec => []NoOrphans
  BY FleetInvariant, PTL DEF FleetInv

\* A failing check or relaunch in poll_fleet_once never shuts the fleet down.
THEOREM FailureIsIsolated == Spec => []HealthyKept
  BY FleetInvariant, PTL DEF FleetInv

=============================================================================
