--------------------------------- MODULE Fleet ---------------------------------
(***************************************************************************)
(* fleet-supervise: one supervisor and one paper-live worker per symbol    *)
(* (live/fleet_supervisor.py, live/heartbeat.py and                        *)
(* run_fleet_supervise_command of main.py).                                *)
(*                                                                         *)
(* A worker is seen from outside: it starts, writes a heartbeat and a log  *)
(* line per iteration, hangs, exits clean or with an error.  Its files     *)
(* outlive it.  What a worker does inside is the module Approval.          *)
(***************************************************************************)
EXTENDS Naturals, FiniteSets

CONSTANTS
  Symbol,
  MaxRestarts, \* max_restarts
  MaxFailures, \* bound: launches and health checks that raise
  MaxStops     \* bound: 0, or 1 when an operator may press Ctrl+C

ASSUME FleetAssumption ==
  /\ Symbol # {} /\ IsFiniteSet(Symbol)
  /\ MaxRestarts \in Nat /\ MaxFailures \in Nat /\ MaxStops \in Nat

VARIABLES
  pc,        \* where the supervisor is
  todo,      \* the symbols its current loop has still to visit
  restarts,  \* restarts[s]: the restarts of the handle of s
  statuses,  \* this cycle's statuses
  relaunched,\* this cycle's restarted_symbols
  stop,      \* stop_requested
  graceful,  \* the supervisor wrote its graceful-shutdown marker
  worker,    \* worker[s]: the last process launched for s
  heartbeat, \* heartbeat[s]: the file, younger or older than stale_after_seconds
  log,       \* log[s]: the last line that counts, new data or a gap
  failures   \* counter

files == <<heartbeat, log>>
vars == <<pc, todo, restarts, statuses, relaunched, stop, graceful, worker, files, failures>>

WorkerHealth == {"RUNNING", "EXITED_CLEAN", "EXITED_ERROR", "GAP_DETECTED",
                 "SUPERVISION_ERROR", "UNRESPONSIVE"}

Alive(s) == worker[s] \in {"starting", "running", "hung"}

Init ==
  /\ pc = "launching" /\ todo = Symbol
  /\ restarts = [s \in Symbol |-> 0]
  /\ statuses = {} /\ relaunched = {}
  /\ stop = FALSE /\ graceful = FALSE
  /\ worker = [s \in Symbol |-> "none"]
  /\ heartbeat \in [Symbol -> {"none", "stale"}]
  /\ log = [s \in Symbol |-> "none"]
  /\ failures = 0

-----------------------------------------------------------------------------
(* A worker, from outside *)

supervision == <<pc, todo, restarts, statuses, relaunched, stop, graceful, failures>>

Becomes(s, state) == worker' = [worker EXCEPT ![s] = state]

\* An iteration of the worker's loop: its heartbeat and what it printed.
Beat(s) ==
  /\ worker[s] \in {"starting", "running"}
  /\ Becomes(s, "running")
  /\ heartbeat' = [heartbeat EXCEPT ![s] = "fresh"]
  /\ \E line \in {"data", "gap"} : log' = [log EXCEPT ![s] = line]
  /\ UNCHANGED supervision

\* Its max_bars are reached, or it was interrupted.
ExitClean(s) ==
  /\ worker[s] = "running"
  /\ Becomes(s, "clean")
  /\ UNCHANGED <<supervision, files>>

Crash(s) ==
  /\ Alive(s)
  /\ Becomes(s, "error")
  /\ UNCHANGED <<supervision, files>>

Hang(s) ==
  /\ worker[s] = "running"
  /\ Becomes(s, "hung")
  /\ UNCHANGED <<supervision, files>>

\* stale_after_seconds pass without a heartbeat; a loop that runs is quicker.
HeartbeatAges(s) ==
  /\ heartbeat[s] = "fresh" /\ worker[s] # "running"
  /\ heartbeat' = [heartbeat EXCEPT ![s] = "stale"]
  /\ UNCHANGED <<supervision, worker, log>>

-----------------------------------------------------------------------------
(* check_worker_health and should_restart *)

\* Mutant of CheckWorkerHealth: the heartbeat is not looked at.
HealthByLog(s) ==
  CASE worker[s] = "clean" -> "EXITED_CLEAN"
    [] worker[s] = "error" -> "EXITED_ERROR"
    [] Alive(s) /\ log[s] = "gap" -> "GAP_DETECTED"
    [] OTHER -> "RUNNING"

CheckWorkerHealth(s) ==
  CASE worker[s] = "clean" -> "EXITED_CLEAN"
    [] worker[s] = "error" -> "EXITED_ERROR"
    [] Alive(s) /\ heartbeat[s] = "stale" -> "UNRESPONSIVE"
    [] Alive(s) /\ heartbeat[s] # "stale" /\ log[s] = "gap" -> "GAP_DETECTED"
    [] OTHER -> "RUNNING"

\* Mutant of ShouldRestart: the budget is off by one.
RestartOnceMore(s, health) == health = "EXITED_ERROR" /\ restarts[s] <= MaxRestarts

ShouldRestart(s, health) == health = "EXITED_ERROR" /\ restarts[s] < MaxRestarts

Exited == {"EXITED_CLEAN", "EXITED_ERROR"}

-----------------------------------------------------------------------------
(* run_fleet_supervise_command *)

Sleeping == pc' = "sleeping" /\ todo' = {}

\* shutdown_fleet terminates what is alive, then waits for each.
ShutdownFleet == pc' = "terminating" /\ todo' = Symbol

Launch(s) ==
  /\ pc = "launching" /\ s \in todo
  /\ Becomes(s, "starting")
  /\ IF todo = {s} THEN Sleeping ELSE pc' = pc /\ todo' = todo \ {s}
  /\ UNCHANGED <<restarts, statuses, relaunched, stop, graceful, files, failures>>

\* Mutant of LaunchFails: the workers launched so far are left behind.
LaunchFailsOpenly ==
  /\ pc = "launching" /\ failures < MaxFailures
  /\ failures' = failures + 1
  /\ pc' = "stopped" /\ todo' = {}
  /\ UNCHANGED <<restarts, statuses, relaunched, stop, graceful, worker, files>>

\* launch_worker raises: what was launched is shut down, and the command
\* exits with an error.
LaunchFails ==
  /\ pc = "launching" /\ failures < MaxFailures
  /\ failures' = failures + 1
  /\ ShutdownFleet
  /\ UNCHANGED <<restarts, statuses, relaunched, stop, graceful, worker, files>>

\* Ctrl+C, once its handler is installed; the console hands it to the
\* workers too, which exit by themselves.  It raises while the fleet is being
\* launched and, the old handler being back, in shutdown_fleet: both left out.
Interrupt ==
  /\ MaxStops > 0 /\ ~stop /\ pc \in {"sleeping", "polling"}
  /\ stop' = TRUE
  /\ UNCHANGED <<pc, todo, restarts, statuses, relaunched, graceful, worker, files, failures>>

\* The head of the loop, and the sleep.
StartCycle ==
  /\ pc = "sleeping" /\ ~stop
  /\ pc' = "polling" /\ todo' = Symbol
  /\ statuses' = {} /\ relaunched' = {}
  /\ UNCHANGED <<restarts, stop, graceful, worker, files, failures>>

StopRequested ==
  /\ pc = "sleeping" /\ stop
  /\ graceful' = TRUE
  /\ ShutdownFleet
  /\ UNCHANGED <<restarts, statuses, relaunched, stop, worker, files, failures>>

Status(s, health) == [symbol |-> s, health |-> health]

Visited(s) == pc' = pc /\ todo' = todo \ {s}

\* poll_fleet_once, one symbol: its health, and a relaunch if that is due.
PollSymbol(s) ==
  LET health == CheckWorkerHealth(s) IN
  /\ pc = "polling" /\ s \in todo /\ Visited(s)
  /\ statuses' = statuses \cup {Status(s, health)}
  /\ IF ShouldRestart(s, health)
       THEN /\ Becomes(s, "starting")
            /\ restarts' = [restarts EXCEPT ![s] = @ + 1]
            /\ relaunched' = relaunched \cup {s}
       ELSE UNCHANGED <<worker, restarts, relaunched>>
  /\ UNCHANGED <<stop, graceful, files, failures>>

\* Mutant of PollFails: the exception leaves the loop.
PollFailsOpenly(s) ==
  /\ pc = "polling" /\ s \in todo /\ failures < MaxFailures
  /\ failures' = failures + 1
  /\ ShutdownFleet
  /\ UNCHANGED <<restarts, statuses, relaunched, stop, graceful, worker, files>>

\* The check raises, or the relaunch does after the status was taken: the
\* handle is kept for the next cycle.
PollFails(s) ==
  LET health == CheckWorkerHealth(s) IN
  /\ pc = "polling" /\ s \in todo /\ failures < MaxFailures
  /\ Visited(s)
  /\ failures' = failures + 1
  /\ \E before \in SUBSET {Status(s, health)} :
       /\ before # {} => ShouldRestart(s, health)
       /\ statuses' = statuses \cup before \cup {Status(s, "SUPERVISION_ERROR")}
  /\ UNCHANGED <<restarts, relaunched, stop, graceful, worker, files>>

\* The loop ends when every status of the cycle says its worker has exited.
EndCycle ==
  /\ pc = "polling" /\ todo = {}
  /\ IF \A st \in statuses : st.health \in Exited
       THEN graceful' = TRUE /\ ShutdownFleet
       ELSE Sleeping /\ UNCHANGED graceful
  /\ UNCHANGED <<restarts, statuses, relaunched, stop, worker, files, failures>>

\* The first loop of shutdown_fleet asks, the second waits, and kills a
\* worker that has not exited in time.
Terminate ==
  /\ pc = "terminating"
  /\ pc' = "waiting"
  /\ UNCHANGED <<todo, restarts, statuses, relaunched, stop, graceful, worker, files, failures>>

WaitFor(s) ==
  /\ pc = "waiting" /\ s \in todo
  /\ worker' = IF Alive(s) THEN [worker EXCEPT ![s] = "error"] ELSE worker
  /\ todo' = todo \ {s}
  /\ pc' = IF todo = {s} THEN "stopped" ELSE pc
  /\ UNCHANGED <<restarts, statuses, relaunched, stop, graceful, files, failures>>

Worker(s) == Beat(s) \/ ExitClean(s) \/ Crash(s) \/ Hang(s) \/ HeartbeatAges(s)

Supervise(s) == Launch(s) \/ PollSymbol(s) \/ PollFails(s) \/ WaitFor(s)

Loop == StartCycle \/ StopRequested \/ EndCycle \/ Terminate

Next ==
  \/ \E s \in Symbol : Worker(s) \/ Supervise(s)
  \/ Loop \/ LaunchFails \/ Interrupt

Spec == Init /\ [][Next]_vars

\* The supervisor's process runs, and so does time.
FairSpec ==
  /\ Spec
  /\ WF_vars(Loop)
  /\ \A s \in Symbol : WF_vars(Supervise(s)) /\ WF_vars(HeartbeatAges(s))

-----------------------------------------------------------------------------
(* Properties *)

\* Types, and the restart budget of a worker.
TypeOK ==
  /\ pc \in {"launching", "sleeping", "polling", "terminating", "waiting", "stopped"}
  /\ todo \subseteq Symbol /\ relaunched \subseteq Symbol
  /\ restarts \in [Symbol -> 0 .. MaxRestarts]
  /\ statuses \subseteq [symbol : Symbol, health : WorkerHealth]
  /\ stop \in BOOLEAN /\ graceful \in BOOLEAN
  /\ worker \in [Symbol -> {"none", "starting", "running", "hung", "clean", "error"}]
  /\ heartbeat \in [Symbol -> {"none", "fresh", "stale"}]
  /\ log \in [Symbol -> {"none", "data", "gap"}]

\* However the supervisor ends (a launch that fails half way, Ctrl+C, the end
\* of its loop) it leaves no worker behind.
NoOrphans == pc = "stopped" => \A s \in Symbol : ~Alive(s)

\* One symbol's failure never stops another: while nobody asked to stop, the
\* supervisor shuts the fleet down only if it failed to launch it or found
\* every worker exited in one cycle.
HealthyKept ==
  pc = "terminating" /\ ~stop /\ (\A s \in Symbol : worker[s] # "none") =>
    \A s \in Symbol :
      /\ \E st \in statuses : st.symbol = s
      /\ \A st \in statuses : st.symbol = s => st.health \in Exited

\* A worker that hangs is reported as unresponsive, for as long as the loop
\* runs, even if the last line of its log is good.
HangIsReported ==
  \A s \in Symbol :
    worker[s] = "hung" ~>
      \/ Status(s, "UNRESPONSIVE") \in statuses
      \/ worker[s] # "hung"
      \/ pc \in {"terminating", "waiting", "stopped"}

\* main.py prints "every worker has exited -- ending supervision loop".  The
\* statuses are those from before the relaunches: workers that were restarted
\* in the same cycle are shut down with their restart budget unused.
EndsWhenAllExited ==
  pc = "terminating" /\ ~stop /\ graceful => \A s \in Symbol : ~Alive(s)

=============================================================================
