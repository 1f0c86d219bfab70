------------------------------ MODULE Scheduler ------------------------------
(***************************************************************************)
(* Unattended slots: schedule tick and schedule loop (main.py) calling     *)
(* run_tick (scheduler/runner.py) over the run history that is also the    *)
(* lock (scheduler/store.py).                                              *)
(*                                                                         *)
(* Several processes may tick on one database.  A tick reads the clock     *)
(* once and uses that reading for everything it does; each of its queries  *)
(* and updates is a step, except try_start_run, which is one transaction.  *)
(* What a slot executes is left out: it takes any time and completes,      *)
(* fails or dies.                                                          *)
(***************************************************************************)
EXTENDS Integers, Sequences

CONSTANTS
  Proc,         \* processes that tick on the run database
  Slots,        \* ScheduleConfig.slots, in configured order
  ClosedDay,    \* holidays and weekends
  TicksPerDay,
  Staleness,    \* staleness_seconds
  MaxClock,     \* bound: the clock stops there
  MaxRuns,      \* bound: no slot is due once there are so many runs
  MaxFailures   \* bound: ticks that end by an error or with their process

\* [after, before) is the slot's window in the day, TicksPerDay for a before
\* of None; every is frequency_minutes, 0 for None: once per trading day.
\* A disabled slot is not listed.
Slot == [after : Nat, before : Nat, every : Nat]

ASSUME SchedulerAssumption ==
  /\ Slots \in Seq(Slot)
  /\ \A k \in DOMAIN Slots : Slots[k].after < Slots[k].before
  /\ TicksPerDay \in Nat \ {0} /\ Staleness \in Nat
  /\ MaxClock \in Nat /\ MaxRuns \in Nat /\ MaxFailures \in Nat

VARIABLES
  clock,
  runs,     \* the scheduler_runs table, a run's id is its index
  tick,     \* tick[p]: where the tick of p is
  failures

vars == <<clock, runs, tick, failures>>

Status == {"RUNNING", "COMPLETED", "FAILED", "RECLAIMED"}

\* finished_at of a run that completed or failed is the reading of its tick's
\* clock, so it equals started_at.
Run == [slot : DOMAIN Slots, started : Nat, status : Status]

Tick == [pc : {"idle", "listing", "reclaiming", "choosing", "starting", "executing"},
         now : Nat, stale : SUBSET Nat, slot : Nat, run : Nat]

Idle == [pc |-> "idle", now |-> 0, stale |-> {}, slot |-> 0, run |-> 0]

Day(t) == t \div TicksPerDay
TimeOfDay(t) == t % TicksPerDay

Running(i) == runs[i].status = "RUNNING"

\* active_lock, and the check inside try_start_run.
Locked == \E i \in DOMAIN runs : Running(i)

Init ==
  /\ clock = 0
  /\ runs = <<>>
  /\ tick = [p \in Proc |-> Idle]
  /\ failures = 0

-----------------------------------------------------------------------------
(* Due slots *)

\* The runs of slot k on the day of t with one of the given statuses.
RunsToday(k, t, statuses) ==
  {i \in DOMAIN runs : /\ runs[i].slot = k /\ Day(runs[i].started) = Day(t)
                       /\ runs[i].status \in statuses}

\* ScheduleSlot.is_due: a slot without a frequency is due until a run of it
\* completed that day, another when its latest finished run is long enough ago.
Due(k, now) ==
  LET slot == Slots[k] IN
  /\ slot.after <= TimeOfDay(now) /\ TimeOfDay(now) < slot.before
  /\ IF slot.every = 0 THEN RunsToday(k, now, {"COMPLETED"}) = {}
     ELSE \A i \in RunsToday(k, now, {"COMPLETED", "FAILED"}) :
            now - runs[i].started >= slot.every

-----------------------------------------------------------------------------
(* run_tick *)

At(p, pc) == tick[p].pc = pc
EndTick(p) == tick' = [tick EXCEPT ![p] = Idle]

BeginTick(p) ==
  /\ At(p, "idle")
  /\ tick' = [tick EXCEPT ![p].pc = "listing", ![p].now = clock]
  /\ UNCHANGED <<clock, runs, failures>>

\* Mutant of ListStale: the age of a lock is not looked at.
ListRunning(p) ==
  /\ At(p, "listing")
  /\ tick' = [tick EXCEPT ![p].pc = "reclaiming",
                          ![p].stale = {i \in DOMAIN runs : Running(i)}]
  /\ UNCHANGED <<clock, runs, failures>>

\* Mutant of ListStale: nothing is reclaimed.
ListNothing(p) ==
  /\ At(p, "listing")
  /\ tick' = [tick EXCEPT ![p].pc = "reclaiming"]
  /\ UNCHANGED <<clock, runs, failures>>

\* reclaim_stale_locks: the RUNNING rows that are old enough ...
ListStale(p) ==
  /\ At(p, "listing")
  /\ tick' = [tick EXCEPT ![p].pc = "reclaiming",
                          ![p].stale = {i \in DOMAIN runs :
                             Running(i) /\ tick[p].now - runs[i].started >= Staleness}]
  /\ UNCHANGED <<clock, runs, failures>>

\* Mutant of Finished: the update has no condition on the status.
FinishedAnyway(i, status) == [runs EXCEPT ![i].status = status]

\* finish_run: UPDATE ... WHERE status = 'RUNNING'.
Finished(i, status) == IF Running(i) THEN [runs EXCEPT ![i].status = status] ELSE runs

\* ... are finished as RECLAIMED one after the other; one that is no longer
\* RUNNING raises InvalidRunTransitionError, which ends the tick.
Reclaim(p) ==
  /\ At(p, "reclaiming")
  /\ \E i \in tick[p].stale :
       /\ runs' = Finished(i, "RECLAIMED")
       /\ IF Running(i) THEN tick' = [tick EXCEPT ![p].stale = @ \ {i}] ELSE EndTick(p)
  /\ UNCHANGED <<clock, failures>>

\* active_lock, and the checks of the day.
CheckLock(p) ==
  /\ At(p, "reclaiming") /\ tick[p].stale = {}
  /\ IF Locked \/ Day(tick[p].now) \in ClosedDay THEN EndTick(p)
     ELSE tick' = [tick EXCEPT ![p].pc = "choosing", ![p].slot = 1]
  /\ UNCHANGED <<clock, runs, failures>>

\* due_slot: the first due slot, each slot looked up on its own.
Choose(p) ==
  LET k == tick[p].slot IN
  /\ At(p, "choosing")
  /\ IF k \notin DOMAIN Slots \/ Len(runs) >= MaxRuns THEN EndTick(p)
     ELSE IF Due(k, tick[p].now) THEN tick' = [tick EXCEPT ![p].pc = "starting"]
     ELSE tick' = [tick EXCEPT ![p].slot = k + 1]
  /\ UNCHANGED <<clock, runs, failures>>

\* Mutant of TryStart: start_run, which only inserts.
StartRun(p) ==
  /\ At(p, "starting")
  /\ runs' = Append(runs, [slot |-> tick[p].slot, started |-> tick[p].now,
                           status |-> "RUNNING"])
  /\ tick' = [tick EXCEPT ![p].pc = "executing", ![p].run = Len(runs) + 1]
  /\ UNCHANGED <<clock, failures>>

\* Mutant of TryStart: the row names the slot by an index that is one too high.
StartNext(p) ==
  /\ At(p, "starting")
  /\ IF Locked THEN EndTick(p) /\ UNCHANGED runs
     ELSE /\ runs' = Append(runs, [slot |-> tick[p].slot + 1, started |-> tick[p].now,
                                   status |-> "RUNNING"])
          /\ tick' = [tick EXCEPT ![p].pc = "executing", ![p].run = Len(runs) + 1]
  /\ UNCHANGED <<clock, failures>>

\* try_start_run: nothing else may be running, then the row is inserted.
TryStart(p) ==
  /\ At(p, "starting")
  /\ IF Locked THEN EndTick(p) /\ UNCHANGED runs
     ELSE /\ runs' = Append(runs, [slot |-> tick[p].slot, started |-> tick[p].now,
                                   status |-> "RUNNING"])
          /\ tick' = [tick EXCEPT ![p].pc = "executing", ![p].run = Len(runs) + 1]
  /\ UNCHANGED <<clock, failures>>

\* The slot was executed; a run reclaimed meanwhile keeps that status.
Finish(p, status) ==
  /\ At(p, "executing") /\ status \in {"COMPLETED", "FAILED"}
  /\ runs' = Finished(tick[p].run, status)
  /\ EndTick(p)
  /\ UNCHANGED <<clock, failures>>

\* The tick ends by an error outside the slot, such as a locked database, or
\* with its process: whatever it did not write stays unwritten.
Fail(p) ==
  /\ ~At(p, "idle") /\ failures < MaxFailures
  /\ failures' = failures + 1
  /\ EndTick(p)
  /\ UNCHANGED <<clock, runs>>

Advance ==
  /\ clock < MaxClock
  /\ clock' = clock + 1
  /\ UNCHANGED <<runs, tick, failures>>

Step(p) ==
  \/ BeginTick(p) \/ ListStale(p) \/ Reclaim(p) \/ CheckLock(p)
  \/ Choose(p) \/ TryStart(p)
  \/ \E status \in {"COMPLETED", "FAILED"} : Finish(p, status)

Next == Advance \/ \E p \in Proc : Step(p) \/ Fail(p)

Spec == Init /\ [][Next]_vars

\* schedule loop ticks again and again, and what a slot executes ends.
FairSpec == Spec /\ \A p \in Proc : WF_vars(Step(p))

-----------------------------------------------------------------------------
(* Type invariant *)

\* Runs are of configured slots, and no run or tick is of the future.
TypeOK ==
  /\ clock \in 0 .. MaxClock /\ failures \in 0 .. MaxFailures
  /\ runs \in Seq(Run) /\ tick \in [Proc -> Tick]
  /\ \A i \in DOMAIN runs : runs[i].started <= clock
  /\ \A p \in Proc : tick[p].now <= clock

-----------------------------------------------------------------------------
(* Safety *)

\* The lock is exclusive: try_start_run never leaves two RUNNING rows, however
\* ticks of several processes interleave with reclaims and crashes.
OneLock == \A i, j \in DOMAIN runs : Running(i) /\ Running(j) => i = j

\* Two processes execute slots at the same time only if one of them was
\* given up: its run is RECLAIMED, and at least Staleness old.
Executing == {p \in Proc : At(p, "executing")}

OverlapOnlyWhenStale ==
  \A p, q \in Executing :
    \/ p = q
    \/ \E i \in {tick[p].run, tick[q].run} :
         runs[i].status = "RECLAIMED" /\ clock - runs[i].started >= Staleness

\* A run that has an outcome keeps it: a zombie that finishes after it was
\* reclaimed does not rewrite the audit trail, and no row is removed.
OutcomeIsFinal ==
  [][\A i \in DOMAIN runs :
       /\ i \in DOMAIN runs'
       /\ Running(i) \/ runs'[i] = runs[i]]_vars

\* A slot keeps its pace: one without a frequency completes at most once on a
\* trading day, and two finished runs of another lie its frequency apart.
SlotsKeepPace ==
  \A k \in DOMAIN Slots : \A i, j \in DOMAIN runs :
    /\ i # j /\ runs[i].slot = k /\ runs[j].slot = k
    /\ Day(runs[i].started) = Day(runs[j].started)
    =>
    /\ Slots[k].every = 0 => ~(runs[i].status = "COMPLETED" /\ runs[j].status = "COMPLETED")
    /\ Slots[k].every # 0 /\ {runs[i].status, runs[j].status} \subseteq {"COMPLETED", "FAILED"}
         /\ runs[i].started <= runs[j].started
       => runs[j].started - runs[i].started >= Slots[k].every

-----------------------------------------------------------------------------
(* Liveness *)

\* The lock of a process that is gone is not held forever: once it is stale,
\* some tick reclaims it.
StaleLockIsReleased ==
  \A i \in 1 .. MaxRuns :
    (i \in DOMAIN runs /\ Running(i) /\ clock - runs[i].started >= Staleness)
      ~> (i \in DOMAIN runs /\ ~Running(i))
=============================================================================
