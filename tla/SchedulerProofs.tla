--------------------------- MODULE SchedulerProofs ---------------------------
(***************************************************************************)
(* The run history is a lock, and an audit trail, for every number of      *)
(* processes, slots, runs, failures and every staleness.                   *)
(*                                                                         *)
(* OneLock is not inductive for the statement that matters to the          *)
(* operator, OverlapOnlyWhenStale: a process that executes says nothing of *)
(* the row it started.  The invariant below adds what ties the two: an     *)
(* executing process owns a row of its own, that row is RUNNING or was     *)
(* reclaimed when it was stale, and a row on a list to reclaim is stale.   *)
(***************************************************************************)
EXTENDS Scheduler, TLAPS

SlotChosen == \A p \in Proc : At(p, "starting") => tick[p].slot \in DOMAIN Slots

ListedAreStale ==
  \A p \in Proc : At(p, "reclaiming") =>
    \A i \in tick[p].stale : i \in DOMAIN runs /\ tick[p].now - runs[i].started >= Staleness

GivenUp(i) == runs[i].status = "RECLAIMED" /\ clock - runs[i].started >= Staleness

ExecutingOwns ==
  \A p \in Proc : At(p, "executing") =>
    /\ tick[p].run \in DOMAIN runs
    /\ Running(tick[p].run) \/ GivenUp(tick[p].run)

OwnersDiffer ==
  \A p, q \in Proc :
    At(p, "executing") /\ At(q, "executing") /\ p # q => tick[p].run # tick[q].run

SchedulerInv ==
  TypeOK /\ SlotChosen /\ ListedAreStale /\ OneLock /\ ExecutingOwns /\ OwnersDiffer

-----------------------------------------------------------------------------
(* What finish_run and try_start_run do to the history *)

\* finish_run keeps the rows, and changes nothing but the status of a row
\* that is RUNNING.
LEMMA FinishedRows ==
  ASSUME runs \in Seq(Run), NEW i \in DOMAIN runs, NEW status \in Status
  PROVE  /\ Finished(i, status) \in Seq(Run)
         /\ DOMAIN Finished(i, status) = DOMAIN runs
         /\ \A j \in DOMAIN runs :
              /\ Finished(i, status)[j].started = runs[j].started
              /\ Finished(i, status)[j].status
                   = IF j = i /\ Running(i) THEN status ELSE runs[j].status
              /\ ~Running(j) \/ j # i => Finished(i, status)[j] = runs[j]
<1>1. CASE ~Running(i)
  BY <1>1 DEF Finished
<1>2. CASE Running(i)
  <2>1. runs[i] \in Run
    OBVIOUS
  <2>2. [runs[i] EXCEPT !.status = status] \in Run
    BY <2>1 DEF Run
  <2>3. Finished(i, status) = [runs EXCEPT ![i] = [runs[i] EXCEPT !.status = status]]
    BY <1>2 DEF Finished
  <2>4. Finished(i, status) \in Seq(Run)
    BY <2>2, <2>3
  <2>5. DOMAIN Finished(i, status) = DOMAIN runs
    BY <2>3
  <2>6. ASSUME NEW j \in DOMAIN runs
        PROVE  /\ Finished(i, status)[j].started = runs[j].started
               /\ Finished(i, status)[j].status = IF j = i THEN status ELSE runs[j].status
               /\ j # i => Finished(i, status)[j] = runs[j]
    <3>1. runs[j] \in Run
      OBVIOUS
    <3>2. CASE j = i
      BY <2>1, <2>3, <3>2 DEF Run
    <3>3. CASE j # i
      BY <2>3, <3>3
    <3> QED BY <3>2, <3>3
  <2> QED BY <1>2, <2>4, <2>5, <2>6
<1> QED BY <1>1, <1>2

\* The started row comes after all others, which stay as they are.
LEMMA AppendedRows ==
  ASSUME runs \in Seq(Run), NEW r \in Run
  PROVE  /\ Append(runs, r) \in Seq(Run)
         /\ DOMAIN Append(runs, r) = DOMAIN runs \cup {Len(runs) + 1}
         /\ Len(runs) + 1 \notin DOMAIN runs
         /\ Append(runs, r)[Len(runs) + 1] = r
         /\ \A j \in DOMAIN runs : Append(runs, r)[j] = runs[j]
  OBVIOUS

-----------------------------------------------------------------------------
(* One action at a time *)

\* The next state relation, one disjunct per action: what the case analyses
\* below split on.
LEMMA NextCases ==
  ASSUME Next
  PROVE  \/ Advance
         \/ \E p \in Proc :
              \/ BeginTick(p) \/ ListStale(p) \/ Reclaim(p) \/ CheckLock(p)
              \/ Choose(p) \/ TryStart(p) \/ Fail(p)
              \/ \E status \in {"COMPLETED", "FAILED"} : Finish(p, status)
  BY DEF Next, Step

\* The records that the actions write are ticks.
LEMMA BeginsAt ==
  ASSUME NEW r \in Tick, NEW c \in Nat
  PROVE  LET t == [r EXCEPT !.pc = "listing", !.now = c]
         IN  t \in Tick /\ t.pc = "listing" /\ t.now = c
  BY DEF Tick

LEMMA Lists ==
  ASSUME NEW r \in Tick, NEW s \in SUBSET Nat
  PROVE  LET t == [r EXCEPT !.pc = "reclaiming", !.stale = s]
         IN  t \in Tick /\ t.pc = "reclaiming" /\ t.now = r.now /\ t.stale = s
  BY DEF Tick

LEMMA Reclaims ==
  ASSUME NEW r \in Tick, NEW s \in SUBSET Nat
  PROVE  LET t == [r EXCEPT !.stale = s]
         IN  t \in Tick /\ t.pc = r.pc /\ t.now = r.now /\ t.stale = s
  BY DEF Tick

LEMMA Chooses ==
  ASSUME NEW r \in Tick
  PROVE  LET t == [r EXCEPT !.pc = "choosing", !.slot = 1]
         IN  t \in Tick /\ t.pc = "choosing" /\ t.now = r.now
  BY DEF Tick

LEMMA Skips ==
  ASSUME NEW r \in Tick, NEW k \in Nat
  PROVE  LET t == [r EXCEPT !.slot = k]
         IN  t \in Tick /\ t.pc = r.pc /\ t.now = r.now
  BY DEF Tick

LEMMA Chosen ==
  ASSUME NEW r \in Tick
  PROVE  LET t == [r EXCEPT !.pc = "starting"]
         IN  t \in Tick /\ t.pc = "starting" /\ t.now = r.now /\ t.slot = r.slot
  BY DEF Tick

LEMMA Executes ==
  ASSUME NEW r \in Tick, NEW k \in Nat
  PROVE  LET t == [r EXCEPT !.pc = "executing", !.run = k]
         IN  t \in Tick /\ t.pc = "executing" /\ t.now = r.now /\ t.run = k
  BY DEF Tick

\* Before the first tick there is nothing to lock and nobody to hold it.
LEMMA InitSchedulerInv == Init => SchedulerInv
<1> SUFFICES ASSUME Init PROVE SchedulerInv
  OBVIOUS
<1>1. TypeOK
  BY SchedulerAssumption DEF Init, TypeOK, Idle, Tick
<1>2. \A p \in Proc : At(p, "idle")
  BY DEF Init, At, Idle
<1>3. SlotChosen /\ ListedAreStale /\ ExecutingOwns /\ OwnersDiffer
  BY <1>2 DEF SlotChosen, ListedAreStale, ExecutingOwns, OwnersDiffer, At
<1>4. OneLock
  BY DEF Init, OneLock
<1> QED BY <1>1, <1>3, <1>4 DEF SchedulerInv

\* An action that leaves the history and the clock alone, and lets a process
\* neither choose a slot that does not exist, nor list a row that is not stale,
\* nor start to execute, keeps the invariant.
LEMMA TickStep ==
  ASSUME SchedulerInv, NEW p \in Proc, NEW t \in Tick,
         tick' = [tick EXCEPT ![p] = t], UNCHANGED <<clock, runs>>,
         failures' \in 0 .. MaxFailures, t.now <= clock,
         t.pc # "executing",
         t.pc = "starting" => t.slot \in DOMAIN Slots,
         t.pc = "reclaiming" =>
           \A i \in t.stale : i \in DOMAIN runs /\ t.now - runs[i].started >= Staleness
  PROVE  SchedulerInv'
<1> USE DEF SchedulerInv
<1>1. /\ tick' \in [Proc -> Tick] /\ tick'[p] = t
      /\ \A q \in Proc \ {p} : tick'[q] = tick[q]
  BY DEF TypeOK
<1>2. TypeOK'
  BY <1>1 DEF TypeOK
<1>3. SlotChosen'
  BY <1>1 DEF SlotChosen, At
<1>4. ListedAreStale'
  BY <1>1 DEF ListedAreStale, At
<1>5. OneLock'
  BY DEF OneLock, Running
<1>6. ExecutingOwns'
  BY <1>1 DEF ExecutingOwns, At, Running, GivenUp
<1>7. OwnersDiffer'
  BY <1>1 DEF OwnersDiffer, At
<1> QED BY <1>2, <1>3, <1>4, <1>5, <1>6, <1>7

\* The same for an action that also gives a row an outcome: RECLAIMED if the
\* row was stale, any if the process of the step was the one that executes it.
LEMMA FinishStep ==
  ASSUME SchedulerInv, NEW p \in Proc, NEW t \in Tick,
         NEW i \in DOMAIN runs, NEW status \in Status \ {"RUNNING"},
         tick' = [tick EXCEPT ![p] = t], runs' = Finished(i, status),
         UNCHANGED <<clock, failures>>, t.now <= clock,
         \/ t.pc = "idle"
         \/ t.pc = "reclaiming" /\ At(p, "reclaiming") /\ t.now = tick[p].now
              /\ t.stale \subseteq tick[p].stale,
         \/ status = "RECLAIMED" /\ clock - runs[i].started >= Staleness
         \/ At(p, "executing") /\ tick[p].run = i
  PROVE  SchedulerInv'
<1> USE DEF SchedulerInv
<1>1. /\ tick' \in [Proc -> Tick] /\ tick'[p] = t
      /\ \A q \in Proc \ {p} : tick'[q] = tick[q]
  BY DEF TypeOK
<1>2. /\ runs' \in Seq(Run) /\ DOMAIN runs' = DOMAIN runs
      /\ \A j \in DOMAIN runs :
           /\ runs'[j].started = runs[j].started
           /\ runs'[j].status = IF j = i /\ Running(i) THEN status ELSE runs[j].status
  BY FinishedRows DEF TypeOK
<1>3. TypeOK'
  BY <1>1, <1>2 DEF TypeOK
<1>4. SlotChosen'
  BY <1>1 DEF SlotChosen, At
<1>5. ListedAreStale'
  BY <1>1, <1>2 DEF ListedAreStale, At
<1>6. OneLock'
  BY <1>2 DEF OneLock, Running
<1>7. OwnersDiffer'
  BY <1>1 DEF OwnersDiffer, At
<1>8. ExecutingOwns'
  <2> SUFFICES ASSUME NEW q \in Proc, tick'[q].pc = "executing"
               PROVE  /\ tick'[q].run \in DOMAIN runs'
                      /\ \/ runs'[tick'[q].run].status = "RUNNING"
                         \/ /\ runs'[tick'[q].run].status = "RECLAIMED"
                            /\ clock' - runs'[tick'[q].run].started >= Staleness
    BY DEF ExecutingOwns, At, GivenUp, Running
  <2>1. q # p /\ At(q, "executing") /\ tick'[q] = tick[q]
    BY <1>1 DEF At
  <2>2. tick[q].run \in DOMAIN runs /\ (Running(tick[q].run) \/ GivenUp(tick[q].run))
    BY <2>1 DEF ExecutingOwns
  <2>3. CASE tick[q].run # i \/ ~Running(i)
    BY <1>2, <2>1, <2>2, <2>3 DEF Running, GivenUp
  <2>4. CASE tick[q].run = i /\ Running(i)
    <3>1. status = "RECLAIMED" /\ clock - runs[i].started >= Staleness
      BY <2>1, <2>4 DEF OwnersDiffer
    <3> QED BY <1>2, <2>1, <2>2, <2>4, <3>1
  <2> QED BY <2>3, <2>4
<1> QED BY <1>3, <1>4, <1>5, <1>6, <1>7, <1>8

\* try_start_run, when it starts: the history was unlocked, so the new row is
\* the only one that is RUNNING, and it belongs to no other process.
LEMMA StartStep ==
  ASSUME SchedulerInv, NEW p \in Proc, At(p, "starting"), ~Locked, TryStart(p)
  PROVE  SchedulerInv'
<1> USE DEF SchedulerInv
<1> DEFINE n == Len(runs) + 1
           r == [slot |-> tick[p].slot, started |-> tick[p].now, status |-> "RUNNING"]
           t == [tick[p] EXCEPT !.pc = "executing", !.run = n]
<1>1. tick[p] \in Tick /\ tick[p].slot \in DOMAIN Slots /\ runs \in Seq(Run) /\ n \in Nat
  BY DEF TypeOK, SlotChosen
<1>2. r \in Run /\ r.status = "RUNNING" /\ r.started = tick[p].now
  BY <1>1 DEF Run, Status, Tick
<1>3. t \in Tick /\ t.pc = "executing" /\ t.run = n /\ t.now = tick[p].now
  BY <1>1, Executes
<1>4. runs' = Append(runs, r) /\ tick' = [tick EXCEPT ![p] = t] /\ UNCHANGED <<clock, failures>>
  BY DEF TryStart
<1> HIDE DEF r, t
<1>5. /\ runs' \in Seq(Run) /\ DOMAIN runs' = DOMAIN runs \cup {n} /\ n \notin DOMAIN runs
      /\ runs'[n] = r /\ \A j \in DOMAIN runs : runs'[j] = runs[j]
  BY <1>1, <1>2, <1>4, AppendedRows
<1> HIDE DEF n
<1>6. /\ tick' \in [Proc -> Tick] /\ tick'[p] = t
      /\ \A q \in Proc \ {p} : tick'[q] = tick[q]
  BY <1>3, <1>4 DEF TypeOK
<1>7. TypeOK'
  BY <1>2, <1>3, <1>4, <1>5, <1>6 DEF TypeOK
<1>8. SlotChosen'
  BY <1>3, <1>6 DEF SlotChosen, At
<1>9. ListedAreStale'
  BY <1>3, <1>5, <1>6 DEF ListedAreStale, At
<1>10. OneLock'
  BY <1>5 DEF OneLock, Locked, Running
<1>11. ExecutingOwns'
  BY <1>2, <1>3, <1>4, <1>5, <1>6 DEF ExecutingOwns, At, Running, GivenUp
<1>12. OwnersDiffer'
  BY <1>3, <1>5, <1>6 DEF OwnersDiffer, ExecutingOwns, At
<1> QED BY <1>7, <1>8, <1>9, <1>10, <1>11, <1>12

LEMMA SchedulerStep == SchedulerInv /\ [Next]_vars => SchedulerInv'
<1> SUFFICES ASSUME SchedulerInv, [Next]_vars PROVE SchedulerInv'
  OBVIOUS
<1>0. TypeOK /\ SlotChosen /\ ListedAreStale
  BY DEF SchedulerInv
<1>1. /\ runs \in Seq(Run) /\ clock \in Nat /\ failures \in 0 .. MaxFailures
      /\ \A p \in Proc : tick[p] \in Tick /\ tick[p].now \in Nat /\ tick[p].now <= clock
      /\ \A i \in DOMAIN runs : runs[i].started \in Nat
  <2>1. runs \in Seq(Run) /\ \A i \in DOMAIN runs : runs[i] \in Run
    BY <1>0 DEF TypeOK
  <2>2. \A r \in Run : r.started \in Nat
    BY DEF Run
  <2> QED BY <1>0, <2>1, <2>2, SchedulerAssumption DEF TypeOK, Tick
<1>2. Idle \in Tick /\ Idle.now <= clock /\ Idle.pc = "idle"
  BY <1>1 DEF Idle, Tick
<1>3. CASE UNCHANGED vars
  BY <1>3 DEF vars, SchedulerInv, TypeOK, SlotChosen, ListedAreStale, OneLock,
              ExecutingOwns, OwnersDiffer, At, Running, GivenUp
<1>4. CASE Advance
  <2>1. clock' = clock + 1 /\ UNCHANGED <<runs, tick, failures>> /\ clock < MaxClock
    BY <1>4 DEF Advance
  <2>2. \A i \in DOMAIN runs : runs[i].started \in Nat
    BY <1>1
  <2>3. TypeOK'
    BY <1>0, <1>1, <2>1, <2>2, SchedulerAssumption DEF TypeOK
  <2>4. SlotChosen' /\ ListedAreStale' /\ OneLock' /\ OwnersDiffer'
    BY <2>1 DEF SchedulerInv, SlotChosen, ListedAreStale, OneLock, OwnersDiffer, At, Running
  <2>5. ExecutingOwns'
    BY <1>1, <2>1, <2>2, SchedulerAssumption
       DEF SchedulerInv, ExecutingOwns, At, Running, GivenUp
  <2> QED BY <2>3, <2>4, <2>5 DEF SchedulerInv
<1>5. ASSUME NEW p \in Proc, BeginTick(p) PROVE SchedulerInv'
  <2> DEFINE t == [tick[p] EXCEPT !.pc = "listing", !.now = clock]
  <2>1. t \in Tick /\ t.now <= clock /\ t.pc = "listing"
    <3>1. t \in Tick /\ t.pc = "listing" /\ t.now = clock
      BY <1>1, BeginsAt, Zenon
    <3> HIDE DEF t
    <3> QED BY <1>1, <3>1
  <2>2. tick' = [tick EXCEPT ![p] = t] /\ UNCHANGED <<clock, runs, failures>>
    BY <1>5 DEF BeginTick
  <2> HIDE DEF t
  <2> QED BY <1>1, <2>1, <2>2, TickStep
<1>6. ASSUME NEW p \in Proc, ListStale(p) PROVE SchedulerInv'
  <2> DEFINE s == {i \in DOMAIN runs : Running(i) /\ tick[p].now - runs[i].started >= Staleness}
             t == [tick[p] EXCEPT !.pc = "reclaiming", !.stale = s]
  <2>1. /\ s \subseteq Nat
        /\ \A i \in s : i \in DOMAIN runs /\ tick[p].now - runs[i].started >= Staleness
    BY <1>1
  <2>2. tick' = [tick EXCEPT ![p] = t] /\ UNCHANGED <<clock, runs, failures>>
    BY <1>6 DEF ListStale
  <2> HIDE DEF s
  <2>3. t \in Tick /\ t.now = tick[p].now /\ t.stale = s /\ t.pc = "reclaiming"
    BY <1>1, <2>1, Lists
  <2> HIDE DEF t
  <2> QED BY <1>1, <2>1, <2>2, <2>3, TickStep
<1>7. ASSUME NEW p \in Proc, Reclaim(p) PROVE SchedulerInv'
  <2>1. PICK i \in tick[p].stale :
          /\ runs' = Finished(i, "RECLAIMED")
          /\ tick' = IF Running(i) THEN [tick EXCEPT ![p].stale = @ \ {i}]
                     ELSE [tick EXCEPT ![p] = Idle]
    BY <1>7 DEF Reclaim, EndTick
  <2>2. At(p, "reclaiming") /\ UNCHANGED <<clock, failures>>
    BY <1>7 DEF Reclaim
  <2>3. /\ i \in DOMAIN runs /\ runs[i].started \in Nat
        /\ tick[p].now - runs[i].started >= Staleness
    BY <1>0, <1>1, <2>1, <2>2 DEF ListedAreStale
  <2>4. clock - runs[i].started >= Staleness /\ "RECLAIMED" \in Status \ {"RUNNING"}
    BY <1>1, <2>3, SchedulerAssumption DEF Status
  <2> DEFINE s == tick[p].stale \ {i}
             t == [tick[p] EXCEPT !.stale = s]
  <2>5. t \in Tick /\ t.pc = "reclaiming" /\ t.now = tick[p].now /\ t.stale \subseteq tick[p].stale
    <3>1. s \subseteq tick[p].stale /\ s \in SUBSET Nat
      BY <1>1 DEF Tick
    <3> HIDE DEF s
    <3> QED BY <1>1, <2>2, <3>1, Reclaims DEF At
  <2>6. tick' = [tick EXCEPT ![p] = t] \/ tick' = [tick EXCEPT ![p] = Idle]
    BY <2>1
  <2> HIDE DEF s, t
  <2>7. CASE tick' = [tick EXCEPT ![p] = t]
    BY <1>1, <2>1, <2>2, <2>3, <2>4, <2>5, <2>7, FinishStep
  <2>8. CASE tick' = [tick EXCEPT ![p] = Idle]
    BY <1>2, <2>1, <2>2, <2>3, <2>4, <2>8, FinishStep
  <2> QED BY <2>6, <2>7, <2>8
<1>8. ASSUME NEW p \in Proc, CheckLock(p) PROVE SchedulerInv'
  <2> DEFINE t == [tick[p] EXCEPT !.pc = "choosing", !.slot = 1]
  <2>1. t \in Tick /\ t.now = tick[p].now /\ t.pc = "choosing"
    BY <1>1, Chooses
  <2>2. /\ tick' = [tick EXCEPT ![p] = t] \/ tick' = [tick EXCEPT ![p] = Idle]
        /\ UNCHANGED <<clock, runs, failures>>
    BY <1>8 DEF CheckLock, EndTick
  <2> HIDE DEF t
  <2> QED BY <1>1, <1>2, <2>1, <2>2, TickStep
<1>9. ASSUME NEW p \in Proc, Choose(p) PROVE SchedulerInv'
  <2> DEFINE k == tick[p].slot
             t == [tick[p] EXCEPT !.pc = "starting"]
             u == [tick[p] EXCEPT !.slot = k + 1]
  <2>1. k \in Nat
    BY <1>1 DEF Tick
  <2>2. t \in Tick /\ t.now = tick[p].now /\ t.pc = "starting" /\ t.slot = k
    BY <1>1, Chosen
  <2>3. /\ At(p, "choosing")
        /\ \/ tick' = [tick EXCEPT ![p] = t] /\ k \in DOMAIN Slots
           \/ tick' = [tick EXCEPT ![p] = u]
           \/ tick' = [tick EXCEPT ![p] = Idle]
        /\ UNCHANGED <<clock, runs, failures>>
    BY <1>9 DEF Choose, EndTick
  <2> HIDE DEF k
  <2>4. u \in Tick /\ u.now = tick[p].now /\ u.pc = "choosing"
    <3>1. tick[p] \in Tick /\ k + 1 \in Nat
      BY <1>1, <2>1
    <3>2. u \in Tick /\ u.pc = tick[p].pc /\ u.now = tick[p].now
      BY <3>1, Skips, Zenon
    <3> QED BY <2>3, <3>2, Zenon DEF At
  <2> HIDE DEF t, u
  <2> QED BY <1>1, <1>2, <2>2, <2>3, <2>4, TickStep
<1>10. ASSUME NEW p \in Proc, TryStart(p) PROVE SchedulerInv'
  <2>1. At(p, "starting")
    BY <1>10 DEF TryStart
  <2>2. CASE Locked
    <3>1. tick' = [tick EXCEPT ![p] = Idle] /\ UNCHANGED <<clock, runs, failures>>
      BY <1>10, <2>2 DEF TryStart, EndTick
    <3> QED BY <1>1, <1>2, <3>1, TickStep
  <2> QED BY <1>10, <2>1, <2>2, StartStep
<1>11. ASSUME NEW p \in Proc, Fail(p) PROVE SchedulerInv'
  <2>1. /\ tick' = [tick EXCEPT ![p] = Idle] /\ UNCHANGED <<clock, runs>>
        /\ failures' \in 0 .. MaxFailures
    BY <1>1, <1>11, SchedulerAssumption DEF Fail, EndTick
  <2> QED BY <1>2, <2>1, TickStep
<1>12. ASSUME NEW p \in Proc, NEW status \in {"COMPLETED", "FAILED"}, Finish(p, status)
       PROVE  SchedulerInv'
  <2>1. /\ At(p, "executing") /\ runs' = Finished(tick[p].run, status)
        /\ tick' = [tick EXCEPT ![p] = Idle] /\ UNCHANGED <<clock, failures>>
    BY <1>12 DEF Finish, EndTick
  <2>2. tick[p].run \in DOMAIN runs /\ status \in Status \ {"RUNNING"}
    BY <2>1 DEF SchedulerInv, ExecutingOwns, Status
  <2> QED BY <1>2, <2>1, <2>2, FinishStep
<1> QED
  BY <1>3, <1>4, <1>5, <1>6, <1>7, <1>8, <1>9, <1>10, <1>11, <1>12, NextCases

-----------------------------------------------------------------------------
(* The theorems *)

LEMMA SchedulerInvariant == Spec => []SchedulerInv
<1>1. Init => SchedulerInv
  BY InitSchedulerInv
<1>2. SchedulerInv /\ [Next]_vars => SchedulerInv'
  BY SchedulerStep
<1> QED BY <1>1, <1>2, PTL DEF Spec

\* Type correctness of the scheduler: every row names a configured slot, and
\* neither a row nor a tick is of the future.
THEOREM SchedulerTypeCorrect == Spec => []TypeOK
<1>1. SchedulerInv => TypeOK
  BY DEF SchedulerInv
<1> QED BY <1>1, SchedulerInvariant, PTL

\* The lock is exclusive (try_start_run, reclaim_stale_locks, finish_run):
\* there is at most one RUNNING row, whatever the processes and the failures.
THEOREM LockIsExclusive == Spec => []OneLock
<1>1. SchedulerInv => OneLock
  BY DEF SchedulerInv
<1> QED BY <1>1, SchedulerInvariant, PTL

\* Two processes execute at the same time only when the run of one of them
\* was reclaimed as stale (run_tick): the price of having no heartbeat, and
\* nothing more.
THEOREM OverlapIsStale == Spec => []OverlapOnlyWhenStale
<1>1. SchedulerInv => OverlapOnlyWhenStale
  <2> SUFFICES ASSUME SchedulerInv, NEW p \in Executing, NEW q \in Executing, p # q
               PROVE  \E i \in {tick[p].run, tick[q].run} : GivenUp(i)
    BY DEF OverlapOnlyWhenStale, GivenUp
  <2>1. /\ p \in Proc /\ At(p, "executing") /\ q \in Proc /\ At(q, "executing")
    BY DEF Executing
  <2>2. tick[p].run # tick[q].run
    BY <2>1 DEF SchedulerInv, OwnersDiffer
  <2>3. ~(Running(tick[p].run) /\ Running(tick[q].run))
    BY <2>1, <2>2 DEF SchedulerInv, OneLock, ExecutingOwns
  <2> QED BY <2>1, <2>3 DEF SchedulerInv, ExecutingOwns
<1> QED BY <1>1, SchedulerInvariant, PTL

\* The history is an audit trail (finish_run's condition on the status): a row
\* with an outcome is never rewritten, and no row is ever removed.
THEOREM HistoryIsAudit == Spec => OutcomeIsFinal
<1> DEFINE Kept == \A i \in DOMAIN runs :
                     /\ i \in DOMAIN runs'
                     /\ Running(i) \/ runs'[i] = runs[i]
<1>1. ASSUME SchedulerInv, Next PROVE Kept
  <2>1. runs \in Seq(Run) /\ \A p \in Proc : tick[p] \in Tick
    BY <1>1 DEF SchedulerInv, TypeOK
  <2>2. ASSUME NEW i \in DOMAIN runs, NEW status \in Status, runs' = Finished(i, status)
        PROVE  Kept
    BY <2>1, <2>2, FinishedRows
  <2>3. CASE UNCHANGED runs
    BY <2>3
  <2>4. ASSUME NEW p \in Proc, TryStart(p), ~Locked PROVE Kept
    <3>1. /\ [slot |-> tick[p].slot, started |-> tick[p].now, status |-> "RUNNING"] \in Run
      BY <1>1, <2>1, <2>4 DEF TryStart, SchedulerInv, SlotChosen, Run, Status, Tick
    <3> QED BY <2>1, <2>4, <3>1, AppendedRows DEF TryStart
  <2>5. ASSUME NEW p \in Proc, Reclaim(p) PROVE Kept
    BY <1>1, <2>2, <2>5 DEF Reclaim, SchedulerInv, ListedAreStale, Status
  <2>6. ASSUME NEW p \in Proc, NEW status \in {"COMPLETED", "FAILED"}, Finish(p, status)
        PROVE  Kept
    BY <1>1, <2>2, <2>6 DEF Finish, SchedulerInv, ExecutingOwns, Status
  <2>7. ASSUME NEW p \in Proc,
               BeginTick(p) \/ ListStale(p) \/ CheckLock(p) \/ Choose(p) \/ Fail(p)
                 \/ (TryStart(p) /\ Locked)
        PROVE  UNCHANGED runs
    BY <2>7 DEF BeginTick, ListStale, CheckLock, Choose, Fail, TryStart
  <2>8. CASE Advance
    BY <2>3, <2>8 DEF Advance
  <2> HIDE DEF Kept
  <2> QED BY <1>1, <2>3, <2>4, <2>5, <2>6, <2>7, <2>8, NextCases
<1>2. SchedulerInv /\ [Next]_vars => [Kept]_vars
  BY <1>1
<1> QED BY <1>2, SchedulerInvariant, PTL DEF Spec, OutcomeIsFinal
=============================================================================
