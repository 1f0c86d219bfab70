------------------------------ MODULE Approval ------------------------------
(***************************************************************************)
(* Human approval of live signals: LiveSimPipeline (live/pipeline.py) over *)
(* the LiveStateStore (live/state_store.py) that paper-live sessions share *)
(* with the dashboard and the MCP server (live/workstation.py).            *)
(*                                                                         *)
(* A Session is a paper-live process: it builds one pipeline, then polls   *)
(* bars and asks its own operator about each signal.  A Request is one     *)
(* approve or reject call of the dashboard or the MCP server, which builds *)
(* a pipeline of its own for the call.  Every statement on a database is a *)
(* step of its own, since the live-state store autocommits; the paper book *)
(* is the ledger PaperBook implements, one transaction a step.  paper-live *)
(* refuses a database that holds another symbol, so there is one symbol.   *)
(***************************************************************************)
EXTENDS Naturals

CONSTANTS
  Session, Request, \* the two kinds of callers
  AutoSession,      \* the sessions run with --no-human-approval
  Signal, NoSignal,
  BarOf,            \* BarOf[s]: timestamp of the bar that generates s
  MaxBar,           \* bound: bar timestamps are 1..MaxBar
  MaxCrashes        \* bound: callers that die before they are done

ASSUME ApprovalAssumption ==
  /\ AutoSession \subseteq Session /\ Session \cap Request = {}
  /\ NoSignal \notin Signal
  /\ MaxBar \in Nat /\ MaxCrashes \in Nat
  /\ BarOf \in [Signal -> 1 .. MaxBar]

Caller == Session \cup Request

VARIABLES
  row,      \* row[s]: the pending_approvals row of s
  kill,     \* the kill_switch row
  status,   \* status[s]: the outcome of s in the journal of the paper book
  cursor,   \* the paper book's last bar timestamp
  late,     \* the signals whose expires_at has passed
  pending,  \* pending[c]: keys of self.pending_approvals of c's pipeline
  proc,     \* proc[c]: where caller c is
  crashes

vars == <<row, kill, status, cursor, late, pending, proc, crashes>>
store == <<row, kill, status, cursor>>

Book == INSTANCE PaperLedger WITH SymbolOf <- [s \in Signal |-> "symbol"]

-----------------------------------------------------------------------------
(* Rows and callers *)

State == {"NONE", "PENDING_HUMAN_APPROVAL", "HUMAN_APPROVED", "HUMAN_REJECTED",
          "APPROVAL_EXPIRED", "EXECUTED", "RISK_REJECTED"}

Row == [state : State,
        decision : {"NONE", "APPROVE", "REJECT", "EXPIRED"},
        result : Book!Outcome \cup {"KILL_SWITCH_ACTIVE", "ABANDONED_AFTER_CRASH"}]

NoRow == [state |-> "NONE", decision |-> "NONE", result |-> "NONE"]

IsPending(s) == row[s].state = "PENDING_HUMAN_APPROVAL"

PC == {"down", "building", "restored", "reconciling", "found", "ready", "polling",
       "bar", "generated", "handling", "prompt", "checking", "claiming", "claimed",
       "cleared", "submitted"}

Process == [pc : PC, signal : Signal \cup {NoSignal}, choice : {"APPROVE", "REJECT"},
            orphans : SUBSET Signal, orphan : Signal \cup {NoSignal},
            seen : Book!Outcome, allow : BOOLEAN]

At(pc) == [pc |-> pc, signal |-> NoSignal, choice |-> "APPROVE", orphans |-> {},
           orphan |-> NoSignal, seen |-> "NONE", allow |-> FALSE]

\* The call returns: a session polls again, a request's pipeline is dropped.
Returned(c) == IF c \in Session THEN At("ready") ELSE At("down")

Goto(c, pc) == proc' = [proc EXCEPT ![c].pc = pc]
Return(c) == proc' = [proc EXCEPT ![c] = Returned(c)]
At_(c, pc) == proc[c].pc = pc

\* A request that ends drops its pipeline and what that pipeline restored.
Kept(c, s) == IF c \in Session THEN pending[c] \ s ELSE {}

Init ==
  /\ row = [s \in Signal |-> NoRow]
  /\ kill = FALSE
  /\ status = [s \in Signal |-> "NONE"]
  /\ cursor = 0
  /\ late = {}
  /\ pending = [c \in Caller |-> {}]
  /\ proc = [c \in Caller |-> At("down")]
  /\ crashes = 0

-----------------------------------------------------------------------------
(* LiveStateStore: the writes on a row *)

\* save_pending_approval: on conflict only state and history are replaced.
Saved(s) == [row EXCEPT ![s].state = "PENDING_HUMAN_APPROVAL"]

\* Mutant of Decided: the UPDATE has no condition on the state.
DecidedAgain(decided, state, decision) ==
  [s \in Signal |-> IF s \in decided
                    THEN [state |-> state, decision |-> decision, result |-> "NONE"]
                    ELSE row[s]]

\* update_decision: UPDATE ... WHERE state = 'PENDING_HUMAN_APPROVAL', so a
\* row that is already decided is left alone.
Decided(decided, state, decision) ==
  [s \in Signal |->
     IF s \in decided /\ IsPending(s)
     THEN [state |-> state, decision |-> decision, result |-> "NONE"]
     ELSE row[s]]

\* Mutant of Finalized: the two columns are swapped.
FinalizedSwapped(s, state, result) ==
  [row EXCEPT ![s].state = result, ![s].result = state]

\* finalize_decision: unconditional.
Finalized(s, state, result) ==
  [row EXCEPT ![s].state = state, ![s].result = result]

FinalState(outcome) == IF outcome \in
    {"APPROVED_PENDING", "APPROVED_FILLED_OPEN", "APPROVED_FILLED_CLOSED"}
  THEN "EXECUTED" ELSE "RISK_REJECTED"

-----------------------------------------------------------------------------
(* Building a pipeline: LiveSimPipeline.__init__ *)

StartSession(c) ==
  /\ c \in Session /\ At_(c, "down")
  /\ Goto(c, "building")
  /\ UNCHANGED <<store, late, pending, crashes>>

\* approve_pending_signal and reject_pending_signal: a row that is not
\* pending is answered at once (terminal_status_shortcut).
StartRequest(c, s, choice) ==
  /\ c \in Request /\ At_(c, "down")
  /\ IsPending(s)
  /\ proc' = [proc EXCEPT ![c].pc = "building", ![c].signal = s, ![c].choice = choice]
  /\ UNCHANGED <<store, late, pending, crashes>>

\* Mutant of Restore: a new pipeline starts with an empty backlog.
RestoreNothing(c) ==
  /\ At_(c, "building")
  /\ Goto(c, "restored")
  /\ UNCHANGED <<store, late, pending, crashes>>

\* _restore_pending_approvals.
Restore(c) ==
  /\ At_(c, "building")
  /\ pending' = [pending EXCEPT ![c] = {s \in Signal : IsPending(s)}]
  /\ Goto(c, "restored")
  /\ UNCHANGED <<store, late, crashes>>

\* Mutant of ListOrphans: orphaned claims are not looked for.
ListNoOrphans(c) ==
  /\ At_(c, "restored")
  /\ proc' = [proc EXCEPT ![c].pc = "reconciling", ![c].orphans = {}]
  /\ UNCHANGED <<store, late, pending, crashes>>

\* _reconcile_orphaned_claims: list_orphaned_claims ...
ListOrphans(c) ==
  /\ At_(c, "restored")
  /\ proc' = [proc EXCEPT ![c].pc = "reconciling",
                          ![c].orphans = {s \in Signal : row[s].state = "HUMAN_APPROVED"}]
  /\ UNCHANGED <<store, late, pending, crashes>>

\* ... then for each its journal entry is looked up ...
FindEntry(c) ==
  /\ At_(c, "reconciling")
  /\ \E s \in proc[c].orphans :
       proc' = [proc EXCEPT ![c].pc = "found", ![c].orphan = s, ![c].seen = status[s]]
  /\ UNCHANGED <<store, late, pending, crashes>>

\* Mutants of Reconcile: a claim is abandoned without looking at the journal,
\* or offered to the human once more.
Reconciled(c, state, result) ==
  LET s == proc[c].orphan IN
  /\ At_(c, "found")
  /\ row' = Finalized(s, state, result)
  /\ proc' = [proc EXCEPT ![c].pc = "reconciling", ![c].orphan = NoSignal,
                          ![c].orphans = @ \ {s}, ![c].seen = "NONE"]
  /\ UNCHANGED <<kill, status, cursor, late, pending, crashes>>

ReconcileBlindly(c) == Reconciled(c, "RISK_REJECTED", "ABANDONED_AFTER_CRASH")
ReconcileByAsking(c) == Reconciled(c, "PENDING_HUMAN_APPROVAL", "NONE")

\* ... and the row is finalized: with the outcome of the entry, or as a
\* claim abandoned by a crash when there is none.
Reconcile(c) ==
  LET s == proc[c].orphan
      entry == proc[c].seen
  IN  /\ At_(c, "found")
      /\ row' = IF entry # "NONE" THEN Finalized(s, FinalState(entry), entry)
                ELSE Finalized(s, "RISK_REJECTED", "ABANDONED_AFTER_CRASH")
      /\ proc' = [proc EXCEPT ![c].pc = "reconciling", ![c].orphan = NoSignal,
                              ![c].orphans = @ \ {s}, ![c].seen = "NONE"]
      /\ UNCHANGED <<kill, status, cursor, late, pending, crashes>>

Built(c) ==
  /\ At_(c, "reconciling") /\ proc[c].orphans = {}
  /\ Goto(c, IF c \in Session THEN "ready" ELSE "checking")
  /\ UNCHANGED <<store, late, pending, crashes>>

-----------------------------------------------------------------------------
(* process_next *)

\* expire_pending_approvals, for what has expired when it reads the clock: a
\* row someone else decided is only forgotten.  Its updates are on different
\* rows and each is guarded, so the sweep is one step.
Sweep(c) ==
  /\ c \in Session /\ At_(c, "ready")
  /\ row' = Decided(pending[c] \cap late, "APPROVAL_EXPIRED", "EXPIRED")
  /\ pending' = [pending EXCEPT ![c] = @ \ late]
  /\ Goto(c, "polling")
  /\ UNCHANGED <<kill, status, cursor, late, crashes>>

\* next_bar has nothing: NO_NEW_BAR, or the feed is disconnected.
NoBar(c) ==
  /\ At_(c, "polling")
  /\ Goto(c, "ready")
  /\ UNCHANGED <<store, late, pending, crashes>>

\* A bar arrives; allow_new_fill is computed before process_bar.  A risk
\* circuit breaker of the account is abstracted to halted.  The two reads,
\* open position then kill switch, are one step: what a change between them
\* could make of allow, halted or the step taken later makes of it too.
GuardFill(c, halted) ==
  /\ At_(c, "polling")
  /\ proc' = [proc EXCEPT ![c].pc = "bar",
                          ![c].allow = Book!HasOpen \/ ~(halted \/ kill)]
  /\ UNCHANGED <<store, late, pending, crashes>>

\* process_bar at the ledger: an open position may close, else a pending
\* order fills, and may leave at once, unless new fills are not allowed.
PendingOrder == \E s \in Signal : status[s] = "APPROVED_PENDING"

Trade(is_fresh, allow) ==
  IF ~is_fresh THEN UNCHANGED status
  ELSE IF Book!HasOpen
  THEN UNCHANGED status \/ \E s \in Signal : Book!Close(s)
  ELSE IF PendingOrder /\ allow
  THEN \E s \in Signal, outcome \in Book!Outcome : Book!Fill(s, outcome)
  ELSE UNCHANGED status

\* A duplicate or out-of-order bar ends the call.
SkipBar(c, t) ==
  /\ At_(c, "bar") /\ t <= cursor
  /\ Return(c)
  /\ UNCHANGED <<store, late, pending, crashes>>

\* A newer bar trades; if it is fresh and did not find a fill halted, the
\* strategy may generate the signal of this bar.
ProcessBar(c, t, is_fresh, s) ==
  LET halted == ~Book!HasOpen /\ PendingOrder /\ ~proc[c].allow
  IN  /\ At_(c, "bar") /\ t > cursor
      /\ Trade(is_fresh, proc[c].allow)
      /\ cursor' = t
      /\ s # NoSignal => is_fresh /\ ~halted /\ BarOf[s] = t
      /\ proc' = [proc EXCEPT ![c] = IF s = NoSignal THEN Returned(c)
                                     ELSE [At("generated") EXCEPT !.signal = s]]
      /\ UNCHANGED <<row, kill, late, pending, crashes>>

\* The last kill-switch check before _handle_signal.
CheckKill(c) ==
  /\ At_(c, "generated")
  /\ IF kill THEN Return(c) ELSE Goto(c, "handling")
  /\ UNCHANGED <<store, late, pending, crashes>>

\* _handle_signal ends without an order: the critic or the first risk check
\* rejects the signal.
Veto(c) ==
  /\ At_(c, "handling")
  /\ Return(c)
  /\ UNCHANGED <<store, late, pending, crashes>>

\* submit_signal: an entry that exists is returned, else the risk engine
\* decides and, for an approved signal of a free symbol, an order is created.
SubmitSignal(c, s, outcome) ==
  IF status[s] # "NONE" THEN outcome = status[s] /\ UNCHANGED status
  ELSE Book!Decide(s, outcome)

\* _handle_signal without human approval submits at once.
SubmitAuto(c) ==
  /\ c \in AutoSession /\ At_(c, "handling")
  /\ \E outcome \in Book!Outcome : SubmitSignal(c, proc[c].signal, outcome)
  /\ Return(c)
  /\ UNCHANGED <<row, kill, cursor, late, pending, crashes>>

\* _handle_signal with human approval: the signal becomes pending in memory
\* and in the store, and the session asks its operator.
SavePending(c) ==
  LET s == proc[c].signal IN
  /\ c \notin AutoSession /\ At_(c, "handling")
  /\ pending' = [pending EXCEPT ![c] = @ \cup {s}]
  /\ row' = Saved(s)
  /\ Goto(c, "prompt")
  /\ UNCHANGED <<kill, status, cursor, late, crashes>>

-----------------------------------------------------------------------------
(* approve_pending and reject_pending *)

\* _prompt_approval: a blocking read, or --auto-approve, or --auto-reject.
Answer(c, choice) ==
  /\ At_(c, "prompt")
  /\ proc' = [proc EXCEPT ![c].pc = "checking", ![c].choice = choice]
  /\ UNCHANGED <<store, late, pending, crashes>>

\* _check_actionable, refusing: the kill switch is on, or the signal is not
\* in this pipeline's backlog, or its time is over, which sweeps the backlog.
Refuse(c) ==
  LET s == proc[c].signal
      over == ~kill /\ s \in pending[c] \cap late
  IN  /\ At_(c, "checking")
      /\ kill \/ s \notin pending[c] \/ s \in late
      /\ row' = IF over THEN Decided(pending[c] \cap late, "APPROVAL_EXPIRED", "EXPIRED")
                ELSE row
      /\ pending' = [pending EXCEPT ![c] = Kept(c, IF over THEN late ELSE {})]
      /\ Return(c)
      /\ UNCHANGED <<kill, status, cursor, late, crashes>>

\* _check_actionable, passing; the signal leaves the backlog.
Check(c) ==
  LET s == proc[c].signal IN
  /\ At_(c, "checking")
  /\ ~kill /\ s \in pending[c] \ late
  /\ pending' = [pending EXCEPT ![c] = @ \ {s}]
  /\ Goto(c, "claiming")
  /\ UNCHANGED <<store, late, crashes>>

\* Mutant of Claim: the result of update_decision is ignored.
ClaimAnyway(c) ==
  LET s == proc[c].signal IN
  /\ At_(c, "claiming") /\ proc[c].choice = "APPROVE"
  /\ row' = Decided({s}, "HUMAN_APPROVED", "APPROVE")
  /\ Goto(c, "claimed")
  /\ UNCHANGED <<kill, status, cursor, late, pending, crashes>>

\* approve_pending: update_decision claims the row, or fails because someone
\* else decided it (ALREADY_DECIDED).
Claim(c) ==
  LET s == proc[c].signal IN
  /\ At_(c, "claiming") /\ proc[c].choice = "APPROVE"
  /\ row' = Decided({s}, "HUMAN_APPROVED", "APPROVE")
  /\ IF IsPending(s) THEN Goto(c, "claimed") /\ UNCHANGED pending
     ELSE Return(c) /\ pending' = [pending EXCEPT ![c] = Kept(c, {})]
  /\ UNCHANGED <<kill, status, cursor, late, crashes>>

\* The kill switch is read again ...
Recheck(c) ==
  /\ At_(c, "claimed") /\ ~kill
  /\ Goto(c, "cleared")
  /\ UNCHANGED <<store, late, pending, crashes>>

\* ... and when it is on the claim ends as a rejection.
KillClaim(c) ==
  /\ At_(c, "claimed") /\ kill
  /\ row' = Finalized(proc[c].signal, "RISK_REJECTED", "KILL_SWITCH_ACTIVE")
  /\ pending' = [pending EXCEPT ![c] = Kept(c, {})]
  /\ Return(c)
  /\ UNCHANGED <<kill, status, cursor, late, crashes>>

Submit(c) ==
  /\ At_(c, "cleared")
  /\ \E outcome \in Book!Outcome :
       /\ SubmitSignal(c, proc[c].signal, outcome)
       /\ proc' = [proc EXCEPT ![c].pc = "submitted", ![c].seen = outcome]
  /\ UNCHANGED <<row, kill, cursor, late, pending, crashes>>

Finalize(c) ==
  /\ At_(c, "submitted")
  /\ row' = Finalized(proc[c].signal, FinalState(proc[c].seen), proc[c].seen)
  /\ pending' = [pending EXCEPT ![c] = Kept(c, {})]
  /\ Return(c)
  /\ UNCHANGED <<kill, status, cursor, late, crashes>>

\* reject_pending.
Reject(c) ==
  /\ At_(c, "claiming") /\ proc[c].choice = "REJECT"
  /\ row' = Decided({proc[c].signal}, "HUMAN_REJECTED", "REJECT")
  /\ pending' = [pending EXCEPT ![c] = Kept(c, {})]
  /\ Return(c)
  /\ UNCHANGED <<kill, status, cursor, late, crashes>>

-----------------------------------------------------------------------------
(* The environment *)

\* activate_kill_switch and reset_kill_switch, from any process.
SetKillSwitch(active) ==
  /\ kill # active
  /\ kill' = active
  /\ UNCHANGED <<row, status, cursor, late, pending, proc, crashes>>

\* The clock passes the expires_at of a saved row.
TimeOut(s) ==
  /\ row[s].state # "NONE"
  /\ late' = late \cup {s}
  /\ UNCHANGED <<store, pending, proc, crashes>>

\* A process ends, dies, or the call raises: its pipeline is lost.
Crash(c) ==
  /\ ~At_(c, "down") /\ crashes < MaxCrashes
  /\ crashes' = crashes + 1
  /\ pending' = [pending EXCEPT ![c] = {}]
  /\ proc' = [proc EXCEPT ![c] = At("down")]
  /\ UNCHANGED <<store, late>>

-----------------------------------------------------------------------------

Build(c) == Restore(c) \/ ListOrphans(c) \/ FindEntry(c) \/ Reconcile(c) \/ Built(c)

Poll(c) ==
  \/ Sweep(c) \/ NoBar(c)
  \/ \E halted \in BOOLEAN : GuardFill(c, halted)
  \/ \E t \in 1 .. MaxBar : SkipBar(c, t)
  \/ \E t \in 1 .. MaxBar, is_fresh \in BOOLEAN, s \in Signal \cup {NoSignal} :
       ProcessBar(c, t, is_fresh, s)

Handle(c) == CheckKill(c) \/ Veto(c) \/ SubmitAuto(c) \/ SavePending(c)

Decide(c) ==
  \/ \E choice \in {"APPROVE", "REJECT"} : Answer(c, choice)
  \/ Refuse(c) \/ Check(c) \/ Claim(c) \/ Recheck(c) \/ KillClaim(c)
  \/ Submit(c) \/ Finalize(c) \/ Reject(c)

Step(c) == Build(c) \/ Poll(c) \/ Handle(c) \/ Decide(c)

Next ==
  \/ \E c \in Caller :
       \/ StartSession(c) \/ Step(c) \/ Crash(c)
       \/ \E s \in Signal, choice \in {"APPROVE", "REJECT"} : StartRequest(c, s, choice)
  \/ \E active \in BOOLEAN : SetKillSwitch(active)
  \/ \E s \in Signal : TimeOut(s)

Spec == Init /\ [][Next]_vars

\* A session that ended is started again, and a process that is up runs.
FairSpec == Spec /\ \A c \in Caller : WF_vars(StartSession(c)) /\ WF_vars(Step(c))

-----------------------------------------------------------------------------
(* Type invariant *)

\* Every row is of its type, a pipeline's backlog only names signals whose
\* row is saved (save_pending_approval and _restore_pending_approvals, whatever
\* others did to that row since), and a caller past the point where it has a
\* signal, or a claim to reconcile, names one.
Typed ==
  /\ row \in [Signal -> Row] /\ kill \in BOOLEAN
  /\ status \in [Signal -> Book!Outcome] /\ cursor \in 0 .. MaxBar
  /\ late \subseteq Signal /\ pending \in [Caller -> SUBSET Signal]
  /\ proc \in [Caller -> Process] /\ crashes \in 0 .. MaxCrashes

BacklogIsSaved ==
  \A c \in Caller, s \in Signal : s \in pending[c] => row[s].state # "NONE"

WorksOnSignal(c) ==
  /\ \/ proc[c].pc \in {"generated", "handling", "prompt", "checking", "claiming",
                        "claimed", "cleared", "submitted"}
     \/ c \in Request /\ proc[c].pc \in {"building", "restored", "reconciling", "found"}
     => proc[c].signal \in Signal
  /\ proc[c].pc = "found" => proc[c].orphan \in proc[c].orphans

TypeOK == Typed /\ BacklogIsSaved /\ \A c \in Caller : WorksOnSignal(c)

-----------------------------------------------------------------------------
(* Safety *)

Holds(c, s) == proc[c].signal = s /\ proc[c].pc \in {"claimed", "cleared", "submitted"}

\* update_decision's claim is exclusive: of all the sessions and requests
\* that race to decide a signal, at most one ever carries it from the claim
\* to submit_signal and finalize_decision.
ClaimExclusive ==
  \A s \in Signal, c, d \in Caller : Holds(c, s) /\ Holds(d, s) => c = d

\* A signal that was put to a human reaches the paper book only after an
\* approval: a rejected or expired one never does, whatever calls raced the
\* rejection or the sweep, and whoever restored a stale backlog.
NoOrderWithoutApproval ==
  \A s \in Signal :
    row[s].state # "NONE" /\ row[s].decision # "APPROVE" =>
      status[s] = "NONE" /\ \A c \in Caller : ~Holds(c, s)

\* A decision is taken once: no later call, sweep, restart or reconciliation
\* changes it or makes the signal pending again.
DecisionIsFinal ==
  [][\A s \in Signal :
       row[s].decision # "NONE" =>
         /\ row'[s].decision = row[s].decision
         /\ row'[s].state # "PENDING_HUMAN_APPROVAL"]_vars

\* The audit label is not misleading: once nobody works on a decided signal,
\* EXECUTED means that its order exists and RISK_REJECTED that none does.
AuditLabelAgrees ==
  \A s \in Signal :
    (\A c \in Caller : s \notin {proc[c].signal, proc[c].orphan}) =>
      /\ row[s].state = "EXECUTED" => FinalState(status[s]) = "EXECUTED"
      /\ row[s].state = "RISK_REJECTED" => FinalState(status[s]) = "RISK_REJECTED"

\* No approval executes while the kill switch is on.
NoApprovalAfterKill ==
  [][\A c \in Caller, s \in Signal :
       Holds(c, s) /\ status[s] = "NONE" /\ status'[s] # "NONE" => ~kill]_vars

\* No pending order fills while the kill switch is on.
NoFillAfterKill ==
  [][\A s \in Signal :
       status[s] = "APPROVED_PENDING" /\ status'[s] # status[s] => ~kill]_vars

-----------------------------------------------------------------------------
(* Liveness, for a session that is started again whenever it ends *)

\* A claim is never stuck: it is finalized by its owner or, after a crash, by
\* the reconciliation of the next pipeline.
ClaimsResolve ==
  \A s \in Signal :
    row[s].state = "HUMAN_APPROVED" ~> row[s].state \in {"EXECUTED", "RISK_REJECTED"}

\* A pending signal whose time is over does not stay pending.
ExpiredIsDecided ==
  \A s \in Signal : IsPending(s) /\ s \in late ~> ~IsPending(s)
=============================================================================
