---------------------------- MODULE ApprovalProofs ----------------------------
(***************************************************************************)
(* The safety of Approval for any number of sessions, requests, signals,   *)
(* bars and crashes.                                                       *)
(***************************************************************************)
EXTENDS Approval, TLAPS

\* A caller that carries the signal its own bar generated, to _handle_signal.
Carries(c, s) == proc[c].signal = s /\ proc[c].pc \in {"generated", "handling"}

\* A row is undecided exactly while it waits for a human, and a claimed row
\* was approved.
RowsAreConsistent ==
  \A s \in Signal :
    /\ row[s].state \in {"NONE", "PENDING_HUMAN_APPROVAL"} => row[s].decision = "NONE"
    /\ row[s].state = "HUMAN_APPROVED" => row[s].decision = "APPROVE"

\* What the store or the book knows of was generated by a bar they have seen.
KnownIsPast ==
  \A s \in Signal : row[s].state # "NONE" \/ status[s] # "NONE" => BarOf[s] <= cursor

\* A generated signal is unknown to the store and the book until its caller
\* saves or submits it, a held one was approved, and so was an orphan.
WorkIsKnown(c) ==
  \A s \in Signal :
    /\ Carries(c, s) => row[s].state = "NONE" /\ status[s] = "NONE" /\ BarOf[s] <= cursor
    /\ Holds(c, s) => row[s].decision = "APPROVE"
    /\ s \in proc[c].orphans => row[s].decision = "APPROVE"

CarryExclusive ==
  \A s \in Signal, c, d \in Caller : Carries(c, s) /\ Carries(d, s) => c = d

OrderIsApproved ==
  \A s \in Signal :
    row[s].state # "NONE" /\ row[s].decision # "APPROVE" => status[s] = "NONE"

ApprovalInv ==
  /\ Typed
  /\ RowsAreConsistent /\ KnownIsPast /\ OrderIsApproved
  /\ \A c \in Caller : WorksOnSignal(c) /\ WorkIsKnown(c)
  /\ CarryExclusive /\ ClaimExclusive

\* The signal has, or had, an order.
Ordered(s) == FinalState(status[s]) = "EXECUTED"

\* A row that says EXECUTED has its order, and so has what a caller has seen
\* and will finalize as EXECUTED.
ExecutedHasOrder ==
  \A s \in Signal : row[s].state = "EXECUTED" => Ordered(s)

SeenIsOrdered(c) ==
  FinalState(proc[c].seen) = "EXECUTED" =>
    /\ proc[c].pc = "submitted" => Ordered(proc[c].signal)
    /\ proc[c].pc = "found" => Ordered(proc[c].orphan)

ExecutedInv == ExecutedHasOrder /\ \A c \in Caller : SeenIsOrdered(c)

\* With one caller, a row is claimed as long as it is worked on, and what was
\* seen of the book is still so.
OwnWorkOnly(c) ==
  /\ \A s \in Signal :
       /\ Holds(c, s) => row[s].state = "HUMAN_APPROVED"
       /\ Holds(c, s) /\ proc[c].pc # "submitted" => status[s] = "NONE"
       /\ proc[c].pc \in {"reconciling", "found"} /\ s \in proc[c].orphans =>
            row[s].state = "HUMAN_APPROVED"
  /\ proc[c].pc = "submitted" =>
       FinalState(proc[c].seen) = FinalState(status[proc[c].signal])
  /\ proc[c].pc = "found" => proc[c].seen = status[proc[c].orphan]

RejectedHasNoOrder ==
  \A s \in Signal : row[s].state = "RISK_REJECTED" => ~Ordered(s)

OneCallerInv == RejectedHasNoOrder /\ \A c \in Caller : OwnWorkOnly(c)

-----------------------------------------------------------------------------
(* What a step does to its caller *)

\* The step is c's: no other caller moves.
Moves(c) ==
  /\ proc' \in [Caller -> Process]
  /\ \A d \in Caller \ {c} : proc'[d] = proc[d]

LEMMA GotoMoves ==
  ASSUME Typed, NEW c \in Caller, NEW pc \in PC, Goto(c, pc)
  PROVE  /\ Moves(c)
         /\ proc'[c] = [proc[c] EXCEPT !.pc = pc]
         /\ proc'[c].pc = pc
         /\ proc'[c].signal = proc[c].signal /\ proc'[c].choice = proc[c].choice
         /\ proc'[c].orphans = proc[c].orphans /\ proc'[c].orphan = proc[c].orphan
         /\ proc'[c].seen = proc[c].seen
  <1>1. proc \in [Caller -> Process] /\ proc[c] \in Process
    BY DEF Typed
  <1>2. proc' = [proc EXCEPT ![c] = [proc[c] EXCEPT !.pc = pc]]
    BY <1>1, Zenon DEF Goto
  <1>3. [proc[c] EXCEPT !.pc = pc] \in Process
    BY <1>1 DEF Process
  <1> QED
    BY <1>1, <1>2, <1>3 DEF Moves, Process

\* A caller at one of these has nothing in hand.
LEMMA AtIsIdle ==
  ASSUME NEW pc \in PC
  PROVE  /\ At(pc) \in Process
         /\ At(pc).pc = pc /\ At(pc).signal = NoSignal /\ At(pc).orphan = NoSignal
         /\ At(pc).orphans = {} /\ At(pc).seen = "NONE"
  BY DEF At, Process, Book!Outcome

LEMMA ReturnMoves ==
  ASSUME Typed, NEW c \in Caller, Return(c)
  PROVE  /\ Moves(c)
         /\ proc'[c].pc \in {"ready", "down"}
         /\ c \in Request => proc'[c].pc = "down"
         /\ proc'[c].orphans = {} /\ proc'[c].seen = "NONE"
  <1>1. "ready" \in PC /\ "down" \in PC
    BY DEF PC
  <1>2. /\ Returned(c) \in Process
        /\ Returned(c).pc \in {"ready", "down"}
        /\ c \in Request => Returned(c).pc = "down"
        /\ Returned(c).orphans = {} /\ Returned(c).seen = "NONE"
    BY <1>1, AtIsIdle, ApprovalAssumption DEF Returned
  <1> QED
    BY <1>2 DEF Return, Moves, Typed

-----------------------------------------------------------------------------
(* How a step keeps the invariant *)

\* A step of c keeps what the others rely on when it takes no approval back
\* and leaves alone the signals that they carry.
LEMMA StepKeepsApprovalInv ==
  ASSUME ApprovalInv, Typed', NEW c \in Caller, Moves(c),
         (RowsAreConsistent /\ KnownIsPast /\ OrderIsApproved)',
         \A s \in Signal : row[s].decision = "APPROVE" => row'[s].decision = "APPROVE",
         \A s \in Signal, d \in Caller \ {c} :
           Carries(d, s) => row'[s].state = "NONE" /\ status'[s] = "NONE",
         cursor <= cursor',
         WorksOnSignal(c)', WorkIsKnown(c)',
         \A s \in Signal :
           Carries(c, s)' => Carries(c, s) \/ \A d \in Caller : ~Carries(d, s),
         \A s \in Signal :
           Holds(c, s)' => Holds(c, s) \/ \A d \in Caller : ~Holds(d, s)
  PROVE  ApprovalInv'
  <1>1. \A s \in Signal, d \in Caller \ {c} :
          (Carries(d, s)' <=> Carries(d, s)) /\ (Holds(d, s)' <=> Holds(d, s))
    BY DEF Moves, Carries, Holds
  <1>2. \A d \in Caller \ {c} : WorksOnSignal(d)'
    BY DEF ApprovalInv, Moves, WorksOnSignal
  <1>3. ASSUME NEW d \in Caller \ {c}
        PROVE  WorkIsKnown(d)'
    <2> SUFFICES ASSUME NEW s \in Signal
                 PROVE  /\ Carries(d, s)' => /\ row'[s].state = "NONE" /\ status'[s] = "NONE"
                                             /\ BarOf[s] <= cursor'
                        /\ Holds(d, s)' => row'[s].decision = "APPROVE"
                        /\ s \in proc'[d].orphans => row'[s].decision = "APPROVE"
      BY Zenon DEF WorkIsKnown, Carries, Holds
    <2>1. WorkIsKnown(d) /\ proc'[d] = proc[d]
      BY DEF ApprovalInv, Moves
    <2>2. BarOf[s] \in Nat /\ cursor \in Nat /\ cursor' \in Nat
      BY ApprovalAssumption DEF ApprovalInv, Typed
    <2> QED
      BY <1>1, <2>1, <2>2 DEF WorkIsKnown
  <1>4. CarryExclusive'
    BY <1>1 DEF ApprovalInv, CarryExclusive
  <1>5. ClaimExclusive'
    BY <1>1 DEF ApprovalInv, ClaimExclusive
  <1> QED
    BY <1>2, <1>3, <1>4, <1>5 DEF ApprovalInv

\* A step that changes neither a row nor the book only has to take no new
\* work, or only what is known to be approved.
LEMMA QuietStepKeepsApprovalInv ==
  ASSUME ApprovalInv, Typed', NEW c \in Caller, Moves(c), UNCHANGED <<row, status, cursor>>,
         WorksOnSignal(c)',
         \A s \in Signal : (Carries(c, s)' => Carries(c, s)) /\ (Holds(c, s)' => Holds(c, s)),
         \A s \in Signal : s \in proc'[c].orphans =>
                            s \in proc[c].orphans \/ row[s].decision = "APPROVE"
  PROVE  ApprovalInv'
  <1>1. (RowsAreConsistent /\ KnownIsPast /\ OrderIsApproved)'
    BY DEF ApprovalInv, RowsAreConsistent, KnownIsPast, OrderIsApproved
  <1>2. \A d \in Caller : WorkIsKnown(d)
    BY DEF ApprovalInv
  <1>3. cursor \in Nat
    BY ApprovalAssumption DEF ApprovalInv, Typed
  <1>4. WorkIsKnown(c)'
    BY <1>2 DEF WorkIsKnown, Carries, Holds
  <1> QED
    BY <1>1, <1>2, <1>3, <1>4, StepKeepsApprovalInv DEF WorkIsKnown

\* A step that leaves the store and the book alone.
Quiet(c) ==
  /\ Moves(c)
  /\ UNCHANGED <<row, status, cursor>>
  /\ kill' \in BOOLEAN /\ late' \subseteq Signal
  /\ pending' \in [Caller -> SUBSET Signal] /\ crashes' \in 0 .. MaxCrashes

LEMMA GotoKeepsApprovalInv ==
  ASSUME ApprovalInv, NEW c \in Caller, NEW pc \in PC \ {"found"}, Goto(c, pc), Quiet(c),
         \/ pc \in {"down", "ready", "polling", "bar"}
         \/ proc[c].signal \in Signal
         \/ c \in Session /\ pc \in {"building", "restored", "reconciling"},
         pc \in {"generated", "handling"} => proc[c].pc \in {"generated", "handling"},
         pc \in {"claimed", "cleared", "submitted"} =>
           proc[c].pc \in {"claimed", "cleared", "submitted"}
  PROVE  ApprovalInv'
  <1>1. Typed
    BY DEF ApprovalInv
  <1>2. /\ proc'[c].pc = pc /\ proc'[c].signal = proc[c].signal
        /\ proc'[c].orphans = proc[c].orphans
    BY <1>1, GotoMoves
  <1>3. Typed'
    BY <1>1 DEF Typed, Quiet, Moves
  <1>4. WorksOnSignal(c)'
    BY <1>2, ApprovalAssumption DEF WorksOnSignal
  <1>5. \A s \in Signal : (Carries(c, s)' => Carries(c, s)) /\ (Holds(c, s)' => Holds(c, s))
    BY <1>2 DEF Carries, Holds
  <1> QED
    BY <1>2, <1>3, <1>4, <1>5, QuietStepKeepsApprovalInv DEF Quiet

LEMMA ReturnKeepsApprovalInv ==
  ASSUME ApprovalInv, NEW c \in Caller, Return(c), Quiet(c)
  PROVE  ApprovalInv'
  <1>1. Typed
    BY DEF ApprovalInv
  <1>2. /\ proc'[c].pc \in {"ready", "down"} /\ proc'[c].orphans = {}
    BY <1>1, ReturnMoves
  <1>3. Typed'
    BY <1>1 DEF Typed, Quiet, Moves
  <1>4. WorksOnSignal(c)'
    BY <1>2 DEF WorksOnSignal
  <1>5. \A s \in Signal : ~Carries(c, s)' /\ ~Holds(c, s)'
    BY <1>2 DEF Carries, Holds
  <1> QED
    BY <1>2, <1>3, <1>4, <1>5, QuietStepKeepsApprovalInv DEF Quiet

-----------------------------------------------------------------------------
(* The steps that change neither a row nor the book *)

LEMMA BuildKeepsApprovalInv ==
  ASSUME ApprovalInv, NEW c \in Caller,
         StartSession(c) \/ Restore(c) \/ ListOrphans(c) \/ FindEntry(c) \/ Built(c)
  PROVE  ApprovalInv'
  <1>1. Typed /\ WorksOnSignal(c) /\ RowsAreConsistent
    BY DEF ApprovalInv
  <1>2. proc \in [Caller -> Process] /\ proc[c] \in Process
    BY <1>1 DEF Typed
  <1>3. {"building", "restored", "reconciling", "found", "ready", "checking"} \subseteq PC
    BY DEF PC
  <1>4. CASE StartSession(c)
    <2>1. Goto(c, "building") /\ c \in Session /\ Quiet(c)
      BY <1>1, <1>3, <1>4, GotoMoves DEF StartSession, Quiet, Typed, store
    <2> QED
      BY <1>3, <2>1, GotoKeepsApprovalInv
  <1>5. CASE Restore(c)
    <2>1. Goto(c, "restored") /\ Quiet(c) /\ proc[c].pc = "building"
      BY <1>1, <1>3, <1>5, GotoMoves DEF Restore, Quiet, Typed, store, At_
    <2>2. proc[c].signal \in Signal \/ c \in Session
      BY <1>1, <2>1 DEF WorksOnSignal, Caller
    <2> QED
      BY <1>3, <2>1, <2>2, GotoKeepsApprovalInv
  <1>6. CASE ListOrphans(c)
    <2> DEFINE orphans == {s \in Signal : row[s].state = "HUMAN_APPROVED"}
    <2>1. proc' = [proc EXCEPT ![c] = [proc[c] EXCEPT !.pc = "reconciling",
                                                      !.orphans = orphans]]
      BY <1>2, <1>6, Zenon DEF ListOrphans
    <2>2. /\ [proc[c] EXCEPT !.pc = "reconciling", !.orphans = orphans] \in Process
          /\ proc'[c].pc = "reconciling" /\ proc'[c].orphans = orphans
          /\ proc'[c].signal = proc[c].signal
      BY <1>2, <1>3, <2>1 DEF Process
    <2>3. Moves(c)
      BY <1>2, <2>1, <2>2 DEF Moves
    <2>4. Typed' /\ UNCHANGED <<row, status, cursor>> /\ proc[c].pc = "restored"
      BY <1>1, <1>6, <2>3 DEF ListOrphans, Typed, Moves, store, At_
    <2>5. WorksOnSignal(c)'
      BY <1>1, <2>2, <2>4 DEF WorksOnSignal
    <2>6. \A s \in Signal : ~Carries(c, s)' /\ ~Holds(c, s)'
      BY <2>2 DEF Carries, Holds
    <2>7. \A s \in orphans : row[s].decision = "APPROVE"
      BY <1>1 DEF RowsAreConsistent
    <2> QED
      BY <2>2, <2>3, <2>4, <2>5, <2>6, <2>7, QuietStepKeepsApprovalInv
  <1>7. CASE FindEntry(c)
    <2>1. PICK s \in proc[c].orphans :
            proc' = [proc EXCEPT ![c] = [proc[c] EXCEPT !.pc = "found", !.orphan = s,
                                                        !.seen = status[s]]]
      BY <1>2, <1>7, Zenon DEF FindEntry
    <2>2. s \in Signal /\ status[s] \in Book!Outcome
      BY <1>1, <1>2 DEF Typed, Process
    <2>3. /\ [proc[c] EXCEPT !.pc = "found", !.orphan = s, !.seen = status[s]] \in Process
          /\ proc'[c].pc = "found" /\ proc'[c].orphan = s
          /\ proc'[c].orphans = proc[c].orphans /\ proc'[c].signal = proc[c].signal
      BY <1>2, <1>3, <2>1, <2>2 DEF Process
    <2>4. Moves(c)
      BY <1>2, <2>1, <2>3 DEF Moves
    <2>5. Typed' /\ UNCHANGED <<row, status, cursor>> /\ proc[c].pc = "reconciling"
      BY <1>1, <1>7, <2>4 DEF FindEntry, Typed, Moves, store, At_
    <2>6. WorksOnSignal(c)'
      BY <1>1, <2>3, <2>5 DEF WorksOnSignal
    <2>7. \A r \in Signal : ~Carries(c, r)' /\ ~Holds(c, r)'
      BY <2>3 DEF Carries, Holds
    <2> QED
      BY <2>3, <2>4, <2>5, <2>6, <2>7, QuietStepKeepsApprovalInv
  <1>8. CASE Built(c)
    <2> DEFINE pc == IF c \in Session THEN "ready" ELSE "checking"
    <2>1. pc \in PC \ {"found"}
      BY <1>3
    <2>2. Goto(c, pc) /\ Quiet(c) /\ proc[c].pc = "reconciling"
      BY <1>1, <1>8, <2>1, GotoMoves DEF Built, Quiet, Typed, store, At_
    <2>3. pc = "ready" \/ proc[c].signal \in Signal
      BY <1>1, <2>2 DEF WorksOnSignal, Caller
    <2> QED
      BY <2>1, <2>2, <2>3, GotoKeepsApprovalInv
  <1> QED
    BY <1>4, <1>5, <1>6, <1>7, <1>8

LEMMA StartRequestKeepsApprovalInv ==
  ASSUME ApprovalInv, NEW c \in Caller, NEW s \in Signal, NEW choice \in {"APPROVE", "REJECT"},
         StartRequest(c, s, choice)
  PROVE  ApprovalInv'
  <1>1. Typed /\ WorksOnSignal(c)
    BY DEF ApprovalInv
  <1>2. proc \in [Caller -> Process] /\ proc[c] \in Process
    BY <1>1 DEF Typed
  <1>3. proc' = [proc EXCEPT ![c] = [proc[c] EXCEPT !.pc = "building", !.signal = s,
                                                    !.choice = choice]]
    BY <1>2, Zenon DEF StartRequest
  <1>4. /\ [proc[c] EXCEPT !.pc = "building", !.signal = s, !.choice = choice] \in Process
        /\ proc'[c].pc = "building" /\ proc'[c].signal = s
        /\ proc'[c].orphans = proc[c].orphans
    BY <1>2, <1>3 DEF Process, PC
  <1>5. Moves(c)
    BY <1>2, <1>3, <1>4 DEF Moves
  <1>6. Typed' /\ UNCHANGED <<row, status, cursor>>
    BY <1>1, <1>5 DEF StartRequest, Typed, Moves, store
  <1>7. WorksOnSignal(c)'
    BY <1>4 DEF WorksOnSignal
  <1>8. \A r \in Signal : ~Carries(c, r)' /\ ~Holds(c, r)'
    BY <1>4 DEF Carries, Holds
  <1> QED
    BY <1>4, <1>5, <1>6, <1>7, <1>8, QuietStepKeepsApprovalInv

LEMMA PollKeepsApprovalInv ==
  ASSUME ApprovalInv, NEW c \in Caller,
         \/ NoBar(c)
         \/ \E halted \in BOOLEAN : GuardFill(c, halted)
         \/ \E t \in 1 .. MaxBar : SkipBar(c, t)
         \/ CheckKill(c) \/ Veto(c)
  PROVE  ApprovalInv'
  <1>1. Typed /\ WorksOnSignal(c)
    BY DEF ApprovalInv
  <1>2. proc \in [Caller -> Process] /\ proc[c] \in Process
    BY <1>1 DEF Typed
  <1>3. {"ready", "bar", "handling"} \subseteq PC
    BY DEF PC
  <1>4. CASE NoBar(c)
    <2>1. Goto(c, "ready") /\ Quiet(c)
      BY <1>1, <1>3, <1>4, GotoMoves DEF NoBar, Quiet, Typed, store
    <2> QED
      BY <1>3, <2>1, GotoKeepsApprovalInv
  <1>5. ASSUME NEW halted \in BOOLEAN, GuardFill(c, halted)
        PROVE  ApprovalInv'
    <2> DEFINE allow == Book!HasOpen \/ ~(halted \/ kill)
    <2>1. allow \in BOOLEAN
      OBVIOUS
    <2> HIDE DEF allow
    <2>2. proc' = [proc EXCEPT ![c] = [proc[c] EXCEPT !.pc = "bar", !.allow = allow]]
      BY <1>2, <1>5, Zenon DEF GuardFill, allow
    <2>3. /\ [proc[c] EXCEPT !.pc = "bar", !.allow = allow] \in Process
          /\ proc'[c].pc = "bar" /\ proc'[c].orphans = proc[c].orphans
      BY <1>2, <1>3, <2>1, <2>2 DEF Process
    <2>4. Moves(c)
      BY <1>2, <2>2, <2>3 DEF Moves
    <2>5. Typed' /\ UNCHANGED <<row, status, cursor>>
      BY <1>1, <1>5, <2>4 DEF GuardFill, Typed, Moves, store
    <2>6. WorksOnSignal(c)' /\ \A s \in Signal : ~Carries(c, s)' /\ ~Holds(c, s)'
      BY <2>3 DEF WorksOnSignal, Carries, Holds
    <2> QED
      BY <2>3, <2>4, <2>5, <2>6, QuietStepKeepsApprovalInv
  <1>6. ASSUME NEW t \in 1 .. MaxBar, SkipBar(c, t)
        PROVE  ApprovalInv'
    <2>1. Return(c) /\ Quiet(c)
      BY <1>1, <1>6, ReturnMoves DEF SkipBar, Quiet, Typed, store
    <2> QED
      BY <2>1, ReturnKeepsApprovalInv
  <1>7. CASE CheckKill(c)
    <2>1. CASE kill
      <3>1. Return(c) /\ Quiet(c)
        BY <1>1, <1>7, <2>1, ReturnMoves DEF CheckKill, Quiet, Typed, store
      <3> QED
        BY <3>1, ReturnKeepsApprovalInv
    <2>2. CASE ~kill
      <3>1. Goto(c, "handling") /\ Quiet(c) /\ proc[c].pc = "generated"
        BY <1>1, <1>3, <1>7, <2>2, GotoMoves DEF CheckKill, Quiet, Typed, store, At_
      <3>2. proc[c].signal \in Signal
        BY <1>1, <3>1 DEF WorksOnSignal
      <3> QED
        BY <1>3, <3>1, <3>2, GotoKeepsApprovalInv
    <2> QED
      BY <2>1, <2>2
  <1>8. CASE Veto(c)
    <2>1. Return(c) /\ Quiet(c)
      BY <1>1, <1>8, ReturnMoves DEF Veto, Quiet, Typed, store
    <2> QED
      BY <2>1, ReturnKeepsApprovalInv
  <1> QED
    BY <1>4, <1>5, <1>6, <1>7, <1>8

LEMMA AnswerKeepsApprovalInv ==
  ASSUME ApprovalInv, NEW c \in Caller,
         \/ \E choice \in {"APPROVE", "REJECT"} : Answer(c, choice)
         \/ Check(c) \/ Recheck(c)
  PROVE  ApprovalInv'
  <1>1. Typed /\ WorksOnSignal(c)
    BY DEF ApprovalInv
  <1>2. proc \in [Caller -> Process] /\ proc[c] \in Process
    BY <1>1 DEF Typed
  <1>3. {"checking", "claiming", "cleared"} \subseteq PC
    BY DEF PC
  <1>4. ASSUME NEW choice \in {"APPROVE", "REJECT"}, Answer(c, choice)
        PROVE  ApprovalInv'
    <2>1. proc' = [proc EXCEPT ![c] = [proc[c] EXCEPT !.pc = "checking", !.choice = choice]]
      BY <1>2, <1>4, Zenon DEF Answer
    <2>2. /\ [proc[c] EXCEPT !.pc = "checking", !.choice = choice] \in Process
          /\ proc'[c].pc = "checking" /\ proc'[c].orphans = proc[c].orphans
          /\ proc'[c].signal = proc[c].signal
      BY <1>2, <1>3, <2>1 DEF Process
    <2>3. Moves(c)
      BY <1>2, <2>1, <2>2 DEF Moves
    <2>4. Typed' /\ UNCHANGED <<row, status, cursor>> /\ proc[c].pc = "prompt"
      BY <1>1, <1>4, <2>3 DEF Answer, Typed, Moves, store, At_
    <2>5. WorksOnSignal(c)' /\ \A s \in Signal : ~Carries(c, s)' /\ ~Holds(c, s)'
      BY <1>1, <2>2, <2>4 DEF WorksOnSignal, Carries, Holds
    <2> QED
      BY <2>2, <2>3, <2>4, <2>5, QuietStepKeepsApprovalInv
  <1>5. CASE Check(c)
    <2>1. pending' \in [Caller -> SUBSET Signal]
      BY <1>1, <1>5 DEF Check, Typed
    <2>2. Goto(c, "claiming") /\ Quiet(c) /\ proc[c].pc = "checking"
      BY <1>1, <1>3, <1>5, <2>1, GotoMoves DEF Check, Quiet, Typed, store, At_
    <2>3. proc[c].signal \in Signal
      BY <1>1, <2>2 DEF WorksOnSignal
    <2> QED
      BY <1>3, <2>2, <2>3, GotoKeepsApprovalInv
  <1>6. CASE Recheck(c)
    <2>1. Goto(c, "cleared") /\ Quiet(c) /\ proc[c].pc = "claimed"
      BY <1>1, <1>3, <1>6, GotoMoves DEF Recheck, Quiet, Typed, store, At_
    <2>2. proc[c].signal \in Signal
      BY <1>1, <2>1 DEF WorksOnSignal
    <2> QED
      BY <1>3, <2>1, <2>2, GotoKeepsApprovalInv
  <1> QED
    BY <1>4, <1>5, <1>6

LEMMA CrashKeepsApprovalInv ==
  ASSUME ApprovalInv, NEW c \in Caller, Crash(c)
  PROVE  ApprovalInv'
  <1>1. Typed
    BY DEF ApprovalInv
  <1>2. "down" \in PC
    BY DEF PC
  <1>3. /\ At("down") \in Process
        /\ At("down").pc = "down" /\ At("down").orphans = {}
    BY <1>2, AtIsIdle
  <1>4. proc' = [proc EXCEPT ![c] = At("down")]
    BY DEF Crash
  <1>5. Moves(c) /\ proc'[c].pc = "down" /\ proc'[c].orphans = {}
    BY <1>1, <1>3, <1>4 DEF Typed, Moves
  <1>6. pending' \in [Caller -> SUBSET Signal] /\ crashes' \in 0 .. MaxCrashes
    BY <1>1, ApprovalAssumption DEF Crash, Typed
  <1>7. Typed' /\ UNCHANGED <<row, status, cursor>>
    BY <1>1, <1>5, <1>6 DEF Crash, Typed, Moves, store
  <1>8. WorksOnSignal(c)' /\ \A s \in Signal : ~Carries(c, s)' /\ ~Holds(c, s)'
    BY <1>5 DEF WorksOnSignal, Carries, Holds
  <1> QED
    BY <1>5, <1>7, <1>8, QuietStepKeepsApprovalInv

\* Nobody's step: the kill switch is set, an approval times out, or nothing
\* happens.
LEMMA EnvironmentKeepsApprovalInv ==
  ASSUME ApprovalInv,
         \/ \E active \in BOOLEAN : SetKillSwitch(active)
         \/ \E s \in Signal : TimeOut(s)
         \/ UNCHANGED vars
  PROVE  ApprovalInv'
  <1>1. /\ UNCHANGED <<row, status, cursor, pending, proc, crashes>>
        /\ kill' \in BOOLEAN /\ late' \subseteq Signal
    BY DEF ApprovalInv, Typed, SetKillSwitch, TimeOut, vars, store
  <1>2. Typed'
    BY <1>1 DEF ApprovalInv, Typed
  <1>3. (RowsAreConsistent /\ KnownIsPast /\ OrderIsApproved)'
    BY <1>1 DEF ApprovalInv, RowsAreConsistent, KnownIsPast, OrderIsApproved
  <1>4. \A c \in Caller : WorksOnSignal(c)' /\ WorkIsKnown(c)'
    BY <1>1 DEF ApprovalInv, WorksOnSignal, WorkIsKnown, Carries, Holds
  <1>5. (CarryExclusive /\ ClaimExclusive)'
    BY <1>1 DEF ApprovalInv, CarryExclusive, ClaimExclusive, Carries, Holds
  <1> QED
    BY <1>2, <1>3, <1>4, <1>5 DEF ApprovalInv

-----------------------------------------------------------------------------
(* The writes on a row *)

\* update_decision moves a pending row, and only the rows it is asked for.
LEMMA DecidedRows ==
  ASSUME Typed, NEW decided,
         NEW state \in State, NEW decision \in {"APPROVE", "REJECT", "EXPIRED"},
         row' = Decided(decided, state, decision)
  PROVE  /\ row' \in [Signal -> Row]
         /\ \A s \in Signal :
              \/ row'[s] = row[s] /\ ~(s \in decided /\ IsPending(s))
              \/ /\ s \in decided /\ IsPending(s)
                 /\ row'[s].state = state /\ row'[s].decision = decision
  BY DEF Decided, Typed, Row, Book!Outcome

\* finalize_decision keeps the decision, and the other rows.
LEMMA FinalizedRows ==
  ASSUME Typed, NEW s \in Signal, NEW state \in State,
         NEW result \in Book!Outcome \cup {"KILL_SWITCH_ACTIVE", "ABANDONED_AFTER_CRASH"},
         row' = Finalized(s, state, result)
  PROVE  /\ row' \in [Signal -> Row]
         /\ row'[s].state = state /\ row'[s].decision = row[s].decision
         /\ \A r \in Signal \ {s} : row'[r] = row[r]
  <1> DEFINE final == [row[s] EXCEPT !.state = state, !.result = result]
  <1>1. row \in [Signal -> Row] /\ row[s] \in Row
    BY DEF Typed
  <1>2. final \in Row /\ final.state = state /\ final.decision = row[s].decision
    BY <1>1 DEF Row
  <1>3. row' = [row EXCEPT ![s] = final]
    BY <1>1, Zenon DEF Finalized
  <1> HIDE DEF final
  <1> QED
    BY <1>1, <1>2, <1>3

\* save_pending_approval makes its row pending, and keeps the other rows.
LEMMA SavedRows ==
  ASSUME Typed, NEW s \in Signal, row' = Saved(s)
  PROVE  /\ row' \in [Signal -> Row]
         /\ row'[s].state = "PENDING_HUMAN_APPROVAL" /\ row'[s].decision = row[s].decision
         /\ \A r \in Signal \ {s} : row'[r] = row[r]
  <1>1. row' = [row EXCEPT ![s] = [row[s] EXCEPT !.state = "PENDING_HUMAN_APPROVAL"]]
    BY Zenon DEF Saved, Typed
  <1> QED
    BY <1>1 DEF Typed, Row, State

FinalStates == {"EXECUTED", "RISK_REJECTED"}

LEMMA FinalStateIsFinal ==
  ASSUME NEW outcome
  PROVE  FinalState(outcome) \in FinalStates
  BY DEF FinalState, FinalStates

\* What update_decision is asked for: the state goes with the decision.
Verdict == {<<"HUMAN_APPROVED", "APPROVE">>, <<"HUMAN_REJECTED", "REJECT">>,
            <<"APPROVAL_EXPIRED", "EXPIRED">>}

LEMMA DecisionKeepsApprovalInv ==
  ASSUME ApprovalInv, NEW c \in Caller, Moves(c), UNCHANGED <<status, cursor, late, crashes>>,
         kill' \in BOOLEAN, pending' \in [Caller -> SUBSET Signal],
         NEW decided, NEW state, NEW decision, <<state, decision>> \in Verdict,
         row' = Decided(decided, state, decision),
         WorksOnSignal(c)',
         \A s \in Signal :
           /\ Carries(c, s)' => Carries(c, s)
           /\ Holds(c, s)' => \/ Holds(c, s)
                              \/ s \in decided /\ IsPending(s) /\ decision = "APPROVE",
         proc'[c].orphans \subseteq proc[c].orphans
  PROVE  ApprovalInv'
  <1>1. Typed /\ WorkIsKnown(c) /\ RowsAreConsistent /\ KnownIsPast /\ OrderIsApproved
    BY DEF ApprovalInv
  <1>2. /\ state \in {"HUMAN_APPROVED", "HUMAN_REJECTED", "APPROVAL_EXPIRED"}
        /\ decision \in {"APPROVE", "REJECT", "EXPIRED"}
        /\ state = "HUMAN_APPROVED" => decision = "APPROVE"
    BY DEF Verdict
  <1>3. /\ row' \in [Signal -> Row]
        /\ \A s \in Signal :
             \/ row'[s] = row[s] /\ ~(s \in decided /\ IsPending(s))
             \/ /\ s \in decided /\ IsPending(s)
                /\ row'[s].state = state /\ row'[s].decision = decision
    BY <1>1, <1>2, DecidedRows DEF State
  <1>4. Typed'
    BY <1>1, <1>3 DEF Typed, Moves
  <1>5. RowsAreConsistent'
    BY <1>1, <1>2, <1>3 DEF RowsAreConsistent
  <1>6. KnownIsPast'
    BY <1>1, <1>3 DEF KnownIsPast, IsPending
  <1>7. \A s \in Signal : IsPending(s) => row[s].decision = "NONE" /\ status[s] = "NONE"
    BY <1>1 DEF IsPending, RowsAreConsistent, OrderIsApproved
  <1>8. OrderIsApproved'
    BY <1>1, <1>3, <1>7 DEF OrderIsApproved
  <1>9. \A s \in Signal : row[s].decision = "APPROVE" => row'[s].decision = "APPROVE"
    BY <1>3, <1>7
  <1>10. \A s \in Signal, d \in Caller :
           /\ Carries(d, s) => row[s].state = "NONE" /\ status[s] = "NONE"
           /\ Holds(d, s) => row[s].decision = "APPROVE"
    BY DEF ApprovalInv, WorkIsKnown
  <1>11. \A s \in Signal, d \in Caller :
           Carries(d, s) => row'[s].state = "NONE" /\ status'[s] = "NONE"
    BY <1>3, <1>10 DEF IsPending
  <1>12. \A s \in Signal :
           Holds(c, s)' => Holds(c, s) \/ \A d \in Caller : ~Holds(d, s)
    BY <1>7, <1>10
  <1>13. cursor \in Nat
    BY <1>1, ApprovalAssumption DEF Typed
  <1>14. WorkIsKnown(c)'
    <2> SUFFICES ASSUME NEW s \in Signal
                 PROVE  /\ Carries(c, s)' => /\ row'[s].state = "NONE" /\ status'[s] = "NONE"
                                             /\ BarOf[s] <= cursor'
                        /\ Holds(c, s)' => row'[s].decision = "APPROVE"
                        /\ s \in proc'[c].orphans => row'[s].decision = "APPROVE"
      BY Zenon DEF WorkIsKnown, Carries, Holds
    <2>1. Carries(c, s) => BarOf[s] <= cursor
      BY <1>1 DEF WorkIsKnown
    <2>2. Holds(c, s)' => row'[s].decision = "APPROVE"
      BY <1>3, <1>9, <1>10
    <2>3. s \in proc'[c].orphans => row'[s].decision = "APPROVE"
      BY <1>1, <1>9 DEF WorkIsKnown
    <2> QED
      BY <1>11, <2>1, <2>2, <2>3
  <1> QED
    BY <1>4, <1>5, <1>6, <1>8, <1>9, <1>11, <1>12, <1>13, <1>14, StepKeepsApprovalInv

LEMMA FinalizeKeepsApprovalInv ==
  ASSUME ApprovalInv, NEW c \in Caller, Moves(c), UNCHANGED <<status, cursor, late, crashes>>,
         kill' \in BOOLEAN, pending' \in [Caller -> SUBSET Signal],
         NEW s \in Signal, row[s].decision = "APPROVE",
         NEW state \in FinalStates,
         NEW result \in Book!Outcome \cup {"KILL_SWITCH_ACTIVE", "ABANDONED_AFTER_CRASH"},
         row' = Finalized(s, state, result),
         WorksOnSignal(c)',
         \A r \in Signal : ~Carries(c, r)' /\ ~Holds(c, r)',
         proc'[c].orphans \subseteq proc[c].orphans
  PROVE  ApprovalInv'
  <1>1. Typed /\ WorkIsKnown(c) /\ RowsAreConsistent /\ KnownIsPast /\ OrderIsApproved
    BY DEF ApprovalInv
  <1>2. /\ row' \in [Signal -> Row]
        /\ row'[s].state = state /\ row'[s].decision = "APPROVE"
        /\ \A r \in Signal \ {s} : row'[r] = row[r]
    BY <1>1, FinalizedRows DEF FinalStates, State
  <1>3. row[s].state # "NONE"
    BY <1>1 DEF RowsAreConsistent
  <1>4. Typed'
    BY <1>1, <1>2 DEF Typed, Moves
  <1>5. (RowsAreConsistent /\ OrderIsApproved)'
    BY <1>1, <1>2 DEF RowsAreConsistent, OrderIsApproved, FinalStates
  <1>6. KnownIsPast'
    BY <1>1, <1>2, <1>3 DEF KnownIsPast
  <1>7. \A r \in Signal : row[r].decision = "APPROVE" => row'[r].decision = "APPROVE"
    BY <1>2
  <1>8. \A r \in Signal, d \in Caller : Carries(d, r) => row[r].state = "NONE" /\ status[r] = "NONE"
    BY DEF ApprovalInv, WorkIsKnown
  <1>9. \A r \in Signal, d \in Caller \ {c} :
           Carries(d, r) => row'[r].state = "NONE" /\ status'[r] = "NONE"
    BY <1>2, <1>3, <1>8
  <1>10. cursor \in Nat
    BY <1>1, ApprovalAssumption DEF Typed
  <1>11. WorkIsKnown(c)'
    BY <1>1, <1>7 DEF WorkIsKnown, Carries, Holds
  <1> QED
    BY <1>4, <1>5, <1>6, <1>7, <1>9, <1>10, <1>11, StepKeepsApprovalInv

LEMMA KeptIsBacklog ==
  ASSUME Typed, NEW c \in Caller, NEW swept
  PROVE  Kept(c, swept) \subseteq Signal
  BY DEF Kept, Typed

LEMMA ReconcileKeepsApprovalInv ==
  ASSUME ApprovalInv, NEW c \in Caller, Reconcile(c)
  PROVE  ApprovalInv'
  <1> DEFINE s == proc[c].orphan
             entry == proc[c].seen
             state == IF entry # "NONE" THEN FinalState(entry) ELSE "RISK_REJECTED"
             result == IF entry # "NONE" THEN entry ELSE "ABANDONED_AFTER_CRASH"
  <1>1. Typed /\ WorksOnSignal(c) /\ WorkIsKnown(c)
    BY DEF ApprovalInv
  <1>2. proc \in [Caller -> Process] /\ proc[c] \in Process
    BY <1>1 DEF Typed
  <1>3. /\ row' = Finalized(s, state, result)
        /\ UNCHANGED <<kill, status, cursor, late, pending, crashes>>
        /\ proc[c].pc = "found"
    BY Zenon DEF Reconcile, At_
  <1>4. s \in proc[c].orphans /\ s \in Signal /\ entry \in Book!Outcome
    BY <1>1, <1>2, <1>3 DEF WorksOnSignal, Process
  <1>5. row[s].decision = "APPROVE"
    BY <1>1, <1>4 DEF WorkIsKnown
  <1>6. /\ state \in FinalStates
        /\ result \in Book!Outcome \cup {"KILL_SWITCH_ACTIVE", "ABANDONED_AFTER_CRASH"}
    BY <1>4, FinalStateIsFinal DEF FinalStates
  <1>7. proc' = [proc EXCEPT ![c] = [proc[c] EXCEPT !.pc = "reconciling", !.orphan = NoSignal,
                                       !.orphans = proc[c].orphans \ {s}, !.seen = "NONE"]]
    BY <1>2, Zenon DEF Reconcile
  <1>8. /\ [proc[c] EXCEPT !.pc = "reconciling", !.orphan = NoSignal,
                           !.orphans = proc[c].orphans \ {s}, !.seen = "NONE"] \in Process
        /\ proc'[c].pc = "reconciling" /\ proc'[c].orphans \subseteq proc[c].orphans
        /\ proc'[c].signal = proc[c].signal
    BY <1>2, <1>7 DEF Process, PC, Book!Outcome
  <1>9. Moves(c)
    BY <1>2, <1>7, <1>8 DEF Moves
  <1>10. WorksOnSignal(c)' /\ \A r \in Signal : ~Carries(c, r)' /\ ~Holds(c, r)'
    BY <1>1, <1>3, <1>8 DEF WorksOnSignal, Carries, Holds
  <1>11. kill' \in BOOLEAN /\ pending' \in [Caller -> SUBSET Signal]
    BY <1>1, <1>3 DEF Typed
  <1> HIDE DEF s, state, result
  <1> QED
    BY <1>3, <1>4, <1>5, <1>6, <1>8, <1>9, <1>10, <1>11, FinalizeKeepsApprovalInv

LEMMA SweepKeepsApprovalInv ==
  ASSUME ApprovalInv, NEW c \in Caller, Sweep(c) \/ Refuse(c)
  PROVE  ApprovalInv'
  <1> DEFINE decided == pending[c] \cap late
  <1>1. Typed /\ WorksOnSignal(c)
    BY DEF ApprovalInv
  <1>2. "polling" \in PC /\ <<"APPROVAL_EXPIRED", "EXPIRED">> \in Verdict
    BY DEF PC, Verdict
  <1>3. UNCHANGED <<status, cursor, late, crashes>> /\ kill' \in BOOLEAN
    BY <1>1 DEF Sweep, Refuse, Typed
  <1>4. \A swept : Kept(c, swept) \subseteq Signal
    BY <1>1, KeptIsBacklog
  <1>5. pending' \in [Caller -> SUBSET Signal]
    BY <1>1, <1>4 DEF Sweep, Refuse, Typed
  <1>6. CASE Sweep(c)
    <2>1. Goto(c, "polling") /\ row' = Decided(decided, "APPROVAL_EXPIRED", "EXPIRED")
      BY <1>6 DEF Sweep
    <2>2. Moves(c) /\ proc'[c].pc = "polling" /\ proc'[c].orphans = proc[c].orphans
      BY <1>1, <1>2, <2>1, GotoMoves
    <2>3. WorksOnSignal(c)' /\ \A s \in Signal : ~Carries(c, s)' /\ ~Holds(c, s)'
      BY <2>2 DEF WorksOnSignal, Carries, Holds
    <2> QED
      BY <1>2, <1>3, <1>5, <2>1, <2>2, <2>3, DecisionKeepsApprovalInv
  <1>7. CASE Refuse(c)
    <2>1. /\ Return(c)
          /\ row' = row \/ row' = Decided(decided, "APPROVAL_EXPIRED", "EXPIRED")
      BY <1>7, Zenon DEF Refuse
    <2>2. /\ Moves(c) /\ proc'[c].pc \in {"ready", "down"}
          /\ proc'[c].orphans = {}
      BY <1>1, <2>1, ReturnMoves
    <2>3. WorksOnSignal(c)' /\ \A s \in Signal : ~Carries(c, s)' /\ ~Holds(c, s)'
      BY <2>2 DEF WorksOnSignal, Carries, Holds
    <2>4. CASE row' = row
      <3>1. Quiet(c)
        BY <1>1, <1>3, <1>5, <2>2, <2>4 DEF Quiet, Typed
      <3> QED
        BY <2>1, <3>1, ReturnKeepsApprovalInv
    <2>5. CASE row' = Decided(decided, "APPROVAL_EXPIRED", "EXPIRED")
      BY <1>2, <1>3, <1>5, <2>2, <2>3, <2>5, DecisionKeepsApprovalInv
    <2> QED
      BY <2>1, <2>4, <2>5
  <1> QED
    BY <1>6, <1>7

LEMMA ClaimKeepsApprovalInv ==
  ASSUME ApprovalInv, NEW c \in Caller, Claim(c) \/ Reject(c)
  PROVE  ApprovalInv'
  <1> DEFINE s == proc[c].signal
  <1>1. Typed /\ WorksOnSignal(c)
    BY DEF ApprovalInv
  <1>2. /\ "claimed" \in PC
        /\ <<"HUMAN_APPROVED", "APPROVE">> \in Verdict
        /\ <<"HUMAN_REJECTED", "REJECT">> \in Verdict
    BY DEF PC, Verdict
  <1>3. /\ UNCHANGED <<status, cursor, late, crashes>> /\ kill' \in BOOLEAN
        /\ proc[c].pc = "claiming"
    BY <1>1 DEF Claim, Reject, Typed, At_
  <1>4. s \in Signal
    BY <1>1, <1>3 DEF WorksOnSignal
  <1>5. \A swept : Kept(c, swept) \subseteq Signal
    BY <1>1, KeptIsBacklog
  <1>6. pending' \in [Caller -> SUBSET Signal]
    BY <1>1, <1>5 DEF Claim, Reject, Typed
  <1>7. ASSUME Return(c)
        PROVE  /\ Moves(c) /\ proc'[c].orphans = {} /\ WorksOnSignal(c)'
               /\ \A r \in Signal : ~Carries(c, r)' /\ ~Holds(c, r)'
    <2>1. /\ Moves(c) /\ proc'[c].pc \in {"ready", "down"} /\ proc'[c].orphans = {}
      BY <1>1, <1>7, ReturnMoves
    <2> QED
      BY <2>1 DEF WorksOnSignal, Carries, Holds
  <1>8. CASE Claim(c) /\ IsPending(s)
    <2>1. Goto(c, "claimed") /\ row' = Decided({s}, "HUMAN_APPROVED", "APPROVE")
      BY <1>8, Zenon DEF Claim
    <2>2. /\ Moves(c) /\ proc'[c].pc = "claimed" /\ proc'[c].signal = s
          /\ proc'[c].orphans = proc[c].orphans
      BY <1>1, <1>2, <2>1, GotoMoves
    <2>3. /\ WorksOnSignal(c)'
          /\ \A r \in Signal : ~Carries(c, r)' /\ (Holds(c, r)' => r = s)
      BY <1>4, <2>2 DEF WorksOnSignal, Carries, Holds
    <2> HIDE DEF s
    <2> QED
      BY <1>2, <1>3, <1>6, <1>8, <2>1, <2>2, <2>3, DecisionKeepsApprovalInv
  <1>9. CASE Claim(c) /\ ~IsPending(s)
    <2>1. Return(c) /\ row' = Decided({s}, "HUMAN_APPROVED", "APPROVE")
      BY <1>9, Zenon DEF Claim
    <2> HIDE DEF s
    <2> QED
      BY <1>2, <1>3, <1>6, <1>7, <2>1, DecisionKeepsApprovalInv
  <1>10. CASE Reject(c)
    <2>1. Return(c) /\ row' = Decided({s}, "HUMAN_REJECTED", "REJECT")
      BY <1>10, Zenon DEF Reject
    <2> HIDE DEF s
    <2> QED
      BY <1>2, <1>3, <1>6, <1>7, <2>1, DecisionKeepsApprovalInv
  <1> QED
    BY <1>8, <1>9, <1>10

LEMMA FinishKeepsApprovalInv ==
  ASSUME ApprovalInv, NEW c \in Caller, KillClaim(c) \/ Finalize(c)
  PROVE  ApprovalInv'
  <1> DEFINE s == proc[c].signal
  <1>1. Typed /\ WorksOnSignal(c) /\ WorkIsKnown(c)
    BY DEF ApprovalInv
  <1>2. /\ UNCHANGED <<status, cursor, late, crashes>> /\ kill' \in BOOLEAN
        /\ proc[c].pc \in {"claimed", "submitted"} /\ Return(c)
    BY <1>1 DEF KillClaim, Finalize, Typed, At_
  <1>3. s \in Signal /\ proc[c].seen \in Book!Outcome
    BY <1>1, <1>2 DEF WorksOnSignal, Typed, Process
  <1>4. row[s].decision = "APPROVE"
    BY <1>1, <1>2, <1>3 DEF WorkIsKnown, Holds
  <1>5. Kept(c, {}) \subseteq Signal
    BY <1>1, KeptIsBacklog
  <1>6. pending' \in [Caller -> SUBSET Signal]
    BY <1>1, <1>5 DEF KillClaim, Finalize, Typed
  <1>7. /\ Moves(c) /\ proc'[c].pc \in {"ready", "down"} /\ proc'[c].orphans = {}
    BY <1>1, <1>2, ReturnMoves
  <1>8. WorksOnSignal(c)' /\ \A r \in Signal : ~Carries(c, r)' /\ ~Holds(c, r)'
    BY <1>7 DEF WorksOnSignal, Carries, Holds
  <1>9. CASE KillClaim(c)
    <2>1. row' = Finalized(s, "RISK_REJECTED", "KILL_SWITCH_ACTIVE")
      BY <1>9, Zenon DEF KillClaim
    <2>2. "RISK_REJECTED" \in FinalStates
      BY DEF FinalStates
    <2> HIDE DEF s
    <2> QED
      BY <1>2, <1>3, <1>4, <1>6, <1>7, <1>8, <2>1, <2>2, FinalizeKeepsApprovalInv
  <1>10. CASE Finalize(c)
    <2>1. row' = Finalized(s, FinalState(proc[c].seen), proc[c].seen)
      BY <1>10, Zenon DEF Finalize
    <2>2. FinalState(proc[c].seen) \in FinalStates
      BY FinalStateIsFinal
    <2> HIDE DEF s
    <2> QED
      BY <1>2, <1>3, <1>4, <1>6, <1>7, <1>8, <2>1, <2>2, FinalizeKeepsApprovalInv
  <1> QED
    BY <1>9, <1>10

LEMMA SavePendingKeepsApprovalInv ==
  ASSUME ApprovalInv, NEW c \in Caller, SavePending(c)
  PROVE  ApprovalInv'
  <1> DEFINE s == proc[c].signal
  <1>1. /\ Typed /\ WorksOnSignal(c) /\ WorkIsKnown(c) /\ CarryExclusive
        /\ RowsAreConsistent /\ KnownIsPast /\ OrderIsApproved
    BY DEF ApprovalInv
  <1>2. /\ row' = Saved(s) /\ Goto(c, "prompt") /\ proc[c].pc = "handling"
        /\ UNCHANGED <<kill, status, cursor, late, crashes>>
    BY Zenon DEF SavePending, At_
  <1>3. s \in Signal
    BY <1>1, <1>2 DEF WorksOnSignal
  <1>4. Carries(c, s)
    BY <1>2 DEF Carries
  <1>5. row[s].state = "NONE" /\ status[s] = "NONE" /\ BarOf[s] <= cursor
    BY <1>1, <1>3, <1>4 DEF WorkIsKnown
  <1>6. row[s].decision = "NONE"
    BY <1>1, <1>3, <1>5 DEF RowsAreConsistent
  <1>7. "prompt" \in PC
    BY DEF PC
  <1>8. /\ Moves(c) /\ proc'[c].pc = "prompt" /\ proc'[c].signal = s
        /\ proc'[c].orphans = proc[c].orphans
    BY <1>1, <1>2, <1>7, GotoMoves
  <1>9. pending' \in [Caller -> SUBSET Signal]
    BY <1>1, <1>3 DEF SavePending, Typed
  <1> HIDE DEF s
  <1>10. /\ row' \in [Signal -> Row]
         /\ row'[s].state = "PENDING_HUMAN_APPROVAL" /\ row'[s].decision = "NONE"
         /\ \A r \in Signal \ {s} : row'[r] = row[r]
    BY <1>1, <1>2, <1>3, <1>6, SavedRows
  <1>11. Typed'
    BY <1>1, <1>2, <1>8, <1>9, <1>10 DEF Typed, Moves
  <1>12. (RowsAreConsistent /\ OrderIsApproved)'
    BY <1>1, <1>2, <1>5, <1>10 DEF RowsAreConsistent, OrderIsApproved
  <1>13. KnownIsPast'
    BY <1>1, <1>2, <1>5, <1>10 DEF KnownIsPast
  <1>14. \A r \in Signal : row[r].decision = "APPROVE" => row'[r].decision = "APPROVE"
    BY <1>6, <1>10
  <1>15. \A r \in Signal, d \in Caller :
           Carries(d, r) => row[r].state = "NONE" /\ status[r] = "NONE"
    BY DEF ApprovalInv, WorkIsKnown
  <1>16. \A r \in Signal, d \in Caller \ {c} :
           Carries(d, r) => row'[r].state = "NONE" /\ status'[r] = "NONE"
    BY <1>1, <1>2, <1>3, <1>4, <1>10, <1>15 DEF CarryExclusive
  <1>17. WorksOnSignal(c)' /\ \A r \in Signal : ~Carries(c, r)' /\ ~Holds(c, r)'
    BY <1>3, <1>8 DEF WorksOnSignal, Carries, Holds
  <1>18. WorkIsKnown(c)'
    BY <1>1, <1>8, <1>14, <1>17 DEF WorkIsKnown, Carries, Holds
  <1>19. cursor <= cursor'
    BY <1>1, <1>2, ApprovalAssumption DEF Typed
  <1> QED
    BY <1>8, <1>11, <1>12, <1>13, <1>14, <1>16, <1>17, <1>18, <1>19, StepKeepsApprovalInv

-----------------------------------------------------------------------------
(* The steps on the paper book *)

\* submit_signal decides its signal, once, and no other.
LEMMA SubmittedStatus ==
  ASSUME Typed, NEW c, NEW s \in Signal, NEW outcome \in Book!Outcome,
         SubmitSignal(c, s, outcome)
  PROVE  /\ status' \in [Signal -> Book!Outcome]
         /\ \A r \in Signal : r # s \/ status[r] # "NONE" => status'[r] = status[r]
         /\ status'[s] = outcome
  BY DEF SubmitSignal, Book!Decide, Typed

\* process_bar only moves signals that have an order, and those stay ordered.
LEMMA TradedStatus ==
  ASSUME Typed, NEW is_fresh, NEW allow, Trade(is_fresh, allow)
  PROVE  /\ status' \in [Signal -> Book!Outcome]
         /\ \A s \in Signal :
              \/ status'[s] = status[s]
              \/ /\ status[s] \in {"APPROVED_PENDING", "APPROVED_FILLED_OPEN"}
                 /\ status'[s] \in {"APPROVED_FILLED_OPEN", "APPROVED_FILLED_CLOSED"}
  <1>1. CASE UNCHANGED status
    BY <1>1 DEF Typed
  <1>2. CASE \E s \in Signal : Book!Close(s)
    BY <1>2 DEF Book!Close, Typed, Book!Outcome
  <1>3. CASE \E s \in Signal, outcome \in Book!Outcome : Book!Fill(s, outcome)
    BY <1>3 DEF Book!Fill, Typed, Book!Outcome
  <1> QED
    BY <1>1, <1>2, <1>3, Zenon DEF Trade

LEMMA ProcessBarKeepsApprovalInv ==
  ASSUME ApprovalInv, NEW c \in Caller, NEW t \in 1 .. MaxBar, NEW is_fresh \in BOOLEAN,
         NEW s \in Signal \cup {NoSignal}, ProcessBar(c, t, is_fresh, s)
  PROVE  ApprovalInv'
  <1>1. /\ Typed /\ WorkIsKnown(c)
        /\ RowsAreConsistent /\ KnownIsPast /\ OrderIsApproved
    BY DEF ApprovalInv
  <1>2. /\ Trade(is_fresh, proc[c].allow) /\ t > cursor /\ cursor' = t
        /\ s # NoSignal => BarOf[s] = t
        /\ UNCHANGED <<row, kill, late, pending, crashes>>
    BY Zenon DEF ProcessBar
  <1>3. /\ status' \in [Signal -> Book!Outcome]
        /\ \A r \in Signal : status[r] = "NONE" <=> status'[r] = "NONE"
    BY <1>1, <1>2, TradedStatus
  <1>4. cursor \in Nat /\ cursor' \in 0 .. MaxBar /\ cursor' \in Nat /\ t \in Nat /\ cursor <= cursor'
    BY <1>1, <1>2, ApprovalAssumption DEF Typed
  <1>5. /\ Moves(c)
        /\ proc'[c].pc \in {"ready", "down", "generated"} /\ proc'[c].orphans = {}
        /\ proc'[c].pc = "generated" => proc'[c].signal = s /\ s \in Signal
    <2>1. CASE s = NoSignal
      <3>1. Return(c)
        BY <1>1, <2>1, Zenon DEF ProcessBar, Return
      <3> QED
        BY <1>1, <3>1, ReturnMoves
    <2>2. CASE s # NoSignal
      <3>1. proc' = [proc EXCEPT ![c] = [At("generated") EXCEPT !.signal = s]]
        BY <2>2, Zenon DEF ProcessBar
      <3>2. /\ At("generated") \in Process /\ At("generated").pc = "generated"
            /\ At("generated").orphans = {}
        BY AtIsIdle DEF PC
      <3>3. /\ [At("generated") EXCEPT !.signal = s] \in Process
            /\ [At("generated") EXCEPT !.signal = s].pc = "generated"
            /\ [At("generated") EXCEPT !.signal = s].orphans = {}
            /\ [At("generated") EXCEPT !.signal = s].signal = s
        BY <3>2 DEF Process
      <3> QED
        BY <1>1, <2>2, <3>1, <3>3 DEF Moves, Typed
    <2> QED
      BY <2>1, <2>2
  <1>6. Typed'
    BY <1>1, <1>2, <1>3, <1>4, <1>5 DEF Typed, Moves
  <1>7. (RowsAreConsistent /\ OrderIsApproved)'
    BY <1>1, <1>2, <1>3 DEF RowsAreConsistent, OrderIsApproved
  <1>8. \A r \in Signal : BarOf[r] \in Nat
    BY ApprovalAssumption
  <1>9. KnownIsPast'
    BY <1>1, <1>2, <1>3, <1>4, <1>8 DEF KnownIsPast
  <1>10. \A r \in Signal, d \in Caller :
           Carries(d, r) => row[r].state = "NONE" /\ status[r] = "NONE" /\ BarOf[r] <= cursor
    BY DEF ApprovalInv, WorkIsKnown
  <1>11. \A r \in Signal, d \in Caller :
           Carries(d, r) => row'[r].state = "NONE" /\ status'[r] = "NONE"
    BY <1>2, <1>3, <1>10
  <1>12. WorksOnSignal(c)'
    BY <1>5 DEF WorksOnSignal
  <1>13. \A r \in Signal : ~Holds(c, r)' /\ (Carries(c, r)' => r = s)
    BY <1>5 DEF Holds, Carries
  <1>14. ASSUME s \in Signal
         PROVE  /\ row'[s].state = "NONE" /\ status'[s] = "NONE" /\ BarOf[s] <= cursor'
                /\ \A d \in Caller : ~Carries(d, s)
    <2>1. s # NoSignal
      BY <1>14, ApprovalAssumption
    <2>2. BarOf[s] = t /\ ~(BarOf[s] <= cursor)
      BY <1>2, <1>4, <2>1
    <2> QED
      BY <1>1, <1>2, <1>3, <1>4, <1>10, <1>14, <2>2 DEF KnownIsPast
  <1>15. WorkIsKnown(c)'
    <2> SUFFICES ASSUME NEW r \in Signal
                 PROVE  /\ Carries(c, r)' => /\ row'[r].state = "NONE" /\ status'[r] = "NONE"
                                             /\ BarOf[r] <= cursor'
                        /\ Holds(c, r)' => row'[r].decision = "APPROVE"
                        /\ r \in proc'[c].orphans => row'[r].decision = "APPROVE"
      BY Zenon DEF WorkIsKnown, Carries, Holds
    <2> QED
      BY <1>5, <1>13, <1>14
  <1>16. \A r \in Signal :
           Carries(c, r)' => \A d \in Caller : ~Carries(d, r)
    BY <1>13, <1>14
  <1> QED
    BY <1>2, <1>4, <1>5, <1>6, <1>7, <1>9, <1>11, <1>12, <1>13, <1>15, <1>16,
       StepKeepsApprovalInv

LEMMA SubmitKeepsApprovalInv ==
  ASSUME ApprovalInv, NEW c \in Caller, SubmitAuto(c) \/ Submit(c)
  PROVE  ApprovalInv'
  <1> DEFINE s == proc[c].signal
  <1>1. /\ Typed /\ WorksOnSignal(c) /\ WorkIsKnown(c) /\ CarryExclusive
        /\ RowsAreConsistent /\ KnownIsPast /\ OrderIsApproved
    BY DEF ApprovalInv
  <1>2. /\ UNCHANGED <<row, kill, cursor, late, pending, crashes>>
        /\ proc[c].pc \in {"handling", "cleared"}
    BY DEF SubmitAuto, Submit, At_
  <1>3. s \in Signal
    BY <1>1, <1>2 DEF WorksOnSignal
  <1>4. /\ Carries(c, s) => BarOf[s] <= cursor /\ row[s].state = "NONE"
        /\ Holds(c, s) => row[s].decision = "APPROVE"
    BY <1>1, <1>3 DEF WorkIsKnown
  <1>5. Carries(c, s) \/ Holds(c, s)
    BY <1>2 DEF Carries, Holds
  <1>6. BarOf[s] <= cursor /\ (row[s].state = "NONE" \/ row[s].decision = "APPROVE")
    BY <1>1, <1>3, <1>4, <1>5 DEF KnownIsPast, RowsAreConsistent
  <1>7. /\ Moves(c) /\ proc'[c].pc \in {"ready", "down", "submitted"}
        /\ proc'[c].orphans \subseteq proc[c].orphans
        /\ proc'[c].pc = "submitted" => Holds(c, s) /\ proc'[c].signal = s
        /\ \E outcome \in Book!Outcome : SubmitSignal(c, s, outcome)
    <2>1. CASE SubmitAuto(c)
      <3>1. Return(c) /\ \E outcome \in Book!Outcome : SubmitSignal(c, s, outcome)
        BY <2>1, Zenon DEF SubmitAuto
      <3>2. Moves(c) /\ proc'[c].pc \in {"ready", "down"} /\ proc'[c].orphans = {}
        BY <1>1, <3>1, ReturnMoves
      <3> QED
        BY <3>1, <3>2
    <2>2. CASE Submit(c)
      <3>1. proc \in [Caller -> Process] /\ proc[c] \in Process
        BY <1>1 DEF Typed
      <3>2. PICK outcome \in Book!Outcome :
              /\ SubmitSignal(c, s, outcome)
              /\ proc' = [proc EXCEPT ![c] = [proc[c] EXCEPT !.pc = "submitted",
                                                             !.seen = outcome]]
        BY <2>2, <3>1, Zenon DEF Submit
      <3>3. /\ [proc[c] EXCEPT !.pc = "submitted", !.seen = outcome] \in Process
            /\ proc'[c].pc = "submitted" /\ proc'[c].orphans = proc[c].orphans
            /\ proc'[c].signal = s
        BY <3>1, <3>2 DEF Process, PC
      <3>4. Moves(c)
        BY <3>1, <3>2, <3>3 DEF Moves
      <3>5. Holds(c, s)
        BY <2>2 DEF Submit, At_, Holds
      <3> QED
        BY <3>2, <3>3, <3>4, <3>5
    <2> QED
      BY <2>1, <2>2
  <1> HIDE DEF s
  <1>8. /\ status' \in [Signal -> Book!Outcome]
        /\ \A r \in Signal \ {s} : status'[r] = status[r]
    BY <1>1, <1>3, <1>7, SubmittedStatus
  <1>9. Typed'
    BY <1>1, <1>2, <1>7, <1>8 DEF Typed, Moves
  <1>10. (RowsAreConsistent /\ KnownIsPast /\ OrderIsApproved)'
    BY <1>1, <1>2, <1>3, <1>6, <1>8 DEF RowsAreConsistent, KnownIsPast, OrderIsApproved
  <1>11. \A r \in Signal, d \in Caller :
           Carries(d, r) => row[r].state = "NONE" /\ status[r] = "NONE"
    BY DEF ApprovalInv, WorkIsKnown
  <1>12. \A d \in Caller \ {c} : ~Carries(d, s)
    BY <1>1, <1>3, <1>4, <1>5, <1>11 DEF CarryExclusive, RowsAreConsistent
  <1>13. \A r \in Signal, d \in Caller \ {c} :
           Carries(d, r) => row'[r].state = "NONE" /\ status'[r] = "NONE"
    BY <1>2, <1>3, <1>8, <1>11, <1>12
  <1>14. /\ WorksOnSignal(c)'
         /\ \A r \in Signal : ~Carries(c, r)' /\ (Holds(c, r)' => r = s /\ Holds(c, s))
    BY <1>3, <1>7 DEF WorksOnSignal, Carries, Holds
  <1>15. WorkIsKnown(c)'
    <2> SUFFICES ASSUME NEW r \in Signal
                 PROVE  /\ Carries(c, r)' => /\ row'[r].state = "NONE" /\ status'[r] = "NONE"
                                             /\ BarOf[r] <= cursor'
                        /\ Holds(c, r)' => row'[r].decision = "APPROVE"
                        /\ r \in proc'[c].orphans => row'[r].decision = "APPROVE"
      BY Zenon DEF WorkIsKnown, Carries, Holds
    <2>1. r \in proc'[c].orphans => row[r].decision = "APPROVE"
      BY <1>1, <1>7 DEF WorkIsKnown
    <2> QED
      BY <1>2, <1>4, <1>14, <2>1
  <1>16. cursor <= cursor'
    BY <1>1, <1>2, ApprovalAssumption DEF Typed
  <1> QED
    BY <1>2, <1>7, <1>9, <1>10, <1>13, <1>14, <1>15, <1>16, StepKeepsApprovalInv

-----------------------------------------------------------------------------
(* The invariant *)

LEMMA InitApprovalInv == Init => ApprovalInv
  <1> SUFFICES ASSUME Init PROVE ApprovalInv
    OBVIOUS
  <1>1. "down" \in PC
    BY DEF PC
  <1>2. /\ At("down") \in Process
        /\ At("down").pc = "down" /\ At("down").orphans = {}
    BY <1>1, AtIsIdle
  <1>3. \A c \in Caller : proc[c] = At("down")
    BY DEF Init
  <1>4. Typed
    <2>1. proc \in [Caller -> Process]
      BY <1>2 DEF Init
    <2>2. NoRow \in Row
      BY DEF NoRow, Row, State, Book!Outcome
    <2>3. /\ row \in [Signal -> Row] /\ status \in [Signal -> Book!Outcome]
          /\ pending \in [Caller -> SUBSET Signal]
      BY <2>2 DEF Init, Book!Outcome
    <2>4. cursor \in 0 .. MaxBar /\ crashes \in 0 .. MaxCrashes
      BY ApprovalAssumption DEF Init
    <2>5. kill \in BOOLEAN /\ late \subseteq Signal
      BY DEF Init
    <2> QED
      BY <2>1, <2>3, <2>4, <2>5 DEF Typed
  <1>5. RowsAreConsistent /\ KnownIsPast /\ OrderIsApproved
    BY DEF Init, NoRow, RowsAreConsistent, KnownIsPast, OrderIsApproved
  <1>6. \A c \in Caller : WorksOnSignal(c) /\ WorkIsKnown(c)
    <2>1. ASSUME NEW c \in Caller
          PROVE  WorkIsKnown(c)
      BY <1>2, <1>3 DEF WorkIsKnown, Carries, Holds
    <2>2. ASSUME NEW c \in Caller
          PROVE  WorksOnSignal(c)
      <3>1. c \in Request => proc[c].pc = "down"
        BY <1>2, <1>3
      <3> QED
        BY <1>2, <1>3 DEF WorksOnSignal
    <2> QED
      BY <2>1, <2>2
  <1>7. CarryExclusive /\ ClaimExclusive
    BY <1>2, <1>3 DEF CarryExclusive, ClaimExclusive, Carries, Holds
  <1> QED
    BY <1>4, <1>5, <1>6, <1>7 DEF ApprovalInv

LEMMA NextKeepsApprovalInv ==
  ASSUME ApprovalInv, [Next]_vars
  PROVE  ApprovalInv'
  <1>1. ASSUME NEW c \in Caller, Step(c)
        PROVE  ApprovalInv'
    <2>1. CASE Build(c)
      BY <2>1, BuildKeepsApprovalInv, ReconcileKeepsApprovalInv DEF Build
    <2>2. CASE Poll(c)
      BY <2>2, SweepKeepsApprovalInv, PollKeepsApprovalInv, ProcessBarKeepsApprovalInv DEF Poll
    <2>3. CASE Handle(c)
      BY <2>3, PollKeepsApprovalInv, SubmitKeepsApprovalInv, SavePendingKeepsApprovalInv
      DEF Handle
    <2>4. CASE Decide(c)
      BY <2>4, AnswerKeepsApprovalInv, SweepKeepsApprovalInv, ClaimKeepsApprovalInv,
         FinishKeepsApprovalInv, SubmitKeepsApprovalInv DEF Decide
    <2> QED
      BY <1>1, <2>1, <2>2, <2>3, <2>4 DEF Step
  <1>2. ASSUME NEW c \in Caller, StartSession(c) \/ Crash(c)
        PROVE  ApprovalInv'
    BY <1>2, BuildKeepsApprovalInv, CrashKeepsApprovalInv
  <1> QED
    BY <1>1, <1>2, StartRequestKeepsApprovalInv, EnvironmentKeepsApprovalInv DEF Next

LEMMA ApprovalInvariant == Spec => []ApprovalInv
  BY InitApprovalInv, NextKeepsApprovalInv, PTL DEF Spec

\* No statement on a row takes it back to what it was before it was saved.
LEMMA RowsStay ==
  ASSUME Typed, [Next]_vars, NEW s \in Signal, row[s].state # "NONE"
  PROVE  row'[s].state # "NONE"
  <1>1. row \in [Signal -> Row]
    BY DEF Typed
  <1>2. ASSUME NEW r, NEW state, NEW result, state # "NONE",
               row' = Finalized(r, state, result)
        PROVE  row'[s].state # "NONE"
    BY <1>1, <1>2 DEF Finalized, Row
  <1>3. ASSUME NEW decided, NEW state, NEW decision, state # "NONE",
               row' = Decided(decided, state, decision)
        PROVE  row'[s].state # "NONE"
    BY <1>1, <1>3 DEF Decided
  <1>4. ASSUME NEW r, row' = Saved(r)
        PROVE  row'[s].state # "NONE"
    BY <1>1, <1>4 DEF Saved, Row
  <1>5. \A outcome : FinalState(outcome) # "NONE"
    BY DEF FinalState
  <1>6. ASSUME NEW c \in Caller, Step(c)
        PROVE  row'[s].state # "NONE"
    <2>1. CASE Reconcile(c) \/ KillClaim(c) \/ Finalize(c)
      BY <1>2, <1>5, <2>1 DEF Reconcile, KillClaim, Finalize
    <2>2. CASE Sweep(c) \/ Refuse(c) \/ Claim(c) \/ Reject(c)
      BY <1>3, <2>2 DEF Sweep, Refuse, Claim, Reject
    <2>3. CASE SavePending(c)
      BY <1>4, <2>3 DEF SavePending
    <2>4. CASE Restore(c) \/ ListOrphans(c) \/ FindEntry(c) \/ Built(c)
      BY <2>4, Zenon DEF Restore, ListOrphans, FindEntry, Built, store
    <2>5. CASE NoBar(c) \/ CheckKill(c) \/ Veto(c) \/ SubmitAuto(c) \/ Submit(c)
               \/ Check(c) \/ Recheck(c) \/ \E choice \in {"APPROVE", "REJECT"} : Answer(c, choice)
      BY <2>5 DEF NoBar, CheckKill, Veto, SubmitAuto, Submit, Check, Recheck, Answer, store
    <2>6. CASE \/ \E halted \in BOOLEAN : GuardFill(c, halted)
               \/ \E t \in 1 .. MaxBar : SkipBar(c, t)
               \/ \E t \in 1 .. MaxBar, is_fresh \in BOOLEAN, r \in Signal \cup {NoSignal} :
                    ProcessBar(c, t, is_fresh, r)
      <3>1. row' = row
        BY <2>6, Zenon DEF GuardFill, SkipBar, ProcessBar, store
      <3> QED
        BY <3>1
    <2> QED
      BY <1>6, <2>1, <2>2, <2>3, <2>4, <2>5, <2>6 DEF Step, Build, Poll, Handle, Decide
  <1>7. ASSUME NEW c \in Caller,
               \/ StartSession(c) \/ Crash(c)
               \/ \E r \in Signal, choice \in {"APPROVE", "REJECT"} : StartRequest(c, r, choice)
        PROVE  row'[s].state # "NONE"
    BY <1>7, Zenon DEF StartSession, Crash, StartRequest, store
  <1>8. CASE \/ \E active \in BOOLEAN : SetKillSwitch(active)
             \/ \E r \in Signal : TimeOut(r)
    BY <1>8 DEF SetKillSwitch, TimeOut, store
  <1>9. CASE UNCHANGED vars
    BY <1>9 DEF vars
  <1> QED
    BY <1>6, <1>7, <1>8, <1>9 DEF Next

\* What a step adds to a backlog is pending in the store, or saved by it.
LEMMA BacklogGrows ==
  ASSUME Typed, \A c \in Caller : WorksOnSignal(c), [Next]_vars,
         NEW c \in Caller, NEW s \in Signal, s \in pending'[c]
  PROVE  s \in pending[c] \/ row[s].state # "NONE" \/ row'[s].state # "NONE"
  <1>1. row \in [Signal -> Row] /\ pending \in [Caller -> SUBSET Signal]
    BY DEF Typed
  <1>2. ASSUME NEW d \in Caller, Step(d)
        PROVE  s \in pending[c] \/ row[s].state # "NONE" \/ row'[s].state # "NONE"
    <2>1. CASE Restore(d)
      BY <1>1, <2>1 DEF Restore, IsPending
    <2>2. CASE SavePending(d)
      <3>1. /\ pending' = [pending EXCEPT ![d] = @ \cup {proc[d].signal}]
            /\ row' = Saved(proc[d].signal) /\ proc[d].pc = "handling"
        BY <2>2 DEF SavePending, At_
      <3>2. s \in pending[c] \/ s = proc[d].signal
        BY <1>1, <3>1
      <3> QED
        BY <1>1, <3>1, <3>2 DEF Saved, Row
    <2>3. CASE Sweep(d) \/ Check(d)
      BY <1>1, <2>3 DEF Sweep, Check
    <2>4. CASE Refuse(d) \/ Claim(d) \/ Reject(d) \/ KillClaim(d) \/ Finalize(d)
      <3>1. pending' = pending \/ \E over : pending' = [pending EXCEPT ![d] = Kept(d, over)]
        BY <2>4 DEF Refuse, Claim, Reject, KillClaim, Finalize
      <3>2. \A over : Kept(d, over) \subseteq pending[d]
        BY DEF Kept
      <3> QED
        BY <1>1, <3>1, <3>2
    <2>5. CASE \/ ListOrphans(d) \/ FindEntry(d) \/ Reconcile(d) \/ Built(d)
               \/ NoBar(d) \/ CheckKill(d) \/ Veto(d) \/ SubmitAuto(d) \/ Submit(d)
               \/ Recheck(d) \/ \E choice \in {"APPROVE", "REJECT"} : Answer(d, choice)
      BY <2>5, Zenon DEF ListOrphans, FindEntry, Reconcile, Built, NoBar, CheckKill, Veto,
                  SubmitAuto, Submit, Recheck, Answer
    <2>6. CASE \/ \E halted \in BOOLEAN : GuardFill(d, halted)
               \/ \E t \in 1 .. MaxBar : SkipBar(d, t)
               \/ \E t \in 1 .. MaxBar, is_fresh \in BOOLEAN, r \in Signal \cup {NoSignal} :
                    ProcessBar(d, t, is_fresh, r)
      <3>1. pending' = pending
        BY <2>6, Zenon DEF GuardFill, SkipBar, ProcessBar
      <3> QED
        BY <3>1
    <2> QED
      BY <1>2, <2>1, <2>2, <2>3, <2>4, <2>5, <2>6 DEF Step, Build, Poll, Handle, Decide
  <1>3. ASSUME NEW d \in Caller, Crash(d)
        PROVE  s \in pending[c]
    BY <1>1, <1>3 DEF Crash
  <1>4. ASSUME NEW d \in Caller,
               \/ StartSession(d)
               \/ \E r \in Signal, choice \in {"APPROVE", "REJECT"} : StartRequest(d, r, choice)
        PROVE  s \in pending[c]
    BY <1>4, Zenon DEF StartSession, StartRequest
  <1>5. CASE \/ \E active \in BOOLEAN : SetKillSwitch(active)
             \/ \E r \in Signal : TimeOut(r)
    BY <1>5 DEF SetKillSwitch, TimeOut
  <1>6. CASE UNCHANGED vars
    BY <1>6 DEF vars
  <1> QED
    BY <1>2, <1>3, <1>4, <1>5, <1>6 DEF Next

\* Every row and every caller of the live-state store is of its type, a
\* backlog only ever names saved rows, however stale it is, and a caller that
\* works on a signal names it.
THEOREM ApprovalTypes == Spec => []TypeOK
  <1>1. Init => BacklogIsSaved
    BY DEF Init, BacklogIsSaved
  <1>2. ApprovalInv /\ BacklogIsSaved /\ [Next]_vars => BacklogIsSaved'
    <2> SUFFICES ASSUME ApprovalInv, BacklogIsSaved, [Next]_vars,
                        NEW c \in Caller, NEW s \in Signal, s \in pending'[c]
                 PROVE  row'[s].state # "NONE"
      BY DEF BacklogIsSaved
    <2>1. Typed /\ \A d \in Caller : WorksOnSignal(d)
      BY DEF ApprovalInv
    <2> QED
      BY <2>1, BacklogGrows, RowsStay DEF BacklogIsSaved
  <1>3. ApprovalInv /\ BacklogIsSaved => TypeOK
    BY DEF ApprovalInv, TypeOK
  <1> QED
    BY <1>1, <1>2, <1>3, ApprovalInvariant, PTL DEF Spec

\* However many sessions and requests race to decide a signal, at most one
\* carries it from the claim to the paper book.
THEOREM ClaimsAreExclusive == Spec => []ClaimExclusive
  <1>1. ApprovalInv => ClaimExclusive
    BY DEF ApprovalInv
  <1> QED
    BY <1>1, ApprovalInvariant, PTL

\* A signal that was put to a human has no order unless it was approved.
THEOREM OrdersAreApproved == Spec => []NoOrderWithoutApproval
  <1>1. ApprovalInv => NoOrderWithoutApproval
    BY DEF ApprovalInv, OrderIsApproved, WorkIsKnown, NoOrderWithoutApproval
  <1> QED
    BY <1>1, ApprovalInvariant, PTL

-----------------------------------------------------------------------------
(* What a step does to the rows *)

\* The places where a caller works on a decided signal, or on an orphan.
Working == {"reconciling", "found", "claimed", "cleared", "submitted"}

\* A row is kept, or decided while it is pending, or saved for the first time.
RowAside(s) ==
  \/ row'[s] = row[s]
  \/ IsPending(s) /\ <<row'[s].state, row'[s].decision>> \in Verdict
  \/ /\ row[s].state = "NONE"
     /\ row'[s].state = "PENDING_HUMAN_APPROVAL" /\ row'[s].decision = row[s].decision

\* A row is finalized with the decision it has.
RowFinal(s) ==
  /\ row[s].decision = "APPROVE" /\ row'[s].decision = "APPROVE"
  /\ row'[s].state \in FinalStates

\* The steps of a caller that neither leave it working nor finalize a row.
Aside(c) ==
  \/ StartSession(c) \/ Restore(c) \/ Built(c)
  \/ Sweep(c) \/ NoBar(c)
  \/ \E halted \in BOOLEAN : GuardFill(c, halted)
  \/ \E t \in 1 .. MaxBar : SkipBar(c, t)
  \/ \E t \in 1 .. MaxBar, is_fresh \in BOOLEAN, s \in Signal \cup {NoSignal} :
       ProcessBar(c, t, is_fresh, s)
  \/ Handle(c)
  \/ \E choice \in {"APPROVE", "REJECT"} : Answer(c, choice)
  \/ Refuse(c) \/ Check(c) \/ Reject(c)
  \/ Claim(c) /\ ~IsPending(proc[c].signal)
  \/ Crash(c)
  \/ \E s \in Signal, choice \in {"APPROVE", "REJECT"} : StartRequest(c, s, choice)

LEMMA AsideDecides ==
  ASSUME Typed, NEW decided, NEW state, NEW decision, <<state, decision>> \in Verdict,
         row' = Decided(decided, state, decision)
  PROVE  \A s \in Signal : RowAside(s)
  <1>1. state \in State /\ decision \in {"APPROVE", "REJECT", "EXPIRED"}
    BY DEF Verdict, State
  <1> QED
    BY <1>1, DecidedRows DEF RowAside

LEMMA AsideMoves ==
  ASSUME Typed, NEW c \in Caller, Aside(c)
  PROVE  Moves(c) /\ proc'[c].pc \notin Working
  <1>1. proc \in [Caller -> Process] /\ proc[c] \in Process
    BY DEF Typed
  <1>2. {"building", "restored", "ready", "checking", "polling", "bar", "handling", "prompt",
         "claiming", "down", "generated"} \subseteq PC \ Working
    BY DEF PC, Working
  <1>3. ASSUME NEW pc \in PC \ Working, Goto(c, pc)
        PROVE  Moves(c) /\ proc'[c].pc \notin Working
    BY <1>2, <1>3, GotoMoves
  <1>4. ASSUME Return(c)
        PROVE  Moves(c) /\ proc'[c].pc \notin Working
    BY <1>2, <1>4, ReturnMoves
  <1>5. CASE StartSession(c) \/ Restore(c) \/ Built(c) \/ Sweep(c) \/ NoBar(c) \/ Check(c)
    <2>1. \E pc \in {"building", "restored", "ready", "checking", "polling", "claiming"} : Goto(c, pc)
      BY <1>5 DEF StartSession, Restore, Built, Sweep, NoBar, Check
    <2> QED
      BY <1>2, <1>3, <2>1
  <1>6. ASSUME NEW halted \in BOOLEAN, GuardFill(c, halted)
        PROVE  Moves(c) /\ proc'[c].pc \notin Working
    <2> DEFINE allow == Book!HasOpen \/ ~(halted \/ kill)
    <2>1. allow \in BOOLEAN
      OBVIOUS
    <2> HIDE DEF allow
    <2>2. proc' = [proc EXCEPT ![c] = [proc[c] EXCEPT !.pc = "bar", !.allow = allow]]
      BY <1>1, <1>6, Zenon DEF GuardFill, allow
    <2>3. /\ [proc[c] EXCEPT !.pc = "bar", !.allow = allow] \in Process
          /\ [proc[c] EXCEPT !.pc = "bar", !.allow = allow].pc = "bar"
      BY <1>1, <1>2, <2>1 DEF Process
    <2> QED
      BY <1>1, <1>2, <2>2, <2>3 DEF Moves
  <1>7. CASE \E t \in 1 .. MaxBar : SkipBar(c, t)
    BY <1>4, <1>7 DEF SkipBar
  <1>8. ASSUME NEW t \in 1 .. MaxBar, NEW is_fresh \in BOOLEAN,
               NEW s \in Signal \cup {NoSignal}, ProcessBar(c, t, is_fresh, s)
        PROVE  Moves(c) /\ proc'[c].pc \notin Working
    <2>1. CASE s = NoSignal
      BY <1>1, <1>4, <1>8, <2>1, Zenon DEF ProcessBar, Return
    <2>2. CASE s # NoSignal
      <3>1. proc' = [proc EXCEPT ![c] = [At("generated") EXCEPT !.signal = s]]
        BY <1>8, <2>2, Zenon DEF ProcessBar
      <3>2. At("generated") \in Process /\ At("generated").pc = "generated"
        BY <1>2, AtIsIdle
      <3>3. /\ [At("generated") EXCEPT !.signal = s] \in Process
            /\ [At("generated") EXCEPT !.signal = s].pc = "generated"
        BY <3>2 DEF Process
      <3> QED
        BY <1>1, <1>2, <3>1, <3>3 DEF Moves
    <2> QED
      BY <2>1, <2>2
  <1>9. CASE Handle(c)
    <2>1. Return(c) \/ Goto(c, "handling") \/ Goto(c, "prompt")
      BY <1>9, Zenon DEF Handle, CheckKill, Veto, SubmitAuto, SavePending
    <2> QED
      BY <1>2, <1>3, <1>4, <2>1
  <1>10. ASSUME NEW choice \in {"APPROVE", "REJECT"}, Answer(c, choice)
         PROVE  Moves(c) /\ proc'[c].pc \notin Working
    <2>1. proc' = [proc EXCEPT ![c] = [proc[c] EXCEPT !.pc = "checking", !.choice = choice]]
      BY <1>1, <1>10, Zenon DEF Answer
    <2>2. /\ [proc[c] EXCEPT !.pc = "checking", !.choice = choice] \in Process
          /\ [proc[c] EXCEPT !.pc = "checking", !.choice = choice].pc = "checking"
      BY <1>1, <1>2 DEF Process
    <2> QED
      BY <1>1, <1>2, <2>1, <2>2 DEF Moves
  <1>11. CASE Refuse(c) \/ Reject(c) \/ (Claim(c) /\ ~IsPending(proc[c].signal))
    <2>1. Return(c)
      BY <1>11, Zenon DEF Refuse, Reject, Claim
    <2> QED
      BY <1>4, <2>1
  <1>12. CASE Crash(c)
    <2>1. At("down") \in Process /\ At("down").pc = "down"
      BY <1>2, AtIsIdle
    <2> QED
      BY <1>1, <1>2, <1>12, <2>1 DEF Crash, Moves
  <1>13. ASSUME NEW s \in Signal, NEW choice \in {"APPROVE", "REJECT"}, StartRequest(c, s, choice)
         PROVE  Moves(c) /\ proc'[c].pc \notin Working
    <2>1. proc' = [proc EXCEPT ![c] = [proc[c] EXCEPT !.pc = "building", !.signal = s,
                                                      !.choice = choice]]
      BY <1>1, <1>13, Zenon DEF StartRequest
    <2>2. /\ [proc[c] EXCEPT !.pc = "building", !.signal = s, !.choice = choice] \in Process
          /\ [proc[c] EXCEPT !.pc = "building", !.signal = s, !.choice = choice].pc = "building"
      BY <1>1, <1>2 DEF Process
    <2> QED
      BY <1>1, <1>2, <2>1, <2>2 DEF Moves
  <1> QED
    BY <1>5, <1>6, <1>7, <1>8, <1>9, <1>10, <1>11, <1>12, <1>13 DEF Aside

LEMMA AsideRows ==
  ASSUME ApprovalInv, NEW c \in Caller, Aside(c)
  PROVE  \A s \in Signal : RowAside(s)
  <1>1. Typed /\ WorksOnSignal(c) /\ WorkIsKnown(c)
    BY DEF ApprovalInv
  <1>2. /\ <<"HUMAN_APPROVED", "APPROVE">> \in Verdict
        /\ <<"HUMAN_REJECTED", "REJECT">> \in Verdict
        /\ <<"APPROVAL_EXPIRED", "EXPIRED">> \in Verdict
    BY DEF Verdict
  <1>3. CASE UNCHANGED row
    BY <1>3 DEF RowAside
  <1>4. CASE Sweep(c) \/ Refuse(c) \/ Reject(c) \/ Claim(c)
    <2>1. \/ UNCHANGED row
          \/ row' = Decided(pending[c] \cap late, "APPROVAL_EXPIRED", "EXPIRED")
          \/ row' = Decided({proc[c].signal}, "HUMAN_REJECTED", "REJECT")
          \/ row' = Decided({proc[c].signal}, "HUMAN_APPROVED", "APPROVE")
      BY <1>4, Zenon DEF Sweep, Refuse, Reject, Claim
    <2> QED
      BY <1>1, <1>2, <1>3, <2>1, AsideDecides
  <1>5. CASE SavePending(c)
    <2>1. row' = Saved(proc[c].signal) /\ proc[c].pc = "handling"
      BY <1>5, Zenon DEF SavePending, At_
    <2>2. proc[c].signal \in Signal /\ row[proc[c].signal].state = "NONE"
      BY <1>1, <2>1 DEF WorksOnSignal, WorkIsKnown, Carries
    <2> QED
      BY <1>1, <2>1, <2>2, SavedRows DEF RowAside
  <1>6. CASE ~(Sweep(c) \/ Refuse(c) \/ Reject(c) \/ Claim(c) \/ SavePending(c))
    <2>1. UNCHANGED row
      BY <1>6, Zenon
      DEF Aside, StartSession, Restore, Built, NoBar, GuardFill, SkipBar, ProcessBar, Handle,
          CheckKill, Veto, SubmitAuto, Answer, Check, Crash, StartRequest, store
    <2> QED
      BY <1>3, <2>1
  <1> QED
    BY <1>4, <1>5, <1>6

LEMMA ReconcileEffect ==
  ASSUME ApprovalInv, NEW c \in Caller, Reconcile(c)
  PROVE  LET s == proc[c].orphan IN
         /\ proc[c].pc = "found" /\ s \in Signal /\ s \in proc[c].orphans
         /\ row[s].decision = "APPROVE" /\ row'[s].decision = "APPROVE"
         /\ row'[s].state = IF proc[c].seen # "NONE" THEN FinalState(proc[c].seen)
                            ELSE "RISK_REJECTED"
         /\ \A r \in Signal \ {s} : row'[r] = row[r]
         /\ Moves(c) /\ proc'[c].pc = "reconciling"
         /\ proc'[c].orphans = proc[c].orphans \ {s}
         /\ UNCHANGED status
  <1> DEFINE s == proc[c].orphan
             entry == proc[c].seen
             state == IF entry # "NONE" THEN FinalState(entry) ELSE "RISK_REJECTED"
             result == IF entry # "NONE" THEN entry ELSE "ABANDONED_AFTER_CRASH"
  <1>1. Typed /\ WorksOnSignal(c) /\ WorkIsKnown(c)
    BY DEF ApprovalInv
  <1>2. proc \in [Caller -> Process] /\ proc[c] \in Process
    BY <1>1 DEF Typed
  <1>3. row' = Finalized(s, state, result) /\ UNCHANGED status /\ proc[c].pc = "found"
    BY Zenon DEF Reconcile, At_
  <1>4. s \in proc[c].orphans /\ s \in Signal /\ entry \in Book!Outcome
    BY <1>1, <1>2, <1>3 DEF WorksOnSignal, Process
  <1>5. row[s].decision = "APPROVE"
    BY <1>1, <1>4 DEF WorkIsKnown
  <1>6. /\ state \in State
        /\ result \in Book!Outcome \cup {"KILL_SWITCH_ACTIVE", "ABANDONED_AFTER_CRASH"}
    BY <1>4, FinalStateIsFinal DEF FinalStates, State
  <1>7. proc' = [proc EXCEPT ![c] = [proc[c] EXCEPT !.pc = "reconciling", !.orphan = NoSignal,
                                       !.orphans = proc[c].orphans \ {s}, !.seen = "NONE"]]
    BY <1>2, Zenon DEF Reconcile
  <1>8. /\ [proc[c] EXCEPT !.pc = "reconciling", !.orphan = NoSignal,
                           !.orphans = proc[c].orphans \ {s}, !.seen = "NONE"] \in Process
        /\ proc'[c].pc = "reconciling" /\ proc'[c].orphans = proc[c].orphans \ {s}
    BY <1>2, <1>7 DEF Process, PC, Book!Outcome
  <1>9. Moves(c)
    BY <1>2, <1>7, <1>8 DEF Moves
  <1>10. /\ row'[s].state = state /\ row'[s].decision = row[s].decision
         /\ \A r \in Signal \ {s} : row'[r] = row[r]
    <2> HIDE DEF s, state, result
    <2> QED
      BY <1>1, <1>3, <1>4, <1>6, FinalizedRows
  <1> QED
    BY <1>3, <1>4, <1>5, <1>8, <1>9, <1>10

LEMMA FinishEffect ==
  ASSUME ApprovalInv, NEW c \in Caller, KillClaim(c) \/ Finalize(c)
  PROVE  LET s == proc[c].signal IN
         /\ s \in Signal /\ Holds(c, s)
         /\ row[s].decision = "APPROVE" /\ row'[s].decision = "APPROVE"
         /\ \/ proc[c].pc = "claimed" /\ row'[s].state = "RISK_REJECTED"
            \/ proc[c].pc = "submitted" /\ row'[s].state = FinalState(proc[c].seen)
         /\ \A r \in Signal \ {s} : row'[r] = row[r]
         /\ Moves(c) /\ proc'[c].pc \notin Working
         /\ UNCHANGED status
  <1> DEFINE s == proc[c].signal
  <1>1. Typed /\ WorksOnSignal(c) /\ WorkIsKnown(c)
    BY DEF ApprovalInv
  <1>2. proc[c].pc \in {"claimed", "submitted"} /\ Return(c) /\ UNCHANGED status
    BY DEF KillClaim, Finalize, At_
  <1>3. s \in Signal /\ proc[c].seen \in Book!Outcome
    BY <1>1, <1>2 DEF WorksOnSignal, Typed, Process
  <1>4. Holds(c, s) /\ row[s].decision = "APPROVE"
    BY <1>1, <1>2, <1>3 DEF WorkIsKnown, Holds
  <1>5. Moves(c) /\ proc'[c].pc \notin Working
    BY <1>1, <1>2, ReturnMoves DEF Working
  <1>6. FinalState(proc[c].seen) \in State /\ "RISK_REJECTED" \in State
    BY FinalStateIsFinal DEF FinalStates, State
  <1>7. CASE KillClaim(c)
    <2>1. row' = Finalized(s, "RISK_REJECTED", "KILL_SWITCH_ACTIVE") /\ proc[c].pc = "claimed"
      BY <1>7, Zenon DEF KillClaim, At_
    <2> HIDE DEF s
    <2>2. /\ row'[s].state = "RISK_REJECTED" /\ row'[s].decision = row[s].decision
          /\ \A r \in Signal \ {s} : row'[r] = row[r]
      BY <1>1, <1>3, <1>6, <2>1, FinalizedRows
    <2> QED
      BY <1>2, <1>3, <1>4, <1>5, <2>1, <2>2 DEF s
  <1>8. CASE Finalize(c)
    <2>1. row' = Finalized(s, FinalState(proc[c].seen), proc[c].seen) /\ proc[c].pc = "submitted"
      BY <1>8, Zenon DEF Finalize, At_
    <2> HIDE DEF s
    <2>2. /\ row'[s].state = FinalState(proc[c].seen) /\ row'[s].decision = row[s].decision
          /\ \A r \in Signal \ {s} : row'[r] = row[r]
      BY <1>1, <1>3, <1>6, <2>1, FinalizedRows
    <2> QED
      BY <1>2, <1>3, <1>4, <1>5, <2>1, <2>2 DEF s
  <1> QED
    BY <1>7, <1>8

\* The steps that leave a caller working, and finalize nothing.
LEMMA WorkEffect ==
  ASSUME ApprovalInv, NEW c \in Caller
  PROVE  /\ ListOrphans(c) =>
              /\ Moves(c) /\ proc'[c].pc = "reconciling" /\ UNCHANGED <<row, status>>
              /\ proc'[c].orphans = {s \in Signal : row[s].state = "HUMAN_APPROVED"}
         /\ FindEntry(c) =>
              /\ Moves(c) /\ proc'[c].pc = "found" /\ UNCHANGED <<row, status>>
              /\ proc[c].pc = "reconciling" /\ proc'[c].orphans = proc[c].orphans
              /\ proc'[c].orphan \in Signal /\ proc'[c].seen = status[proc'[c].orphan]
         /\ Recheck(c) =>
              /\ Moves(c) /\ proc'[c].pc = "cleared" /\ UNCHANGED <<row, status>>
              /\ proc[c].pc = "claimed" /\ proc'[c].signal = proc[c].signal
  <1>1. Typed /\ WorksOnSignal(c)
    BY DEF ApprovalInv
  <1>2. proc \in [Caller -> Process] /\ proc[c] \in Process
    BY <1>1 DEF Typed
  <1>3. {"reconciling", "found", "cleared"} \subseteq PC
    BY DEF PC
  <1>4. ASSUME ListOrphans(c)
        PROVE  /\ Moves(c) /\ proc'[c].pc = "reconciling" /\ UNCHANGED <<row, status>>
               /\ proc'[c].orphans = {s \in Signal : row[s].state = "HUMAN_APPROVED"}
    <2> DEFINE orphans == {s \in Signal : row[s].state = "HUMAN_APPROVED"}
    <2>1. proc' = [proc EXCEPT ![c] = [proc[c] EXCEPT !.pc = "reconciling",
                                                      !.orphans = orphans]]
      BY <1>2, <1>4, Zenon DEF ListOrphans
    <2>2. [proc[c] EXCEPT !.pc = "reconciling", !.orphans = orphans] \in Process
      BY <1>2, <1>3 DEF Process
    <2> QED
      BY <1>2, <1>4, <2>1, <2>2 DEF Moves, ListOrphans, store, Process
  <1>5. ASSUME FindEntry(c)
        PROVE  /\ Moves(c) /\ proc'[c].pc = "found" /\ UNCHANGED <<row, status>>
               /\ proc[c].pc = "reconciling" /\ proc'[c].orphans = proc[c].orphans
               /\ proc'[c].orphan \in Signal /\ proc'[c].seen = status[proc'[c].orphan]
    <2>1. PICK s \in proc[c].orphans :
            proc' = [proc EXCEPT ![c] = [proc[c] EXCEPT !.pc = "found", !.orphan = s,
                                                        !.seen = status[s]]]
      BY <1>2, <1>5, Zenon DEF FindEntry
    <2>2. s \in Signal /\ status[s] \in Book!Outcome
      BY <1>1, <1>2 DEF Typed, Process
    <2>3. [proc[c] EXCEPT !.pc = "found", !.orphan = s, !.seen = status[s]] \in Process
      BY <1>2, <1>3, <2>2 DEF Process
    <2>4. UNCHANGED <<row, status>> /\ proc[c].pc = "reconciling"
      BY <1>5 DEF FindEntry, store, At_
    <2> QED
      BY <1>2, <2>1, <2>2, <2>3, <2>4 DEF Moves, Process
  <1>6. ASSUME Recheck(c)
        PROVE  /\ Moves(c) /\ proc'[c].pc = "cleared" /\ UNCHANGED <<row, status>>
               /\ proc[c].pc = "claimed" /\ proc'[c].signal = proc[c].signal
    BY <1>1, <1>3, <1>6, GotoMoves DEF Recheck, store, At_
  <1> QED
    BY <1>4, <1>5, <1>6

LEMMA ClaimEffect ==
  ASSUME ApprovalInv, NEW c \in Caller, Claim(c), IsPending(proc[c].signal)
  PROVE  LET s == proc[c].signal IN
         /\ Moves(c) /\ proc'[c].pc = "claimed" /\ proc'[c].signal = s /\ s \in Signal
         /\ UNCHANGED status /\ row'[s].state = "HUMAN_APPROVED"
         /\ \A r \in Signal : RowAside(r) /\ (r # s => row'[r] = row[r])
  <1> DEFINE s == proc[c].signal
  <1>1. Typed /\ WorksOnSignal(c)
    BY DEF ApprovalInv
  <1>2. /\ Goto(c, "claimed") /\ row' = Decided({s}, "HUMAN_APPROVED", "APPROVE")
        /\ UNCHANGED status /\ proc[c].pc = "claiming"
    BY Zenon DEF Claim, At_
  <1>3. "claimed" \in PC /\ "HUMAN_APPROVED" \in State
        /\ <<"HUMAN_APPROVED", "APPROVE">> \in Verdict
    BY DEF PC, State, Verdict
  <1>4. s \in Signal
    BY <1>1, <1>2 DEF WorksOnSignal
  <1>5. Moves(c) /\ proc'[c].pc = "claimed" /\ proc'[c].signal = s
    BY <1>1, <1>2, <1>3, GotoMoves
  <1>6. IsPending(s)
    OBVIOUS
  <1> HIDE DEF s
  <1>7. row'[s].state = "HUMAN_APPROVED" /\ \A r \in Signal : r # s => row'[r] = row[r]
    <2>1. \A r \in Signal :
            \/ row'[r] = row[r] /\ ~(r \in {s} /\ IsPending(r))
            \/ /\ r \in {s} /\ IsPending(r)
               /\ row'[r].state = "HUMAN_APPROVED" /\ row'[r].decision = "APPROVE"
      <3> DEFINE one == {s}
      <3>1. row' = Decided(one, "HUMAN_APPROVED", "APPROVE")
        BY <1>2
      <3>2. "APPROVE" \in {"APPROVE", "REJECT", "EXPIRED"}
        OBVIOUS
      <3> HIDE DEF one
      <3>3. \A r \in Signal :
              \/ row'[r] = row[r] /\ ~(r \in one /\ IsPending(r))
              \/ /\ r \in one /\ IsPending(r)
                 /\ row'[r].state = "HUMAN_APPROVED" /\ row'[r].decision = "APPROVE"
        BY <1>1, <1>3, <3>1, <3>2, DecidedRows
      <3> QED
        BY <3>3 DEF one
    <2> QED
      BY <1>4, <1>6, <2>1
  <1>8. \A r \in Signal : RowAside(r)
    BY <1>1, <1>2, <1>3, AsideDecides
  <1> QED
    BY <1>2, <1>4, <1>5, <1>7, <1>8 DEF s

LEMMA SubmitEffect ==
  ASSUME ApprovalInv, NEW c \in Caller, Submit(c)
  PROVE  LET s == proc[c].signal IN
         /\ Moves(c) /\ proc'[c].pc = "submitted" /\ proc'[c].signal = s
         /\ proc[c].pc = "cleared" /\ s \in Signal /\ UNCHANGED row
         /\ proc'[c].seen = status'[s]
         /\ \A r \in Signal : r # s \/ status[r] # "NONE" => status'[r] = status[r]
  <1> DEFINE s == proc[c].signal
  <1>1. Typed /\ WorksOnSignal(c)
    BY DEF ApprovalInv
  <1>2. proc \in [Caller -> Process] /\ proc[c] \in Process
    BY <1>1 DEF Typed
  <1>3. proc[c].pc = "cleared" /\ UNCHANGED row
    BY DEF Submit, At_
  <1>4. s \in Signal
    BY <1>1, <1>3 DEF WorksOnSignal
  <1>5. PICK outcome \in Book!Outcome :
          /\ SubmitSignal(c, s, outcome)
          /\ proc' = [proc EXCEPT ![c] = [proc[c] EXCEPT !.pc = "submitted", !.seen = outcome]]
    BY <1>2, Zenon DEF Submit
  <1>6. /\ [proc[c] EXCEPT !.pc = "submitted", !.seen = outcome] \in Process
        /\ proc'[c].pc = "submitted" /\ proc'[c].signal = s /\ proc'[c].seen = outcome
    BY <1>2, <1>5 DEF Process, PC
  <1>7. Moves(c)
    BY <1>2, <1>5, <1>6 DEF Moves
  <1>8. /\ \A r \in Signal : r # s \/ status[r] # "NONE" => status'[r] = status[r]
        /\ status'[s] = outcome
    <2> HIDE DEF s
    <2> QED
      BY <1>1, <1>4, <1>5, SubmittedStatus
  <1> QED
    BY <1>3, <1>4, <1>6, <1>7, <1>8

\* process_bar and --no-human-approval are the steps beside the claims that
\* reach the book: they move what has an order, or what no human was asked.
LEMMA AsideStatus ==
  ASSUME ApprovalInv, NEW c \in Caller, Aside(c)
  PROVE  \A s \in Signal :
           \/ status'[s] = status[s]
           \/ Ordered(s) /\ Ordered(s)'
           \/ row[s].state = "NONE" /\ row'[s].state = "NONE" /\ status[s] = "NONE"
  <1>1. Typed /\ WorksOnSignal(c) /\ WorkIsKnown(c)
    BY DEF ApprovalInv
  <1>2. ASSUME NEW t \in 1 .. MaxBar, NEW is_fresh \in BOOLEAN,
               NEW s \in Signal \cup {NoSignal}, ProcessBar(c, t, is_fresh, s)
        PROVE  \A r \in Signal : status'[r] = status[r] \/ (Ordered(r) /\ Ordered(r)')
    <2>1. Trade(is_fresh, proc[c].allow)
      BY <1>2, Zenon DEF ProcessBar
    <2>2. \A r \in Signal :
            \/ status'[r] = status[r]
            \/ /\ status[r] \in {"APPROVED_PENDING", "APPROVED_FILLED_OPEN"}
               /\ status'[r] \in {"APPROVED_FILLED_OPEN", "APPROVED_FILLED_CLOSED"}
      BY <1>1, <2>1, TradedStatus
    <2> QED
      BY <2>2 DEF Ordered, FinalState
  <1>3. CASE SubmitAuto(c)
    <2> DEFINE s == proc[c].signal
    <2>1. /\ proc[c].pc = "handling" /\ UNCHANGED row
          /\ \E outcome \in Book!Outcome : SubmitSignal(c, s, outcome)
      BY <1>3, Zenon DEF SubmitAuto, At_
    <2>2. s \in Signal /\ row[s].state = "NONE" /\ status[s] = "NONE"
      BY <1>1, <2>1 DEF WorksOnSignal, WorkIsKnown, Carries
    <2> HIDE DEF s
    <2> QED
      BY <1>1, <2>1, <2>2, SubmittedStatus
  <1>4. CASE ~SubmitAuto(c) /\ ~(\E t \in 1 .. MaxBar, is_fresh \in BOOLEAN,
                                   s \in Signal \cup {NoSignal} : ProcessBar(c, t, is_fresh, s))
    <2>1. UNCHANGED status
      BY <1>4, Zenon
      DEF Aside, StartSession, Restore, Built, Sweep, NoBar, GuardFill, SkipBar, Handle,
          CheckKill, Veto, SavePending, Answer, Refuse, Check, Reject, Claim, Crash,
          StartRequest, store
    <2> QED
      BY <2>1
  <1> QED
    BY <1>2, <1>3, <1>4

LEMMA NextCases ==
  ASSUME [Next]_vars
  PROVE  \/ \E c \in Caller :
              \/ Aside(c) \/ ListOrphans(c) \/ FindEntry(c) \/ Recheck(c)
              \/ Claim(c) /\ IsPending(proc[c].signal)
              \/ Submit(c) \/ Reconcile(c) \/ KillClaim(c) \/ Finalize(c)
         \/ UNCHANGED <<row, status, proc>>
  <1>1. ASSUME NEW c \in Caller, Step(c)
        PROVE  \/ Aside(c) \/ ListOrphans(c) \/ FindEntry(c) \/ Recheck(c)
               \/ Claim(c) /\ IsPending(proc[c].signal)
               \/ Submit(c) \/ Reconcile(c) \/ KillClaim(c) \/ Finalize(c)
    <2>1. CASE Build(c) \/ Poll(c) \/ Handle(c)
      BY <2>1 DEF Build, Poll, Aside
    <2>2. CASE Decide(c)
      BY <2>2 DEF Decide, Aside
    <2> QED
      BY <1>1, <2>1, <2>2 DEF Step
  <1>2. ASSUME NEW c \in Caller,
               \/ StartSession(c) \/ Crash(c)
               \/ \E s \in Signal, choice \in {"APPROVE", "REJECT"} : StartRequest(c, s, choice)
        PROVE  Aside(c)
    BY <1>2 DEF Aside
  <1>3. CASE \/ \E active \in BOOLEAN : SetKillSwitch(active)
             \/ \E s \in Signal : TimeOut(s)
             \/ UNCHANGED vars
    BY <1>3 DEF SetKillSwitch, TimeOut, vars, store
  <1> QED
    BY <1>1, <1>2, <1>3 DEF Next

LEMMA NextRows ==
  ASSUME ApprovalInv, [Next]_vars
  PROVE  \A s \in Signal : RowAside(s) \/ RowFinal(s)
  <1>1. CASE UNCHANGED <<row, status, proc>>
    BY <1>1 DEF RowAside
  <1>2. ASSUME NEW c \in Caller, Aside(c)
        PROVE  \A s \in Signal : RowAside(s)
    BY <1>2, AsideRows
  <1>3. ASSUME NEW c \in Caller,
               \/ ListOrphans(c) \/ FindEntry(c) \/ Recheck(c) \/ Submit(c)
               \/ Claim(c) /\ IsPending(proc[c].signal)
        PROVE  \A s \in Signal : RowAside(s)
    <2>1. CASE Claim(c) /\ IsPending(proc[c].signal)
      BY <2>1, ClaimEffect
    <2>2. CASE ListOrphans(c) \/ FindEntry(c) \/ Recheck(c) \/ Submit(c)
      BY <2>2, WorkEffect, SubmitEffect DEF RowAside
    <2> QED
      BY <1>3, <2>1, <2>2
  <1>4. ASSUME NEW c \in Caller, Reconcile(c)
        PROVE  \A s \in Signal : RowAside(s) \/ RowFinal(s)
    BY <1>4, ReconcileEffect, FinalStateIsFinal DEF RowAside, RowFinal, FinalStates
  <1>5. ASSUME NEW c \in Caller, KillClaim(c) \/ Finalize(c)
        PROVE  \A s \in Signal : RowAside(s) \/ RowFinal(s)
    BY <1>5, FinishEffect, FinalStateIsFinal DEF RowAside, RowFinal, FinalStates
  <1> QED
    BY <1>1, <1>2, <1>3, <1>4, <1>5, NextCases

\* A decision is taken once: no later call, sweep, restart or reconciliation
\* changes it or asks the human again.
THEOREM DecisionsAreFinal == Spec => DecisionIsFinal
  <1>1. ASSUME ApprovalInv, [Next]_vars, NEW s \in Signal, row[s].decision # "NONE"
        PROVE  /\ row'[s].decision = row[s].decision
               /\ row'[s].state # "PENDING_HUMAN_APPROVAL"
    <2>1. row[s].state \notin {"NONE", "PENDING_HUMAN_APPROVAL"}
      BY <1>1 DEF ApprovalInv, RowsAreConsistent
    <2>2. RowAside(s) \/ RowFinal(s)
      BY <1>1, NextRows
    <2> QED
      BY <2>1, <2>2 DEF RowAside, RowFinal, FinalStates, IsPending
  <1>2. ApprovalInv /\ [Next]_vars =>
          [\A s \in Signal :
             row[s].decision # "NONE" =>
               /\ row'[s].decision = row[s].decision
               /\ row'[s].state # "PENDING_HUMAN_APPROVAL"]_vars
    BY <1>1
  <1> QED
    BY <1>2, ApprovalInvariant, PTL DEF Spec, DecisionIsFinal

-----------------------------------------------------------------------------
(* The audit label, with any number of callers *)

LEMMA OrderedStays ==
  ASSUME ApprovalInv, [Next]_vars
  PROVE  \A s \in Signal : Ordered(s) => Ordered(s)'
  <1>1. \A s \in Signal : Ordered(s) => status[s] # "NONE"
    BY DEF Ordered, FinalState
  <1>2. CASE UNCHANGED <<row, status, proc>>
    BY <1>2 DEF Ordered
  <1>3. ASSUME NEW c \in Caller, Aside(c)
        PROVE  \A s \in Signal : Ordered(s) => Ordered(s)'
    BY <1>1, <1>3, AsideStatus DEF Ordered
  <1>4. ASSUME NEW c \in Caller,
               \/ ListOrphans(c) \/ FindEntry(c) \/ Recheck(c) \/ Submit(c)
               \/ Claim(c) /\ IsPending(proc[c].signal)
               \/ Reconcile(c) \/ KillClaim(c) \/ Finalize(c)
        PROVE  \A s \in Signal : Ordered(s) => Ordered(s)'
    <2>1. CASE Submit(c)
      BY <1>1, <2>1, SubmitEffect DEF Ordered
    <2>2. CASE ~Submit(c)
      <3>1. UNCHANGED status
        BY <1>4, <2>2, WorkEffect, ClaimEffect, ReconcileEffect, FinishEffect
      <3> QED
        BY <3>1 DEF Ordered
    <2> QED
      BY <2>1, <2>2
  <1> QED
    BY <1>2, <1>3, <1>4, NextCases

LEMMA NextKeepsExecutedInv ==
  ASSUME ApprovalInv, ExecutedInv, [Next]_vars
  PROVE  ExecutedInv'
  <1>1. \A s \in Signal : Ordered(s) => Ordered(s)'
    BY OrderedStays
  <1>2. \A d \in Caller :
          /\ proc[d].pc = "submitted" => proc[d].signal \in Signal
          /\ proc[d].pc = "found" => proc[d].orphan \in Signal
    BY DEF ApprovalInv, Typed, Process, WorksOnSignal
  <1>3. ASSUME NEW d \in Caller, UNCHANGED proc[d]
        PROVE  SeenIsOrdered(d)'
    <2>1. SeenIsOrdered(d)
      BY DEF ExecutedInv
    <2> QED
      BY <1>1, <1>2, <1>3, <2>1 DEF SeenIsOrdered, Ordered
  <1>4. ASSUME NEW s \in Signal, row'[s].state = "EXECUTED" => row[s].state = "EXECUTED"
        PROVE  row'[s].state = "EXECUTED" => Ordered(s)'
    BY <1>1, <1>4 DEF ExecutedInv, ExecutedHasOrder
  <1>5. CASE UNCHANGED <<row, status, proc>>
    BY <1>3, <1>4, <1>5 DEF ExecutedInv, ExecutedHasOrder
  <1>6. ASSUME NEW c \in Caller, Moves(c), SeenIsOrdered(c)',
               \A s \in Signal : row'[s].state = "EXECUTED" => row[s].state = "EXECUTED" \/ Ordered(s)
        PROVE  ExecutedInv'
    <2>1. \A d \in Caller \ {c} : SeenIsOrdered(d)'
      BY <1>3, <1>6 DEF Moves
    <2>2. ExecutedHasOrder'
      BY <1>1, <1>4, <1>6 DEF ExecutedHasOrder
    <2> QED
      BY <1>6, <2>1, <2>2 DEF ExecutedInv
  <1>7. ASSUME NEW s \in Signal, RowAside(s)
        PROVE  row'[s].state = "EXECUTED" => row[s].state = "EXECUTED"
    BY <1>7 DEF RowAside, Verdict
  <1>8. ASSUME NEW c \in Caller, Aside(c)
        PROVE  ExecutedInv'
    <2>1. Moves(c) /\ proc'[c].pc \notin Working
      BY <1>8, AsideMoves DEF ApprovalInv
    <2>2. SeenIsOrdered(c)'
      BY <2>1 DEF SeenIsOrdered, Working
    <2> QED
      BY <1>6, <1>7, <1>8, <2>1, <2>2, AsideRows
  <1>9. ASSUME NEW c \in Caller,
               \/ ListOrphans(c) \/ FindEntry(c) \/ Recheck(c)
               \/ Claim(c) /\ IsPending(proc[c].signal)
        PROVE  ExecutedInv'
    <2>1. Moves(c) /\ UNCHANGED status /\ \A s \in Signal : RowAside(s)
      BY <1>9, WorkEffect, ClaimEffect DEF RowAside
    <2>2. \/ proc'[c].pc \notin {"submitted", "found"}
          \/ /\ proc'[c].pc = "found" /\ proc'[c].orphan \in Signal
             /\ proc'[c].seen = status[proc'[c].orphan]
      BY <1>9, WorkEffect, ClaimEffect
    <2>3. SeenIsOrdered(c)'
      BY <2>1, <2>2 DEF SeenIsOrdered, Ordered
    <2> QED
      BY <1>6, <1>7, <2>1, <2>3
  <1>10. ASSUME NEW c \in Caller, Submit(c)
         PROVE  ExecutedInv'
    <2>1. SeenIsOrdered(c)'
      BY <1>10, SubmitEffect DEF SeenIsOrdered, Ordered
    <2> QED
      BY <1>6, <1>10, <2>1, SubmitEffect
  <1>11. ASSUME NEW c \in Caller, Reconcile(c)
         PROVE  ExecutedInv'
    <2>1. SeenIsOrdered(c) /\ FinalState("NONE") # "EXECUTED"
      BY DEF ExecutedInv, FinalState
    <2>2. SeenIsOrdered(c)'
      BY <1>11, ReconcileEffect DEF SeenIsOrdered
    <2>3. \A s \in Signal : row'[s].state = "EXECUTED" => row[s].state = "EXECUTED" \/ Ordered(s)
      BY <1>11, <2>1, ReconcileEffect DEF SeenIsOrdered
    <2> QED
      BY <1>6, <1>11, <2>2, <2>3, ReconcileEffect
  <1>12. ASSUME NEW c \in Caller, KillClaim(c) \/ Finalize(c)
         PROVE  ExecutedInv'
    <2>1. SeenIsOrdered(c)
      BY DEF ExecutedInv
    <2>2. SeenIsOrdered(c)'
      BY <1>12, FinishEffect DEF SeenIsOrdered, Working
    <2>3. \A s \in Signal : row'[s].state = "EXECUTED" => row[s].state = "EXECUTED" \/ Ordered(s)
      BY <1>12, <2>1, FinishEffect DEF SeenIsOrdered
    <2> QED
      BY <1>6, <1>12, <2>2, <2>3, FinishEffect
  <1> QED
    BY <1>5, <1>8, <1>9, <1>10, <1>11, <1>12, NextCases

LEMMA InitExecutedInv == Init => ExecutedInv
  <1> SUFFICES ASSUME Init PROVE ExecutedInv
    OBVIOUS
  <1>1. \A c \in Caller : proc[c].pc = "down"
    BY AtIsIdle DEF Init, PC
  <1>2. \A c \in Caller : SeenIsOrdered(c)
    BY <1>1 DEF SeenIsOrdered
  <1>3. ExecutedHasOrder
    BY DEF Init, NoRow, ExecutedHasOrder
  <1> QED
    BY <1>2, <1>3 DEF ExecutedInv

\* A row that says EXECUTED has its order in the paper book, whoever raced the
\* claim, its reconciliation and its finalization.  The other half of the
\* audit label is only kept when one caller runs (below).
THEOREM ExecutedIsOrdered == Spec => []ExecutedHasOrder
  <1>1. ExecutedInv => ExecutedHasOrder
    BY DEF ExecutedInv
  <1> QED
    BY <1>1, InitExecutedInv, NextKeepsExecutedInv, ApprovalInvariant, PTL DEF Spec

-----------------------------------------------------------------------------
(* The audit label, with one caller *)

OneCaller == \A c, d \in Caller : c = d

LEMMA NextKeepsOneCallerInv ==
  ASSUME OneCaller, ApprovalInv, OneCallerInv, [Next]_vars
  PROVE  OneCallerInv'
  <1>1. CASE UNCHANGED <<row, status, proc>>
    BY <1>1 DEF OneCallerInv, RejectedHasNoOrder, OwnWorkOnly, Holds, Ordered
  <1>2. ASSUME NEW c \in Caller, OwnWorkOnly(c)', RejectedHasNoOrder'
        PROVE  OneCallerInv'
    BY <1>2 DEF OneCaller, OneCallerInv
  <1>3. ASSUME NEW c \in Caller
        PROVE  OwnWorkOnly(c) /\ WorksOnSignal(c)
    BY DEF OneCallerInv, ApprovalInv
  <1>4. ASSUME NEW c \in Caller, proc'[c].pc \notin Working
        PROVE  OwnWorkOnly(c)'
    BY <1>4 DEF OwnWorkOnly, Holds, Working
  <1>5. ASSUME NEW s \in Signal, RowAside(s), ~Ordered(s) => ~Ordered(s)'
        PROVE  row'[s].state = "RISK_REJECTED" => ~Ordered(s)'
    BY <1>5 DEF OneCallerInv, RejectedHasNoOrder, RowAside, Verdict
  <1>6. ASSUME NEW c \in Caller, Aside(c)
        PROVE  OneCallerInv'
    <2>1. OwnWorkOnly(c)'
      BY <1>4, <1>6, AsideMoves DEF ApprovalInv
    <2>2. ASSUME NEW s \in Signal
          PROVE  row'[s].state = "RISK_REJECTED" => ~Ordered(s)'
      <3>1. \/ status'[s] = status[s]
            \/ Ordered(s) /\ Ordered(s)'
            \/ row[s].state = "NONE" /\ row'[s].state = "NONE"
        BY <1>6, AsideStatus
      <3>2. CASE status'[s] = status[s] \/ (Ordered(s) /\ Ordered(s)')
        BY <1>5, <1>6, <3>2, AsideRows DEF Ordered
      <3> QED
        BY <3>1, <3>2
    <2> QED
      BY <1>2, <2>1, <2>2 DEF RejectedHasNoOrder
  <1>7. ASSUME NEW c \in Caller, UNCHANGED status, \A s \in Signal : RowAside(s)
        PROVE  RejectedHasNoOrder'
    BY <1>5, <1>7 DEF RejectedHasNoOrder, Ordered
  <1>8. ASSUME NEW c \in Caller, ListOrphans(c) \/ FindEntry(c) \/ Recheck(c)
        PROVE  OneCallerInv'
    <2>1. OwnWorkOnly(c)'
      <3>1. CASE ListOrphans(c)
        BY <3>1, WorkEffect DEF OwnWorkOnly, Holds
      <3>2. CASE FindEntry(c)
        BY <1>3, <3>2, WorkEffect DEF OwnWorkOnly, Holds
      <3>3. CASE Recheck(c)
        BY <1>3, <3>3, WorkEffect DEF OwnWorkOnly, Holds
      <3> QED
        BY <1>8, <3>1, <3>2, <3>3
    <2>2. UNCHANGED <<row, status>>
      BY <1>8, WorkEffect
    <2> QED
      BY <1>2, <1>7, <2>1, <2>2 DEF RowAside
  <1>9. ASSUME NEW c \in Caller, Claim(c), IsPending(proc[c].signal)
        PROVE  OneCallerInv'
    <2>1. \A s \in Signal : IsPending(s) => status[s] = "NONE"
      BY DEF ApprovalInv, IsPending, RowsAreConsistent, OrderIsApproved
    <2>2. OwnWorkOnly(c)'
      BY <1>9, <2>1, ClaimEffect DEF OwnWorkOnly, Holds
    <2> QED
      BY <1>2, <1>7, <1>9, <2>2, ClaimEffect
  <1>10. ASSUME NEW c \in Caller, Submit(c)
         PROVE  OneCallerInv'
    <2> DEFINE s == proc[c].signal
    <2>1. /\ s \in Signal /\ row'[s].state = "HUMAN_APPROVED" /\ UNCHANGED row
          /\ proc'[c].pc = "submitted" /\ proc'[c].signal = s
          /\ proc'[c].seen = status'[s]
      BY <1>3, <1>10, SubmitEffect DEF OwnWorkOnly, Holds
    <2>2. OwnWorkOnly(c)'
      BY <2>1 DEF OwnWorkOnly, Holds
    <2>3. \A r \in Signal : r # s => status'[r] = status[r]
      BY <1>10, SubmitEffect
    <2>4. RejectedHasNoOrder'
      BY <2>1, <2>3 DEF OneCallerInv, RejectedHasNoOrder, Ordered
    <2> QED
      BY <1>2, <2>2, <2>4
  <1>11. ASSUME NEW c \in Caller, Reconcile(c)
         PROVE  OneCallerInv'
    <2>1. proc[c].seen = status[proc[c].orphan]
      BY <1>3, <1>11, ReconcileEffect DEF OwnWorkOnly
    <2>2. OwnWorkOnly(c)'
      BY <1>3, <1>11, ReconcileEffect DEF OwnWorkOnly, Holds
    <2>3. RejectedHasNoOrder'
      <3>1. FinalState("NONE") # "EXECUTED" /\ "RISK_REJECTED" # "EXECUTED"
        BY DEF FinalState
      <3> QED
        BY <1>11, <2>1, <3>1, ReconcileEffect DEF OneCallerInv, RejectedHasNoOrder, Ordered
    <2> QED
      BY <1>2, <2>2, <2>3
  <1>12. ASSUME NEW c \in Caller, KillClaim(c) \/ Finalize(c)
         PROVE  OneCallerInv'
    <2> DEFINE s == proc[c].signal
    <2>1. OwnWorkOnly(c)'
      BY <1>4, <1>12, FinishEffect
    <2>2. /\ s \in Signal /\ UNCHANGED status
          /\ \A r \in Signal \ {s} : row'[r] = row[r]
      BY <1>12, FinishEffect
    <2>3. row'[s].state = "RISK_REJECTED" => ~Ordered(s)
      <3>1. CASE proc[c].pc = "claimed"
        <4>1. status[s] = "NONE"
          BY <1>3, <1>12, <3>1, FinishEffect DEF OwnWorkOnly
        <4> QED
          BY <4>1 DEF Ordered, FinalState
      <3>2. CASE proc[c].pc = "submitted" /\ row'[s].state = FinalState(proc[c].seen)
        BY <1>3, <3>2 DEF OwnWorkOnly, Ordered
      <3> QED
        BY <1>12, <3>1, <3>2, FinishEffect
    <2>4. RejectedHasNoOrder'
      BY <2>2, <2>3 DEF OneCallerInv, RejectedHasNoOrder, Ordered
    <2> QED
      BY <1>2, <2>1, <2>4
  <1> QED
    BY <1>1, <1>6, <1>8, <1>9, <1>10, <1>11, <1>12, NextCases

LEMMA InitOneCallerInv == Init => OneCallerInv
  <1> SUFFICES ASSUME Init PROVE OneCallerInv
    OBVIOUS
  <1>1. \A c \in Caller : proc[c].pc = "down"
    BY AtIsIdle DEF Init, PC
  <1>2. \A c \in Caller : OwnWorkOnly(c)
    BY <1>1 DEF OwnWorkOnly, Holds
  <1>3. RejectedHasNoOrder
    BY DEF Init, NoRow, RejectedHasNoOrder
  <1> QED
    BY <1>2, <1>3 DEF OneCallerInv

\* When one session runs, and no dashboard or MCP request beside it, the audit
\* label of a signal agrees with the paper book through every crash and
\* reconciliation.  A second caller can reconcile a claim that is not orphaned.
THEOREM AuditLabelOfOneCaller ==
  ASSUME OneCaller
  PROVE  Spec => []AuditLabelAgrees
  <1>1. ApprovalInv /\ ExecutedInv /\ OneCallerInv => AuditLabelAgrees
    <2>1. \A s \in Signal : FinalState(status[s]) \in FinalStates
      BY FinalStateIsFinal
    <2> QED
      BY <2>1
      DEF ExecutedInv, ExecutedHasOrder, OneCallerInv, RejectedHasNoOrder, AuditLabelAgrees,
          Ordered, FinalStates
  <1>2. ApprovalInv /\ OneCallerInv /\ [Next]_vars => OneCallerInv'
    BY NextKeepsOneCallerInv
  <1>3. Spec => []ExecutedInv
    BY InitExecutedInv, NextKeepsExecutedInv, ApprovalInvariant, PTL DEF Spec
  <1>4. Spec => []OneCallerInv
    BY <1>2, InitOneCallerInv, ApprovalInvariant, PTL DEF Spec
  <1> QED
    BY <1>1, <1>3, <1>4, ApprovalInvariant, PTL
===============================================================================
