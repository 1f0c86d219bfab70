---------------------------- MODULE MCScheduler ----------------------------
(* Small instances of Scheduler for TLC. *)
EXTENDS Scheduler

CONSTANTS p1, p2

\* A slot for the first half of the day that runs once, and one that may run
\* at any time of the day, every other tick of the clock.
MCSlots == <<[after |-> 0, before |-> 2, every |-> 0],
             [after |-> 0, before |-> 4, every |-> 2]>>
=============================================================================
