----------------------------- MODULE MCApproval -----------------------------
(* Small instances of Approval for TLC. *)
EXTENDS Approval

CONSTANTS s1, s2, r1, r2, a, b

\* The bars that generate the two signals.
MCBarOf == [s \in Signal |-> IF s = a THEN 1 ELSE 2]
=============================================================================
