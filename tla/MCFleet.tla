------------------------------- MODULE MCFleet -------------------------------
(* Fleet on two workers. *)
EXTENDS Fleet

CONSTANTS x, y
=============================================================================
