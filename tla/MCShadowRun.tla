----------------------------- MODULE MCShadowRun -----------------------------
EXTENDS ShadowRun, TLC

Symmetry == Permutations(Process) \cup Permutations(Symbol) \cup Permutations(Price)
=============================================================================
