------------------------------ MODULE MCLiveData ------------------------------
(* LiveData on three buckets of two units of time, with bad ticks. *)
EXTENDS LiveData, TLC

CONSTANTS r1, r2

MCPrice(t) == IF t % 2 = 0 THEN 100 ELSE 110

Odd(price, volume, time) == [price |-> price, volume |-> volume, time |-> time]

\* Two snapshots of another day, a timestamp far ahead, a price of zero and
\* one far off.
MCOddTick == {Odd(100, 1, 2), Odd(100, 1, 4), Odd(100, 1, 99), Odd(0, 1, 12), Odd(200, 1, 13)}

\* What the theorems about bars suppose is so here.
ASSUME MCOddTicks ==
  /\ PricesAreSteady /\ OddTicksAreForeign /\ NoTwoAhead
  /\ OddPricesAreFar /\ OddTicksAreUnits

Symmetry == Permutations(Receiver)
=============================================================================
