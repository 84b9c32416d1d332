------------------------------- MODULE MCCuckoo -------------------------------
(* Hash functions for TLC: on two elements of three or four they collide,  *)
(* on all, or on none.  Keys are numbers here.                             *)
EXTENDS Cuckoo

Pair(f(_), g(_)) == [x \in {1, 2} \X Keys |-> IF x[1] = 1 THEN f(x[2]) ELSE g(x[2])]
Itself(k) == k
Zero(k) == 0
Halved(k) == k \div 2
Twice(k) == 2 * k
Parity(k) == k % 2

MCHashes == {Pair(Itself, Halved), Pair(Zero, Zero), Pair(Halved, Twice), Pair(Zero, Parity)}
=============================================================================
