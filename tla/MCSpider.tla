------------------------------- MODULE MCSpider -------------------------------
(* Instances of Spider for TLC: the values of its CONSTANTS are in the     *)
(* .cfg files; the symmetry sets and the bound on a run with two shares    *)
(* are here.                                                               *)
EXTENDS Spider, TLC

Symmetry == Permutations(Spiders) \cup Permutations(Shares) \cup Permutations(Listing)

Unused(s) == tid[s] = 0 /\ seen[s] = <<>>
Scanned == UNION {{seen[s][i] : i \in 1..Len(seen[s])} : s \in Shares}
(* Either one share that changes, or two shares with the same content and  *)
(* less time.                                                              *)
OneChangesOrTwoStay ==
  \/ Cardinality({s \in Shares : ~Unused(s)}) <= 1
  \/ Cardinality(Scanned) <= 1 /\ ticks <= 1
===============================================================================
