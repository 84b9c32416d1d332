--------------------------------- MODULE Table ---------------------------------
(***************************************************************************)
(* What scanners/libuguu/cuckoo.h promises of the hash table, seen at the  *)
(* returns of its functions: a set of keys (each stands for a key and the  *)
(* data inserted with it).  A call that runs out of memory may leave the   *)
(* new key in the table and another one out of it.                         *)
(***************************************************************************)
CONSTANTS Keys, MayFail

VARIABLES
  content,
  short      \* the last call ran out of memory

Init == content = {} /\ short = FALSE

Add(k) == k \notin content /\ content' = content \cup {k} /\ UNCHANGED short
Remove(k) == k \in content /\ content' = content \ {k} /\ short' \in {FALSE, MayFail}
Call == UNCHANGED content /\ short' = FALSE
Fail == MayFail /\ UNCHANGED content /\ short' = TRUE
Exchange(k) ==
  /\ MayFail
  /\ k \notin content
  /\ \E lost \in content : content' = (content \cup {k}) \ {lost}
  /\ short' = TRUE

Next == Call \/ Fail \/ \E k \in Keys : Add(k) \/ Remove(k) \/ Exchange(k)

TableSpec == Init /\ [][Next]_<<content, short>>
=============================================================================
