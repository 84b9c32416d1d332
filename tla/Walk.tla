---------------------------------- MODULE Walk ----------------------------------
(***************************************************************************)
(* The walk of the 'dir tree' engine over a share (dt_walk and the         *)
(* functions it calls in scanners/libuguu/dt.c), as the sequence of calls  *)
(* it makes to a walker, and what dt.h expects of that walker: readdir     *)
(* tells what is in the directory the tree is in, a refused go(CHILD)      *)
(* changes nothing, go(PARENT) goes up.                                    *)
(*                                                                         *)
(* The walks of dt_full and dt_reverse know no saved tree.  That of        *)
(* dt_diff is the same, except that directories that are not in the saved  *)
(* tree are walked first, each by a nested dt_walk (dt_diff_add_tree).     *)
(***************************************************************************)
EXTENDS ShareTree

VARIABLES
  saved,    \* the directories of the tree to compare with; {} in dt_full and dt_reverse
  pc,       \* what dt_walk does next: "enter", "try" (a child or sibling), or it has ended
  path,     \* the directory wc->d
  left,     \* for the root, ..., path: the subdirectories that were not tried yet
  entered,  \* the directories that were read
  refused   \* the directories whose go(CHILD) failed

vars == <<saved, pc, path, left, entered, refused>>

Init ==
  /\ saved \in {{}, Saved}
  /\ pc = "enter"
  /\ path = <<>>
  /\ left = <<>>
  /\ entered = {}
  /\ refused = {}

-----------------------------------------------------------------------------
Rest == left[Len(left)]
RestWithout(n) == [left EXCEPT ![Len(left)] = @ \ {n}]

(* dt_readdir: the walker has told the names of the subdirectories.        *)
Enter(kids) ==
  /\ pc = "enter"
  /\ pc' = "try"
  /\ left' = Append(left, kids)
  /\ entered' = entered \cup {path}
  /\ UNCHANGED <<saved, path, refused>>

(* Directories that are not in the saved tree come before the others.      *)
Try(n) ==
  /\ pc = "try"
  /\ n \in Rest
  /\ Append(path, n) \in saved => \A m \in Rest : Append(path, m) \in saved

\* the parent forgets which of its subdirectories were tried
DescendForgetting(n) ==
  /\ Try(n)
  /\ pc' = "enter"
  /\ path' = Append(path, n)
  /\ UNCHANGED <<saved, left, entered, refused>>

(* go(CHILD) succeeds: dt_go_child, dt_go_sibling_or_parent and their      *)
(* counterparts in dt_diff.                                                *)
Descend(n) ==
  /\ Try(n)
  /\ pc' = "enter"
  /\ path' = Append(path, n)
  /\ left' = RestWithout(n)
  /\ UNCHANGED <<saved, entered, refused>>

(* go(CHILD) fails: the next sibling is tried.                             *)
Refuse(n) ==
  /\ Try(n)
  /\ left' = RestWithout(n)
  /\ refused' = refused \cup {Append(path, n)}
  /\ UNCHANGED <<saved, pc, path, entered>>

(* Nothing is left in a directory: go(PARENT) succeeds.                    *)
Leaving == pc = "try" /\ Rest = {} /\ path # <<>>
Ascend ==
  /\ Leaving
  /\ path' = Parent(path)
  /\ left' = SubSeq(left, 1, Len(left) - 1)
  /\ UNCHANGED <<saved, pc, entered, refused>>

(* A failing go(PARENT) ends the program, but dt_diff_add_tree ignores the *)
(* result of its own.                                                      *)
AddedTree(p) == p # <<>> /\ p \notin saved /\ Parent(p) \in saved
AscendFails == Leaving /\ ~AddedTree(path) /\ pc' = "exit" /\ UNCHANGED <<saved, path, left, entered, refused>>

(* The walker ends the program, e.g. exit(ESTAT_NOCONNECT).                *)
Exit == pc = "try" /\ pc' = "exit" /\ UNCHANGED <<saved, path, left, entered, refused>>

Finish == pc = "try" /\ Rest = {} /\ path = <<>> /\ pc' = "done" /\ UNCHANGED <<saved, path, left, entered, refused>>

-----------------------------------------------------------------------------
(* A walker as dt.h wants it.  A directory beyond the limit is not read;   *)
(* one that is too big, or the failure of an allocation, loses entries.    *)
Read ==
  \/ path \notin Beyond \cup Big /\ Enter(Listed(path, Kids(path)))
  \/ path \in Beyond /\ Enter({})
  \/ path \in Big /\ \E kids \in SUBSET Kids(path) : Enter(Listed(path, kids))

Ended == pc \in {"done", "exit"}
Next ==
  \/ Read
  \/ \E n \in Names : (Append(path, n) \in Share /\ Descend(n)) \/ Refuse(n)
  \/ Ascend \/ AscendFails
  \/ Exit \/ Finish

Spec == Init /\ [][Next]_vars
FairSpec == Spec /\ WF_vars(Next)

-----------------------------------------------------------------------------
(* TYPE: there is a set of untried subdirectories for every directory that *)
(* was read on the way from the root to path.                              *)
TypeOK ==
  /\ saved \in {{}, Saved}
  /\ pc \in {"enter", "try", "done", "exit"}
  /\ path \in Path
  /\ left \in Seq(SUBSET Names)
  /\ Len(left) = IF pc = "enter" THEN Len(path) ELSE Len(path) + 1
  /\ entered \subseteq Path
  /\ refused \subseteq Path

(* SAFETY: readdir is executed exactly once for each directory (dt.h:74):  *)
(* the walk does not come back to what it has read, over any sequence of   *)
(* refusals, nested walks of new trees and ascents.                        *)
ReadOnce == [][pc = "enter" /\ pc' = "try" => path \notin entered]_vars

Prefix(p, q) == Len(p) <= Len(q) /\ p = SubSeq(q, 1, Len(p))
Excused(p) ==
  \E q \in refused \cup Beyond \cup Big \cup Looped : Prefix(q, p)

(* SAFETY: at the end every directory was read, except those that were     *)
(* refused or lie below a directory that was refused or cut off.           *)
NothingForgotten == pc = "done" => \A p \in Share : p \in entered \/ Excused(p)

(* LIVENESS: the walk of a finite share ends.                              *)
Terminates == <>Ended
=============================================================================
