------------------------------- MODULE ShareTree -------------------------------
(***************************************************************************)
(* The directories of a share, as far as the walks of the 'dir tree'       *)
(* engine (scanners/libuguu/dt.c) see them.  A directory is the sequence   *)
(* of names that leads to it; the root is <<>>.                            *)
(***************************************************************************)
EXTENDS Naturals, Sequences

CONSTANTS
  Names,
  Share,      \* the directories that can be entered
  Closed,     \* those that are listed by their parents but cannot be entered
  Saved,      \* the directories of a saved tree
  Beyond,     \* directories whose id exceeds DT_MAX_DIRS
  Big,        \* directories that lose entries: there are more than DT_MAX_ITEMS_IN_DIR,
              \* or an allocation fails while they are read
  Looped      \* directories taken for a recursive link

Path == Seq(Names)
Parent(p) == SubSeq(p, 1, Len(p) - 1)
Kids(p) == {n \in Names : Append(p, n) \in Share \cup Closed}
Listed(p, kids) == IF p \in Looped THEN {} ELSE kids

ASSUME SharePaths ==
  /\ Share \subseteq Path
  /\ <<>> \in Share
  /\ \A p \in Share : \A i \in 1..Len(p) : SubSeq(p, 1, i) \in Share
=============================================================================
