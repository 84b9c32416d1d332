----------------------------- MODULE SqlWalkProofs -----------------------------
(* Proofs about the walker over the rows of the database, for every share. *)
EXTENDS SqlWalk, SequenceTheorems, TLAPS

Inv ==
  /\ path \in Seq(Names)
  /\ treepath \in Seq(Names)
  /\ NeverAboveTree

-----------------------------------------------------------------------------
(* The parent of a directory is a directory, one level up.                 *)
LEMMA ParentOf ==
  ASSUME NEW p \in Seq(Names), Len(p) > 0
  PROVE  Parent(p) \in Seq(Names) /\ Len(Parent(p)) = Len(p) - 1
<1> DEFINE f == Parent(p)
<1> DEFINE l == Len(p)
<1>1. l \in Nat /\ l >= 1
  OBVIOUS
<1>2. \A i \in 1..(l - 1) : p[i] \in Names
  OBVIOUS
<1>3. f \in Seq(Names) /\ Len(f) = IF 1 <= l - 1 THEN (l - 1) - 1 + 1 ELSE 0
  BY <1>1, <1>2, SubSeqProperties DEF Parent
<1> HIDE DEF f, l
<1>4. Len(f) = l - 1
  BY <1>1, <1>3
<1> QED BY <1>3, <1>4 DEF f, l

LEMMA InitInv == Init => Inv
  BY DEF Init, W!Init, Inv, NeverAboveTree

(* A step down goes as deep with the position as with the engine.          *)
LEMMA GoChildKeeps == ASSUME Inv, NEW n \in Names, GoChild(n) PROVE Inv'
<1>1. /\ path' = Append(path, n) /\ treepath' = Append(treepath, n)
      /\ res' = Kids(treepath')
  BY DEF GoChild, W!Descend
<1>2. /\ path' \in Seq(Names) /\ Len(path') = Len(path) + 1
      /\ treepath' \in Seq(Names) /\ Len(treepath') = Len(treepath) + 1
  BY <1>1 DEF Inv
<1>3. Len(path) \in Nat /\ Len(treepath) \in Nat
  BY DEF Inv
<1> QED BY <1>1, <1>2, <1>3 DEF Inv, NeverAboveTree

(* A refused one leaves the position where it was, or in the child.        *)
LEMMA RefusedKeeps == ASSUME Inv, NEW n \in Names, NoChild(n) \/ NoRows(n) PROVE Inv'
<1>1. /\ path' = path /\ pc' # "enter"
      /\ treepath' \in {treepath, Append(treepath, n)}
  BY DEF NoChild, NoRows, W!Refuse, W!Try
<1>2. treepath' \in Seq(Names) /\ Len(treepath') \in {Len(treepath), Len(treepath) + 1}
  BY <1>1 DEF Inv
<1>3. Len(path) \in Nat /\ Len(treepath) \in Nat
  BY DEF Inv
<1> QED BY <1>1, <1>2, <1>3 DEF Inv, NeverAboveTree

(* Whether the parent is found or not, the engine goes up.                 *)
LEMMA AscendKeeps ==
  ASSUME Inv, W!Ascend, treepath' \in {treepath, Parent(treepath)} PROVE Inv'
<1>1. path # <<>> /\ path' = Parent(path) /\ pc' # "enter"
  BY DEF W!Ascend, W!Leaving, W!Parent, Parent
<1>2. Len(path) \in Nat /\ Len(path) > 0 /\ Len(treepath) \in Nat /\ Len(treepath) >= Len(path)
  BY <1>1 DEF Inv, NeverAboveTree
<1>3. path' \in Seq(Names) /\ Len(path') = Len(path) - 1
  BY <1>1, <1>2, ParentOf DEF Inv
<1>4. treepath' \in Seq(Names) /\ Len(treepath') \in {Len(treepath), Len(treepath) - 1}
  BY <1>2, ParentOf DEF Inv
<1> QED BY <1>1, <1>2, <1>3, <1>4 DEF Inv, NeverAboveTree

LEMMA NextInv == Inv /\ [Next]_vars => Inv'
<1> SUFFICES ASSUME Inv, [Next]_vars PROVE Inv'
  OBVIOUS
<1>1. CASE ReadDir
  BY <1>1 DEF Inv, NeverAboveTree, ReadDir, W!Enter
<1>2. CASE \E n \in Names : GoChild(n)
  BY <1>2, GoChildKeeps
<1>3. CASE \E n \in Names : NoChild(n) \/ NoRows(n)
  BY <1>3, RefusedKeeps
<1>4. CASE GoParent
  BY <1>4, AscendKeeps DEF GoParent
<1>5. CASE NoParent
  <2>1. CASE W!AscendFails /\ UNCHANGED treepath
    BY <2>1 DEF Inv, NeverAboveTree, W!AscendFails
  <2>2. CASE W!Ascend /\ UNCHANGED treepath
    BY <2>2, AscendKeeps
  <2> QED BY <1>5, <2>1, <2>2 DEF NoParent
<1>6. CASE Finish
  BY <1>6 DEF Inv, NeverAboveTree, Finish, W!Finish
<1>7. CASE UNCHANGED vars
  BY <1>7 DEF Inv, NeverAboveTree, vars
<1> QED BY <1>1, <1>2, <1>3, <1>4, <1>5, <1>6, <1>7 DEF Next

(* SAFETY: for every share, through all failing queries, the position is   *)
(* never above the engine's directory, and rows are those of the position. *)
THEOREM PositionBelow == Spec => []NeverAboveTree
<1>1. Inv => NeverAboveTree
  BY DEF Inv
<1> QED BY <1>1, InitInv, NextInv, PTL DEF Spec
=============================================================================
