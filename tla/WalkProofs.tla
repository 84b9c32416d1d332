------------------------------ MODULE WalkProofs ------------------------------
(* Proofs about the walk of the 'dir tree' engine, for every share.        *)
EXTENDS Walk, SequenceTheorems, TLAPS

(* The subdirectories of path's directories that were not tried yet:       *)
(* q lies in or below one with name n in the i-th of them.                 *)
Agree(p, q, k) == Len(q) >= k /\ \A j \in 1..k : q[j] = p[j]
Below(p, i, n, q) == Agree(p, q, i - 1) /\ Len(q) >= i /\ q[i] = n

(* Nothing was read where the walk still has to go.                        *)
Fresh ==
  /\ \A i \in 1..Len(left) : \A n \in left[i] : \A q \in entered : ~Below(path, i, n, q)
  /\ pc = "enter" => \A q \in entered : ~Agree(path, q, Len(path))

(* A directory is not among what remains to be tried while the walk is in  *)
(* it.                                                                     *)
Taken == \A i \in 1..Len(path) : path[i] \notin left[i]

OnceInv == TypeOK /\ Fresh /\ Taken

(* The walk still has to come to p.                                        *)
ToCome(p) ==
  \/ pc = "enter" /\ Agree(path, p, Len(path))
  \/ \E i \in 1..Len(left) : \E n \in left[i] : Below(path, i, n, p)

FullInv ==
  /\ TypeOK
  /\ \A p \in Share : p \in entered \/ Excused(p) \/ ToCome(p)
  /\ pc = "done" => Len(left) = 1 /\ left[1] = {}

-----------------------------------------------------------------------------
(* What is left of a sequence without its last element.                    *)
LEMMA FrontOf ==
  ASSUME NEW S, NEW s \in Seq(S), s # <<>>
  PROVE  LET f == SubSeq(s, 1, Len(s) - 1)
         IN  /\ f \in Seq(S)
             /\ Len(f) = Len(s) - 1
             /\ \A i \in 1..Len(f) : f[i] = s[i]
<1> DEFINE f == SubSeq(s, 1, Len(s) - 1)
<1> DEFINE l == Len(s)
<1>1. l \in Nat /\ l >= 1
  OBVIOUS
<1>2. \A i \in 1..(l - 1) : s[i] \in S
  OBVIOUS
<1>3. /\ f \in Seq(S)
      /\ Len(f) = IF 1 <= l - 1 THEN (l - 1) - 1 + 1 ELSE 0
      /\ \A i \in 1..((l - 1) - 1 + 1) : f[i] = s[1 + i - 1]
  BY <1>1, <1>2, SubSeqProperties
<1> HIDE DEF f, l
<1>4. Len(f) = l - 1
  BY <1>1, <1>3
<1>5. \A i \in 1..Len(f) : f[i] = s[i]
  <2> SUFFICES ASSUME NEW i \in 1..Len(f) PROVE f[i] = s[i]
    OBVIOUS
  <2>1. i \in 1..((l - 1) - 1 + 1) /\ 1 + i - 1 = i
    BY <1>1, <1>4
  <2> QED BY <2>1, <1>3
<1> QED BY <1>3, <1>4, <1>5 DEF f, l

(* Every step of the walk keeps the types.                                 *)
LEMMA EnterType == ASSUME TypeOK, NEW kids \in SUBSET Names, Enter(kids) PROVE TypeOK'
  BY DEF TypeOK, Enter, Path

LEMMA DescendType == ASSUME TypeOK, NEW n \in Names, Descend(n) PROVE TypeOK'
<1>1. left' \in Seq(SUBSET Names) /\ Len(left') = Len(left)
  BY DEF TypeOK, Descend, Try, Rest, RestWithout
<1> QED BY <1>1 DEF TypeOK, Descend, Try, Path

LEMMA RefuseType == ASSUME TypeOK, NEW n \in Names, Refuse(n) PROVE TypeOK'
<1>1. left' \in Seq(SUBSET Names) /\ Len(left') = Len(left)
  BY DEF TypeOK, Refuse, Try, Rest, RestWithout
<1> QED BY <1>1 DEF TypeOK, Refuse, Try, Path

LEMMA AscendType == ASSUME TypeOK, Ascend PROVE TypeOK'
<1>1. Len(path) > 0 /\ Len(left) = Len(path) + 1
  BY DEF TypeOK, Ascend, Leaving, Path
<1>2. path' \in Path /\ Len(path') = Len(path) - 1
  BY FrontOf DEF TypeOK, Ascend, Leaving, Parent, Path
<1>3. left # <<>>
  BY <1>1 DEF TypeOK
<1>4. left' \in Seq(SUBSET Names) /\ Len(left') = Len(left) - 1
  BY <1>3, FrontOf DEF TypeOK, Ascend
<1> QED BY <1>1, <1>2, <1>4 DEF TypeOK, Ascend, Leaving

LEMMA InitType == Init => TypeOK
  BY DEF Init, TypeOK, Path

LEMMA ReadCases ==
  ASSUME TypeOK, Read
  PROVE  \E kids \in SUBSET Names :
           Enter(kids) /\ (kids = Kids(path) \/ path \in Beyond \cup Big \cup Looped)
  BY DEF Read, Listed, Kids

LEMMA NextType == TypeOK /\ [Next]_vars => TypeOK'
<1> SUFFICES ASSUME TypeOK, [Next]_vars PROVE TypeOK'
  OBVIOUS
<1>1. CASE Read
  BY <1>1, ReadCases, EnterType
<1>2. CASE \E n \in Names : Descend(n)
  BY <1>2, DescendType
<1>3. CASE \E n \in Names : Refuse(n)
  BY <1>3, RefuseType
<1>4. CASE Ascend
  BY <1>4, AscendType
<1>5. CASE AscendFails \/ Exit \/ Finish
  BY <1>5 DEF TypeOK, AscendFails, Leaving, Exit, Finish
<1>6. CASE UNCHANGED vars
  BY <1>6 DEF TypeOK, vars
<1> QED BY <1>1, <1>2, <1>3, <1>4, <1>5, <1>6 DEF Next

(* TYPE: TypeOK holds for every share.                                     *)
THEOREM TypeCorrect == Spec => []TypeOK
  BY InitType, NextType, PTL DEF Spec

-----------------------------------------------------------------------------
(* What Descend, Refuse and Ascend do to the subdirectories to be tried.   *)
LEMMA DescendLeft ==
  ASSUME TypeOK, NEW n \in Names, Descend(n)
  PROVE  /\ Len(left) = Len(path) + 1 /\ Len(left') = Len(left) /\ n \in left[Len(left)]
         /\ Len(path') = Len(left) /\ path'[Len(left)] = n
         /\ \A i \in 1..Len(path) : path'[i] = path[i] /\ left'[i] = left[i]
         /\ left'[Len(left)] = left[Len(left)] \ {n}
  BY DEF TypeOK, Descend, Try, Rest, RestWithout, Path

LEMMA RefuseLeft ==
  ASSUME TypeOK, NEW n \in Names, Refuse(n)
  PROVE  /\ Len(left) = Len(path) + 1 /\ Len(left') = Len(left) /\ n \in left[Len(left)]
         /\ \A i \in 1..Len(path) : left'[i] = left[i]
         /\ left'[Len(left)] = left[Len(left)] \ {n}
  BY DEF TypeOK, Refuse, Try, Rest, RestWithout, Path

LEMMA AscendLeft ==
  ASSUME TypeOK, Ascend
  PROVE  /\ Len(left) = Len(path) + 1 /\ Len(left') = Len(path) /\ left[Len(left)] = {}
         /\ Len(path') = Len(path) - 1
         /\ \A i \in 1..Len(path') : path'[i] = path[i]
         /\ \A i \in 1..Len(left') : left'[i] = left[i]
<1>1. Len(left) = Len(path) + 1 /\ left[Len(left)] = {} /\ path # <<>>
  BY DEF TypeOK, Ascend, Leaving, Rest
<1>2. Len(path') = Len(path) - 1 /\ \A i \in 1..Len(path') : path'[i] = path[i]
  BY <1>1, FrontOf DEF TypeOK, Ascend, Parent, Path
<1>3. left # <<>>
  BY <1>1 DEF TypeOK, Path
<1>4. Len(left') = Len(left) - 1 /\ \A i \in 1..Len(left') : left'[i] = left[i]
  BY <1>3, FrontOf DEF TypeOK, Ascend
<1> QED BY <1>1, <1>2, <1>4 DEF TypeOK, Path

-----------------------------------------------------------------------------
(* No step comes back to what was read.                                    *)
LEMMA EnterOnce ==
  ASSUME OnceInv, NEW kids \in SUBSET Names, Enter(kids) PROVE Fresh' /\ Taken'
<1>1. /\ Len(left) = Len(path) /\ Len(left') = Len(path) + 1 /\ Len(path) \in Nat
      /\ \A i \in 1..Len(path) : left'[i] = left[i]
      /\ path' = path /\ entered' = entered \cup {path} /\ pc = "enter" /\ pc' = "try"
  BY DEF OnceInv, TypeOK, Enter, Path
<1>2. ASSUME NEW i \in 1..Len(left'), NEW n \in left'[i], NEW q \in entered', Below(path', i, n, q)
      PROVE  FALSE
  <2>1. CASE i <= Len(path) /\ q \in entered
    BY <2>1, <1>1, <1>2 DEF OnceInv, Fresh
  <2>2. CASE i <= Len(path) /\ q = path
    BY <2>2, <1>1, <1>2 DEF OnceInv, Taken, Below
  <2>3. CASE i = Len(path) + 1
    BY <2>3, <1>1, <1>2 DEF OnceInv, Fresh, Below
  <2> QED BY <1>1, <2>1, <2>2, <2>3
<1>3. Fresh'
  BY <1>1, <1>2 DEF Fresh
<1> QED BY <1>1, <1>3 DEF OnceInv, Taken

LEMMA DescendOnce ==
  ASSUME OnceInv, NEW n \in Names, Descend(n) PROVE Fresh' /\ Taken'
<1>1. TypeOK /\ entered' = entered /\ Len(path) \in Nat
  BY DEF OnceInv, TypeOK, Descend, Path
<1>2. ASSUME NEW i \in 1..Len(left'), NEW m \in left'[i], NEW q \in entered', Below(path', i, m, q)
      PROVE  FALSE
  <2>1. i \in 1..Len(left) /\ m \in left[i]
    BY <1>1, DescendLeft
  <2>2. \A j \in 1..(i - 1) : path'[j] = path[j]
    BY <1>1, <2>1, DescendLeft
  <2>3. Below(path, i, m, q)
    BY <1>2, <2>2 DEF Below, Agree
  <2> QED BY <1>1, <2>1, <2>3 DEF OnceInv, Fresh
<1>3. ASSUME NEW q \in entered', Agree(path', q, Len(path')) PROVE FALSE
  <2>1. Below(path, Len(left), n, q)
    BY <1>1, <1>3, DescendLeft DEF Below, Agree
  <2> QED BY <1>1, <2>1, DescendLeft DEF OnceInv, Fresh
<1>4. Fresh'
  BY <1>2, <1>3 DEF Fresh
<1>5. Taken'
  BY <1>1, DescendLeft DEF OnceInv, Taken
<1> QED BY <1>4, <1>5

LEMMA RefuseOnce ==
  ASSUME OnceInv, NEW n \in Names, Refuse(n) PROVE Fresh' /\ Taken'
<1>1. /\ TypeOK /\ Len(path) \in Nat /\ pc' # "enter"
      /\ entered' = entered /\ path' = path
  BY DEF OnceInv, TypeOK, Refuse, Try, Path
<1>2. Len(left') = Len(left) /\ \A i \in 1..Len(left) : left'[i] \subseteq left[i]
  BY <1>1, RefuseLeft
<1>3. Fresh'
  BY <1>1, <1>2 DEF OnceInv, Fresh
<1>4. Taken'
  BY <1>1, <1>2, RefuseLeft DEF OnceInv, Taken
<1> QED BY <1>3, <1>4

LEMMA AscendOnce == ASSUME OnceInv, Ascend PROVE Fresh' /\ Taken'
<1>1. TypeOK /\ Len(path) \in Nat /\ entered' = entered /\ pc' # "enter"
  BY DEF OnceInv, TypeOK, Ascend, Leaving, Path
<1>2. ASSUME NEW i \in 1..Len(left'), NEW m \in left'[i], NEW q \in entered', Below(path', i, m, q)
      PROVE  FALSE
  <2>1. i \in 1..Len(left) /\ m \in left[i]
    BY <1>1, AscendLeft
  <2>2. \A j \in 1..(i - 1) : path'[j] = path[j]
    BY <1>1, AscendLeft
  <2>3. Below(path, i, m, q)
    BY <1>2, <2>2 DEF Below, Agree
  <2> QED BY <1>1, <2>1, <2>3 DEF OnceInv, Fresh
<1>3. Fresh'
  BY <1>1, <1>2 DEF Fresh
<1>4. Taken'
  BY <1>1, AscendLeft DEF OnceInv, Taken
<1> QED BY <1>3, <1>4

LEMMA InitOnce == Init => OnceInv
  BY InitType DEF Init, OnceInv, Fresh, Taken

LEMMA NextOnce == OnceInv /\ [Next]_vars => OnceInv'
<1> SUFFICES ASSUME OnceInv, [Next]_vars PROVE Fresh' /\ Taken'
  BY NextType DEF OnceInv
<1> USE DEF OnceInv
<1>1. CASE Read
  BY <1>1, ReadCases, EnterOnce
<1>2. CASE \E n \in Names : Descend(n)
  BY <1>2, DescendOnce
<1>3. CASE \E n \in Names : Refuse(n)
  BY <1>3, RefuseOnce
<1>4. CASE Ascend
  BY <1>4, AscendOnce
<1>5. CASE AscendFails \/ Exit \/ Finish
  BY <1>5 DEF Fresh, Taken, AscendFails, Leaving, Exit, Finish
<1>6. CASE UNCHANGED vars
  BY <1>6 DEF Fresh, Taken, vars
<1> QED BY <1>1, <1>2, <1>3, <1>4, <1>5, <1>6 DEF Next

(* SAFETY: the walk never comes back to a directory it has read.           *)
THEOREM ReadsOnce == Spec => ReadOnce
<1>1. OnceInv /\ [Next]_vars => [pc = "enter" /\ pc' = "try" => path \notin entered]_vars
  BY DEF OnceInv, TypeOK, Fresh, Agree, Path
<1> QED BY <1>1, InitOnce, NextOnce, PTL DEF Spec, ReadOnce

-----------------------------------------------------------------------------
(* A directory the walk is above, or in, leads to those below it.          *)
LEMMA AgreeIsPrefix ==
  ASSUME NEW p \in Path, NEW q \in Path, Agree(p, q, Len(p)) PROVE Prefix(p, q)
<1> DEFINE l == Len(p)
<1> DEFINE f == SubSeq(q, 1, l)
<1>1. l \in Nat /\ Len(q) >= l /\ \A i \in 1..l : q[i] \in Names /\ q[i] = p[i]
  BY DEF Agree, Path
<1>2. f \in Seq(Names) /\ Len(f) = (IF 1 <= l THEN l - 1 + 1 ELSE 0)
      /\ \A i \in 1..(l - 1 + 1) : f[i] = q[1 + i - 1]
  BY <1>1, SubSeqProperties
<1> HIDE DEF f
<1>3. Len(f) = l /\ \A i \in 1..l : f[i] = p[i]
  <2>1. Len(f) = l
    BY <1>1, <1>2
  <2>2. ASSUME NEW i \in 1..l PROVE f[i] = p[i]
    <3>1. i \in 1..(l - 1 + 1) /\ 1 + i - 1 = i
      BY <1>1
    <3> QED BY <3>1, <1>1, <1>2
  <2> QED BY <2>1, <2>2
<1>4. f = p
  BY <1>2, <1>3 DEF Path
<1> QED BY <1>1, <1>4 DEF Prefix, f

(* The next name on the way from p to a directory of the share below it is *)
(* among the subdirectories of p.                                          *)
LEMMA WayDown ==
  ASSUME NEW p \in Path, NEW q \in Share, Agree(p, q, Len(p)), q # p
  PROVE  Len(q) >= Len(p) + 1 /\ q[Len(p) + 1] \in Kids(p)
<1> DEFINE l == Len(p) + 1
<1> DEFINE f == SubSeq(q, 1, l)
<1>1. q \in Seq(Names) /\ p \in Seq(Names) /\ Len(p) \in Nat
  BY SharePaths DEF Path
<1>2. Len(q) >= l
  BY <1>1 DEF Agree
<1>3. \A i \in 1..l : q[i] \in Names
  BY <1>1, <1>2
<1>4. /\ f \in Seq(Names) /\ Len(f) = (IF 1 <= l THEN l - 1 + 1 ELSE 0)
      /\ \A i \in 1..(l - 1 + 1) : f[i] = q[1 + i - 1]
  BY <1>1, <1>3, SubSeqProperties
<1>5. f \in Share
  BY <1>1, <1>2, SharePaths
<1>6. q[l] \in Names
  BY <1>1, <1>3
<1> DEFINE g == Append(p, q[l])
<1>7. g \in Seq(Names) /\ Len(g) = l /\ g[l] = q[l] /\ \A i \in 1..Len(p) : g[i] = p[i]
  BY <1>1, <1>6
<1> HIDE DEF f, g
<1>8. Len(f) = l
  BY <1>1, <1>4
<1>9. ASSUME NEW i \in 1..l PROVE f[i] = g[i]
  <2>1. i \in 1..(l - 1 + 1) /\ 1 + i - 1 = i
    BY <1>1
  <2>2. f[i] = q[i]
    BY <2>1, <1>4
  <2> QED BY <2>2, <1>1, <1>7 DEF Agree
<1>10. f = g
  BY <1>4, <1>7, <1>8, <1>9
<1> QED BY <1>2, <1>5, <1>6, <1>10 DEF Kids, g

-----------------------------------------------------------------------------
(* What was excused remains so.                                            *)
LEMMA ExcusedStays ==
  ASSUME NEW p, Excused(p), refused \subseteq refused' PROVE Excused(p)'
  BY DEF Excused, Prefix

(* Every step reads a directory, excuses it, or still has to come to it.   *)
LEMMA EnterFull ==
  ASSUME FullInv, Read, NEW p \in Share PROVE p \in entered' \/ Excused(p)' \/ ToCome(p)'
<1>1. PICK kids \in SUBSET Names :
        Enter(kids) /\ (kids = Kids(path) \/ path \in Beyond \cup Big \cup Looped)
  BY ReadCases DEF FullInv
<1>2. /\ Len(left) = Len(path) /\ Len(left') = Len(path) + 1 /\ Len(path) \in Nat
      /\ \A i \in 1..Len(path) : left'[i] = left[i]
      /\ left'[Len(path) + 1] = kids
      /\ path' = path /\ entered' = entered \cup {path} /\ refused' = refused
      /\ path \in Path
  BY <1>1 DEF FullInv, TypeOK, Enter, Path
<1>3. CASE p \in entered \/ Excused(p)
  BY <1>3, <1>2, ExcusedStays
<1>4. CASE Agree(path, p, Len(path)) /\ path \in Beyond \cup Big \cup Looped
  BY <1>4, <1>2, AgreeIsPrefix, SharePaths DEF Excused, Prefix
<1>5. CASE Agree(path, p, Len(path)) /\ kids = Kids(path) /\ p # path
  <2>1. Len(p) >= Len(path) + 1 /\ p[Len(path) + 1] \in kids
    BY <1>5, <1>2, WayDown
  <2>2. Len(path) + 1 \in 1..Len(left') /\ p[Len(path) + 1] \in left'[Len(path) + 1]
    BY <2>1, <1>2
  <2>3. Below(path', Len(path) + 1, p[Len(path) + 1], p)
    BY <1>2, <1>5, <2>1 DEF Below, Agree
  <2> QED BY <2>2, <2>3 DEF ToCome
<1>6. ASSUME NEW i \in 1..Len(left), NEW n \in left[i], Below(path, i, n, p)
      PROVE  ToCome(p)'
  <2>1. i \in 1..Len(left') /\ n \in left'[i] /\ Below(path', i, n, p)
    BY <1>2, <1>6
  <2> QED BY <2>1 DEF ToCome
<1>7. CASE p = path
  BY <1>7, <1>2
<1> QED BY <1>1, <1>3, <1>4, <1>5, <1>6, <1>7 DEF FullInv, ToCome

LEMMA DescendFull ==
  ASSUME FullInv, NEW n \in Names, Descend(n), NEW p \in Share
  PROVE  p \in entered' \/ Excused(p)' \/ ToCome(p)'
<1>1. /\ TypeOK /\ Len(path) \in Nat /\ pc # "enter" /\ pc' = "enter"
      /\ entered' = entered /\ refused' = refused
  BY DEF FullInv, TypeOK, Descend, Try, Path
<1>2. CASE p \in entered \/ Excused(p)
  BY <1>2, <1>1, ExcusedStays
<1>3. ASSUME NEW i \in 1..Len(left), NEW m \in left[i], Below(path, i, m, p)
      PROVE  ToCome(p)'
  <2>1. CASE i = Len(left) /\ m = n
    BY <2>1, <1>1, <1>3, DescendLeft DEF ToCome, Below, Agree
  <2>2. CASE ~(i = Len(left) /\ m = n)
    <3>1. i \in 1..Len(left') /\ m \in left'[i]
      BY <2>2, <1>1, DescendLeft
    <3>2. \A j \in 1..(i - 1) : path'[j] = path[j]
      BY <1>1, DescendLeft
    <3>3. Below(path', i, m, p)
      BY <1>3, <3>2 DEF Below, Agree
    <3> QED BY <3>1, <3>3 DEF ToCome
  <2> QED BY <2>1, <2>2
<1> QED BY <1>1, <1>2, <1>3 DEF FullInv, ToCome

LEMMA RefuseFull ==
  ASSUME FullInv, NEW n \in Names, Refuse(n), NEW p \in Share
  PROVE  p \in entered' \/ Excused(p)' \/ ToCome(p)'
<1>1. /\ TypeOK /\ Len(path) \in Nat /\ path \in Seq(Names) /\ pc # "enter"
      /\ entered' = entered /\ path' = path
      /\ refused' = refused \cup {Append(path, n)}
  BY DEF FullInv, TypeOK, Refuse, Try, Path
<1>2. CASE p \in entered \/ Excused(p)
  BY <1>2, <1>1, ExcusedStays
<1>3. ASSUME NEW i \in 1..Len(left), NEW m \in left[i], Below(path, i, m, p)
      PROVE  Excused(p)' \/ ToCome(p)'
  <2>1. CASE i = Len(left) /\ m = n
    <3> DEFINE g == Append(path, n)
    <3>1. g \in Path /\ Len(g) = i /\ g[i] = n /\ \A j \in 1..(i - 1) : g[j] = path[j]
      BY <2>1, <1>1, RefuseLeft DEF Path
    <3> HIDE DEF g
    <3>2. Agree(g, p, Len(g))
      BY <1>3, <2>1, <3>1 DEF Below, Agree
    <3>3. Prefix(g, p)
      BY <3>1, <3>2, AgreeIsPrefix, SharePaths
    <3> QED BY <1>1, <3>3 DEF Excused, Prefix, g
  <2>2. CASE ~(i = Len(left) /\ m = n)
    <3>1. i \in 1..Len(left') /\ m \in left'[i]
      BY <2>2, <1>1, RefuseLeft
    <3> QED BY <1>1, <1>3, <3>1 DEF ToCome
  <2> QED BY <2>1, <2>2
<1> QED BY <1>1, <1>2, <1>3 DEF FullInv, ToCome

LEMMA AscendFull ==
  ASSUME FullInv, Ascend, NEW p \in Share PROVE p \in entered' \/ Excused(p)' \/ ToCome(p)'
<1>1. /\ TypeOK /\ Len(path) \in Nat /\ pc # "enter"
      /\ entered' = entered /\ refused' = refused
  BY DEF FullInv, TypeOK, Ascend, Leaving, Path
<1>2. CASE p \in entered \/ Excused(p)
  BY <1>2, <1>1, ExcusedStays
<1>3. ASSUME NEW i \in 1..Len(left), NEW m \in left[i], Below(path, i, m, p)
      PROVE  ToCome(p)'
  <2>1. i \in 1..Len(left') /\ m \in left'[i]
    BY <1>1, AscendLeft
  <2>2. \A j \in 1..(i - 1) : path'[j] = path[j]
    BY <1>1, <2>1, AscendLeft
  <2>3. Below(path', i, m, p)
    BY <1>3, <2>2 DEF Below, Agree
  <2> QED BY <2>1, <2>3 DEF ToCome
<1> QED BY <1>1, <1>2, <1>3 DEF FullInv, ToCome

LEMMA InitFull == Init => FullInv
<1> SUFFICES ASSUME Init PROVE FullInv
  OBVIOUS
<1>1. \A p \in Share : Agree(path, p, Len(path))
  BY SharePaths DEF Init, Agree, Path
<1> QED BY <1>1, InitType DEF Init, FullInv, ToCome

LEMMA NextFull == FullInv /\ [Next]_vars => FullInv'
<1> SUFFICES ASSUME FullInv, [Next]_vars PROVE FullInv'
  OBVIOUS
<1>1. TypeOK'
  BY NextType DEF FullInv
<1>2. ASSUME NEW p \in Share PROVE p \in entered' \/ Excused(p)' \/ ToCome(p)'
  <2>1. CASE Read
    BY <2>1, EnterFull
  <2>2. CASE \E n \in Names : Descend(n)
    BY <2>2, DescendFull
  <2>3. CASE \E n \in Names : Refuse(n)
    BY <2>3, RefuseFull
  <2>4. CASE Ascend
    BY <2>4, AscendFull
  <2>5. CASE AscendFails \/ Exit \/ Finish
    BY <2>5 DEF FullInv, ToCome, Excused, AscendFails, Leaving, Exit, Finish
  <2>6. CASE UNCHANGED vars
    BY <2>6 DEF FullInv, ToCome, Excused, vars
  <2> QED BY <2>1, <2>2, <2>3, <2>4, <2>5, <2>6 DEF Next
<1>3. pc' = "done" => Len(left') = 1 /\ left'[1] = {}
  <2>1. CASE Read \/ Ascend \/ \E n \in Names : Descend(n) \/ Refuse(n)
    BY <2>1 DEF Read, Enter, Descend, Refuse, Try, Ascend, Leaving
  <2>2. CASE AscendFails \/ Exit
    BY <2>2 DEF AscendFails, Exit
  <2>3. CASE Finish
    BY <2>3 DEF FullInv, TypeOK, Finish, Rest
  <2>4. CASE UNCHANGED vars
    BY <2>4 DEF FullInv, vars
  <2> QED BY <2>1, <2>2, <2>3, <2>4 DEF Next
<1> QED BY <1>1, <1>2, <1>3 DEF FullInv

(* Nothing is still to come at the end.                                    *)
LEMMA FullAtTheEnd == FullInv => NothingForgotten
<1>1. ASSUME FullInv, pc = "done", NEW p \in Share PROVE p \in entered \/ Excused(p)
  <2>1. Len(left) = 1 /\ left[1] = {}
    BY <1>1 DEF FullInv
  <2>2. left[1] = {} /\ \A i \in 1..Len(left) : i = 1
    BY <2>1
  <2>3. ~ToCome(p)
    BY <1>1, <2>2 DEF ToCome
  <2> QED BY <1>1, <2>3 DEF FullInv
<1> QED BY <1>1 DEF NothingForgotten

(* SAFETY: a walk that ends has read every directory that was not refused  *)
(* and does not lie below one that was refused or cut off.                 *)
THEOREM ForgetsNothing == Spec => []NothingForgotten
BY FullAtTheEnd, InitFull, NextFull, PTL DEF Spec
=============================================================================
