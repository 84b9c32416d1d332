------------------------------ MODULE CuckooProofs ------------------------------
(***************************************************************************)
(* The hash table, for all keys, hash functions and depths of rehashes.    *)
(* IInv says of every level of the stack that its table is well-formed,    *)
(* with each element in a slot its hash functions name and the right       *)
(* count; of every two neighbours, what the upper has got of the lower     *)
(* (Link); and of the table of the caller, where the new key is (FirstOK). *)
(***************************************************************************)
EXTENDS Cuckoo, FiniteSetTheorems, SequenceTheorems, TLAPS

Used(c) == {p \in DOMAIN c.slot : c.slot[p] # Free}

(* size is 1 << log, without a definition by recursion: there is a         *)
(* sequence of doublings from 1 to it.                                     *)
IsShift(log, size) ==
  \E f \in [0..log -> 1..size] : f[0] = 1 /\ f[log] = size /\ \A i \in 0..(log - 1) : f[i + 1] = 2 * f[i]

TableOK(c) ==
  /\ c = [log |-> c.log, size |-> c.size, hash |-> c.hash, items |-> c.items, slot |-> c.slot]
  /\ c.log \in Nat /\ c.size \in Nat \ {0} /\ IsShift(c.log, c.size)
  /\ c.hash \in Hashes
  /\ c.slot \in [Slots(c.size) -> Keys \cup {Free}]

InPlace(c) ==
  \A p \in DOMAIN c.slot : c.slot[p] # Free =>
    /\ p[2] = Index(c, p[1], c.slot[p])
    /\ \A q \in DOMAIN c.slot \ {p} : c.slot[q] # c.slot[p]

(* The count is that of the slots and that of the elements.                *)
Counted(c) ==
  /\ IsFiniteSet(Used(c)) /\ c.items = Cardinality(Used(c))
  /\ IsFiniteSet(Elements(c)) /\ c.items = Cardinality(Elements(c))
  /\ c.items \in Nat /\ c.items < c.size

LevelOK(l) ==
  /\ l = [ctx |-> l.ctx, state |-> l.state, hand |-> l.hand, tries |-> l.tries, moved |-> l.moved]
  /\ TableOK(l.ctx) /\ InPlace(l.ctx) /\ Counted(l.ctx)
  /\ l.hand \in Keys \cup {Free}
  /\ (l.state = "idle") = (l.hand = Free)
  /\ l.state \in {"idle", "check", "loop", "grow"}
  /\ l.tries \in Nat /\ l.moved \in Nat
  /\ l.state \in {"loop", "grow"} => l.hand \notin Elements(l.ctx)
  /\ l.state = "loop" => l.ctx.items < l.ctx.size - 1

(* What cuckoo_move has inserted or is inserting when it comes to slot n.  *)
MovedSet(c, n) == {Visited(c, m) : m \in 0..(n - 1)} \ {Free}

(* A level and the new table it is moved to.                               *)
Link(old, new) ==
  /\ new.moved \in 0..(2 * old.ctx.size)
  /\ MovedSet(old.ctx, new.moved) = (Elements(new.ctx) \cup {new.hand}) \ {Free}
  /\ new.hand \notin Elements(new.ctx)
  /\ new.state # "grow"
  /\ old.state # "loop"
  /\ old.state = "check" => old.hand \notin Elements(old.ctx) /\ new.ctx.size = old.ctx.size
  /\ old.ctx.items < IF old.state = "grow" THEN new.ctx.size - 1 ELSE new.ctx.size

(* The table of the caller: adding is in it as soon as another is in hand. *)
FirstOK(l, key) ==
  /\ (l.hand = Free) = (key = Free)
  /\ l.hand # key => l.hand \notin Elements(l.ctx) /\ key \in Elements(l.ctx)

IsSequence(s) == Len(s) \in Nat /\ s \in Seq({s[i] : i \in 1..Len(s)})

IInv ==
  /\ adding \in Keys \cup {Free} /\ short \in BOOLEAN
  /\ IsSequence(levels) /\ Len(levels) > 0
  /\ \A i \in 1..Len(levels) : LevelOK(levels[i])
  /\ \A i \in 2..Len(levels) : Link(levels[i - 1], levels[i]) /\ (levels[i - 1].state = "idle" => i = 2)
  /\ Top.state # "grow"
  /\ FirstOK(levels[1], adding)
-----------------------------------------------------------------------------
(* The stack of levels after its top was changed, after another level was  *)
(* put on it, and after its two topmost levels became one.                 *)
WithTop(s, x) == [s EXCEPT ![Len(s)] = x]
WithTwo(s, x, y) == Append([s EXCEPT ![Len(s)] = x], y)
Merged(s, x) == Append(SubSeq(s, 1, Len(s) - 2), x)

LEMMA AnySequence == ASSUME NEW S, NEW s \in Seq(S) PROVE IsSequence(s)
<1>1. Len(s) \in Nat /\ s \in [1..Len(s) -> S] /\ DOMAIN s = 1..Len(s)
  BY LenProperties
<1>2. s \in [1..Len(s) -> {s[i] : i \in 1..Len(s)}]
  BY <1>1
<1> QED BY <1>1, <1>2, SeqDef DEF IsSequence

LEMMA SetTop ==
  ASSUME NEW s, IsSequence(s), Len(s) > 0, NEW x
  PROVE  LET t == WithTop(s, x) IN
         /\ IsSequence(t) /\ Len(t) = Len(s)
         /\ t[Len(s)] = x /\ \A i \in 1..(Len(s) - 1) : t[i] = s[i]
<1> USE DEF WithTop
<1> DEFINE t == [s EXCEPT ![Len(s)] = x]
           S == {s[i] : i \in 1..Len(s)} \cup {x}
<1>1. s \in Seq(S)
  BY SeqMonotonic DEF IsSequence
<1>2. Len(s) \in 1..Len(s)
  BY DEF IsSequence
<1>3. /\ t \in Seq(S) /\ Len(t) = Len(s)
      /\ \A j \in 1..Len(s) : t[j] = IF j = Len(s) THEN x ELSE s[j]
  BY <1>1, <1>2, ExceptSeq
<1>4. IsSequence(t)
  BY <1>3, AnySequence
<1> QED BY <1>2, <1>3, <1>4 DEF IsSequence

LEMMA PushOne ==
  ASSUME NEW s, IsSequence(s), NEW x
  PROVE  LET t == Append(s, x) IN
         /\ IsSequence(t) /\ Len(t) = Len(s) + 1
         /\ t[Len(s) + 1] = x /\ \A i \in 1..Len(s) : t[i] = s[i]
<1> DEFINE t == Append(s, x)
           S == {s[i] : i \in 1..Len(s)} \cup {x}
<1>1. s \in Seq(S) /\ Len(s) \in Nat
  BY SeqMonotonic DEF IsSequence
<1>2. t \in Seq(S) /\ Len(t) = Len(s) + 1 /\ t[Len(s) + 1] = x /\ \A i \in 1..Len(s) : t[i] = s[i]
  BY <1>1
<1> QED BY <1>2, AnySequence

LEMMA PushTwo ==
  ASSUME NEW s, IsSequence(s), Len(s) > 0, NEW x, NEW y
  PROVE  LET t == WithTwo(s, x, y) IN
         /\ IsSequence(t) /\ Len(t) = Len(s) + 1
         /\ t[Len(s) + 1] = y /\ t[Len(s)] = x /\ \A i \in 1..(Len(s) - 1) : t[i] = s[i]
<1> DEFINE r == WithTop(s, x)
           t == Append(r, y)
<1>1. IsSequence(r) /\ Len(r) = Len(s) /\ r[Len(s)] = x /\ \A i \in 1..(Len(s) - 1) : r[i] = s[i]
  BY SetTop
<1>2. IsSequence(t) /\ Len(t) = Len(r) + 1 /\ t[Len(r) + 1] = y /\ \A i \in 1..Len(r) : t[i] = r[i]
  <2> HIDE DEF r
  <2> QED BY <1>1, PushOne
<1>3. Len(s) \in Nat
  BY DEF IsSequence
<1> HIDE DEF r, t
<1>4. Len(s) \in 1..Len(s) /\ \A i \in 1..(Len(s) - 1) : i \in 1..Len(s)
  BY <1>3
<1>5. WithTwo(s, x, y) = t
  BY DEF t, r, WithTwo, WithTop
<1> QED BY <1>1, <1>2, <1>4, <1>5

LEMMA SubSeqFront ==
  ASSUME NEW S, NEW s \in Seq(S), NEW k \in Int, k >= 0, k <= Len(s)
  PROVE  /\ SubSeq(s, 1, k) \in Seq(S) /\ Len(SubSeq(s, 1, k)) = k
         /\ \A i \in 1..k : SubSeq(s, 1, k)[i] = s[i]
  OBVIOUS

LEMMA PopTwo ==
  ASSUME NEW s, IsSequence(s), Len(s) > 1, NEW x
  PROVE  LET t == Merged(s, x) IN
         /\ IsSequence(t) /\ Len(t) = Len(s) - 1
         /\ t[Len(s) - 1] = x /\ \A i \in 1..(Len(s) - 2) : t[i] = s[i]
<1> DEFINE S == {s[i] : i \in 1..Len(s)}
           k == Len(s) - 2
           r == SubSeq(s, 1, k)
           t == Append(r, x)
<1>1. s \in Seq(S) /\ Len(s) \in Nat /\ k \in Int /\ k >= 0 /\ k <= Len(s)
  BY DEF IsSequence
<1>2. r \in Seq(S) /\ Len(r) = k /\ \A i \in 1..k : r[i] = s[i]
  <2> HIDE DEF S, k
  <2> QED BY <1>1, SubSeqFront
<1>3. IsSequence(r)
  BY <1>2, AnySequence
<1>4. IsSequence(t) /\ Len(t) = Len(r) + 1 /\ t[Len(r) + 1] = x /\ \A i \in 1..Len(r) : t[i] = r[i]
  <2> HIDE DEF r
  <2> QED BY <1>3, PushOne
<1>5. Merged(s, x) = t
  BY DEF Merged
<1> HIDE DEF t, r
<1> QED BY <1>1, <1>2, <1>3, <1>4, <1>5
-----------------------------------------------------------------------------
(* A table and its elements.                                               *)
LEMMA Doublings ==
  ASSUME NEW log, NEW size, NEW f \in [0..log -> 1..size],
         f[0] = 1, f[log] = size, \A i \in 0..(log - 1) : f[i + 1] = 2 * f[i]
  PROVE  IsShift(log, size)
  BY DEF IsShift

LEMMA Shift ==
  ASSUME NEW log \in Nat, NEW size \in Nat \ {0}, IsShift(log, size)
  PROVE  /\ IsShift(log + 1, 2 * size)
         /\ log = 0 <=> size = 1
         /\ log > 0 => IsShift(log - 1, size \div 2) /\ size = 2 * (size \div 2) /\ size \div 2 \in Nat \ {0}
<1>1. PICK f \in [0..log -> 1..size] :
        f[0] = 1 /\ f[log] = size /\ \A i \in 0..(log - 1) : f[i + 1] = 2 * f[i]
  BY DEF IsShift
<1>2. IsShift(log + 1, 2 * size)
  <2> DEFINE g == [i \in 0..(log + 1) |-> IF i = log + 1 THEN 2 * size ELSE f[i]]
  <2>1. g \in [0..(log + 1) -> 1..(2 * size)]
    BY <1>1
  <2>2. g[0] = 1 /\ g[log + 1] = 2 * size /\ \A i \in 0..((log + 1) - 1) : g[i + 1] = 2 * g[i]
    BY <1>1
  <2> HIDE DEF g
  <2> QED BY <2>1, <2>2, Doublings
<1>3. ASSUME log > 0
      PROVE  IsShift(log - 1, size \div 2) /\ size = 2 * (size \div 2) /\ size \div 2 \in Nat \ {0}
  <2> DEFINE g == [i \in 0..(log - 1) |-> f[i]]
             half == f[log - 1]
  <2>1. size = 2 * half /\ half \in Nat \ {0} /\ half < size
    BY <1>1, <1>3
  <2>2. half = size \div 2
    <3> HIDE DEF half
    <3> QED BY <2>1
  <2>3. ASSUME NEW i \in 0..(log - 1) PROVE f[i] \in 1..half
    BY <1>1, <1>3, <2>1
  <2>4. g \in [0..(log - 1) -> 1..half] /\ g[0] = 1 /\ g[log - 1] = half
    BY <1>1, <1>3, <2>3
  <2>5. \A i \in 0..(log - 1 - 1) : g[i + 1] = 2 * g[i]
    BY <1>1, <1>3
  <2> QED BY <2>1, <2>2, <2>4, <2>5 DEF IsShift
<1>4. log = 0 <=> size = 1
  BY <1>1, <1>3
<1> QED BY <1>2, <1>3, <1>4

LEMMA IndexType ==
  ASSUME NEW c, TableOK(c), NEW k \in Keys, NEW t \in {1, 2}
  PROVE  Index(c, t, k) \in 0..(c.size - 1) /\ <<t, Index(c, t, k)>> \in DOMAIN c.slot
<1>1. c.hash[<<t, k>>] \in Nat /\ c.size \in Nat \ {0}
  BY CuckooAssumption DEF TableOK
<1>2. Index(c, t, k) \in 0..(c.size - 1)
  BY <1>1 DEF Index
<1> QED BY <1>2 DEF TableOK, Slots

LEMMA PresentElement ==
  ASSUME NEW c, TableOK(c), InPlace(c), NEW k \in Keys
  PROVE  Present(c, k) <=> k \in Elements(c)
<1>1. ASSUME Present(c, k) PROVE k \in Elements(c)
  BY <1>1, IndexType, CuckooAssumption DEF Present, Elements
<1>2. ASSUME k \in Elements(c) PROVE Present(c, k)
  <2>1. PICK p \in DOMAIN c.slot : c.slot[p] = k
    BY <1>2 DEF Elements
  <2>2. p[2] = Index(c, p[1], k) /\ p[1] \in {1, 2} /\ p = <<p[1], p[2]>>
    BY <2>1, CuckooAssumption DEF InPlace, TableOK, Slots
  <2> QED BY <2>1, <2>2 DEF Present
<1> QED BY <1>1, <1>2

LEMMA NewTable ==
  ASSUME NEW log \in Nat, NEW size \in Nat \ {0}, IsShift(log, size), NEW h \in Hashes,
         NEW c, c = Alloc(log, size, h)
  PROVE  TableOK(c) /\ InPlace(c) /\ Counted(c) /\ Elements(c) = {} /\ c.size = size /\ c.log = log
<1>1. TableOK(c)
  BY DEF TableOK, Alloc
<1>2. Used(c) = {} /\ Elements(c) = {} /\ c.items = 0 /\ c.size = size /\ c.log = log
  BY DEF Alloc, Used, Elements
<1>3. Counted(c)
  BY <1>2, FS_EmptySet DEF Counted
<1>4. InPlace(c)
  BY DEF InPlace, Alloc
<1> QED BY <1>1, <1>2, <1>3, <1>4

LEMMA OneMore ==
  ASSUME NEW A, IsFiniteSet(A), NEW x, x \notin A, NEW B, B = A \cup {x}
  PROVE  IsFiniteSet(B) /\ Cardinality(B) = Cardinality(A) + 1 /\ Cardinality(B) \in Nat
  BY FS_AddElement, FS_CardinalityType

LEMMA OneLess ==
  ASSUME NEW A, IsFiniteSet(A), NEW x, x \in A, NEW B, B = A \ {x}
  PROVE  IsFiniteSet(B) /\ Cardinality(B) = Cardinality(A) - 1 /\ Cardinality(B) \in Nat
  BY FS_RemoveElement, FS_CardinalityType

Put(c, p, k) == [c EXCEPT !.slot[p] = k, !.items = @ + 1]

LEMMA PutFree ==
  ASSUME NEW c, TableOK(c), InPlace(c), Counted(c), NEW k \in Keys, k \notin Elements(c),
         NEW p \in DOMAIN c.slot, p[2] = Index(c, p[1], k), c.slot[p] = Free, c.items < c.size - 1,
         NEW d, d = Put(c, p, k)
  PROVE  TableOK(d) /\ InPlace(d) /\ Counted(d) /\ Elements(d) = Elements(c) \cup {k} /\ d.size = c.size
<1>1. /\ d.log = c.log /\ d.size = c.size /\ d.hash = c.hash /\ d.items = c.items + 1
      /\ d.slot = [c.slot EXCEPT ![p] = k] /\ DOMAIN d.slot = DOMAIN c.slot
      /\ d = [log |-> d.log, size |-> d.size, hash |-> d.hash, items |-> d.items, slot |-> d.slot]
  BY DEF TableOK, Put
<1>2. /\ d.slot[p] = k /\ \A q \in DOMAIN c.slot : q # p => d.slot[q] = c.slot[q]
      /\ d.slot \in [Slots(c.size) -> Keys \cup {Free}]
  BY <1>1 DEF TableOK
<1>3. TableOK(d)
  BY <1>1, <1>2 DEF TableOK
<1>4. Used(d) = Used(c) \cup {p} /\ p \notin Used(c)
  BY <1>1, <1>2, CuckooAssumption DEF Used
<1>5. Elements(d) = Elements(c) \cup {k}
  BY <1>1, <1>2, CuckooAssumption DEF Elements
<1>6. Counted(d)
  <2>0. IsFiniteSet(Used(c)) /\ IsFiniteSet(Elements(c))
    BY DEF Counted
  <2>1. IsFiniteSet(Used(d)) /\ Cardinality(Used(d)) = Cardinality(Used(c)) + 1
    BY <1>4, <2>0, OneMore
  <2>2. IsFiniteSet(Elements(d)) /\ Cardinality(Elements(d)) = Cardinality(Elements(c)) + 1
    BY <1>5, <2>0, OneMore
  <2>3. /\ c.items \in Nat /\ c.size \in Nat /\ c.items = Cardinality(Used(c)) /\ c.items = Cardinality(Elements(c))
        /\ d.items = c.items + 1 /\ d.size = c.size
    BY <1>1 DEF Counted, TableOK
  <2>4. d.items \in Nat /\ d.items < d.size
    BY <2>3
  <2> QED BY <2>1, <2>2, <2>3, <2>4 DEF Counted
<1>7. \A q \in DOMAIN c.slot : c.slot[q] # k
  BY CuckooAssumption DEF Elements
<1>8. InPlace(d)
  BY <1>1, <1>2, <1>7 DEF InPlace, Index
<1> QED BY <1>1, <1>3, <1>5, <1>6, <1>8

LEMMA PutOver ==
  ASSUME NEW c, TableOK(c), InPlace(c), Counted(c), NEW k \in Keys, k \notin Elements(c),
         NEW p \in DOMAIN c.slot, p[2] = Index(c, p[1], k), c.slot[p] # Free,
         NEW d, d = [c EXCEPT !.slot[p] = k]
  PROVE  /\ TableOK(d) /\ InPlace(d) /\ Counted(d) /\ d.size = c.size /\ d.items = c.items
         /\ Elements(d) = (Elements(c) \ {c.slot[p]}) \cup {k}
         /\ c.slot[p] \in Keys /\ c.slot[p] \in Elements(c) /\ c.slot[p] \notin Elements(d)
<1>1. /\ d.log = c.log /\ d.size = c.size /\ d.hash = c.hash /\ d.items = c.items
      /\ d.slot = [c.slot EXCEPT ![p] = k] /\ DOMAIN d.slot = DOMAIN c.slot
      /\ d = [log |-> d.log, size |-> d.size, hash |-> d.hash, items |-> d.items, slot |-> d.slot]
  BY DEF TableOK
<1>2. /\ d.slot[p] = k /\ \A q \in DOMAIN c.slot : q # p => d.slot[q] = c.slot[q]
      /\ d.slot \in [Slots(c.size) -> Keys \cup {Free}]
  BY <1>1 DEF TableOK
<1>3. TableOK(d)
  BY <1>1, <1>2 DEF TableOK
<1>4. Used(d) = Used(c)
  BY <1>1, <1>2, CuckooAssumption DEF Used
<1>5. /\ c.slot[p] \in Keys /\ c.slot[p] \in Elements(c)
      /\ \A q \in DOMAIN c.slot : q # p => c.slot[q] # c.slot[p]
      /\ \A q \in DOMAIN c.slot : c.slot[q] # k
  BY CuckooAssumption DEF TableOK, InPlace, Elements
<1>6. Elements(d) = (Elements(c) \ {c.slot[p]}) \cup {k} /\ k \notin Elements(c) /\ c.slot[p] # k
  BY <1>1, <1>2, <1>5, CuckooAssumption DEF Elements
<1>7. /\ IsFiniteSet(Elements(c) \ {c.slot[p]})
      /\ Cardinality(Elements(c) \ {c.slot[p]}) = Cardinality(Elements(c)) - 1
  BY <1>5, FS_RemoveElement DEF Counted
<1>8. Counted(d)
  <2> DEFINE E == Elements(c) \ {c.slot[p]}
  <2>1. k \notin E /\ Elements(d) = E \cup {k} /\ IsFiniteSet(E)
    BY <1>6, <1>7
  <2>2. IsFiniteSet(Elements(d)) /\ Cardinality(Elements(d)) = Cardinality(E) + 1
    <3> HIDE DEF E
    <3> QED BY <2>1, FS_AddElement
  <2>3. Cardinality(Elements(d)) = Cardinality(Elements(c))
    BY <1>7, <2>2 DEF Counted
  <2> QED BY <1>1, <1>4, <2>2, <2>3 DEF Counted
<1>9. InPlace(d)
  BY <1>1, <1>2, <1>5 DEF InPlace, Index
<1> QED BY <1>1, <1>3, <1>5, <1>6, <1>8, <1>9

LEMMA TakeOut ==
  ASSUME NEW c, TableOK(c), InPlace(c), Counted(c), NEW k \in Keys, Present(c, k),
         NEW d, d = Removed(c, k)
  PROVE  /\ TableOK(d) /\ InPlace(d) /\ Counted(d) /\ d.size = c.size /\ d.log = c.log
         /\ Elements(d) = Elements(c) \ {k}
<1>1. PICK t \in {1, 2} : c.slot[<<t, Index(c, t, k)>>] = k
  BY DEF Present
<1> DEFINE p == <<t, Index(c, t, k)>>
<1>2. p \in DOMAIN c.slot /\ c.slot[p] = k /\ p[1] = t /\ p[2] = Index(c, t, k) /\ k # Free
  BY <1>1, IndexType, CuckooAssumption
<1> HIDE DEF p
<1>3. \A q \in DOMAIN c.slot : q # p => c.slot[q] # k
  BY <1>2 DEF InPlace
<1>4. d = [c EXCEPT !.slot = [q \in DOMAIN c.slot |->
             IF q[2] = Index(c, q[1], k) /\ c.slot[q] = k THEN Free ELSE c.slot[q]], !.items = c.items - 1]
  BY DEF Removed, TableOK
<1>5. /\ d.log = c.log /\ d.size = c.size /\ d.hash = c.hash /\ d.items = c.items - 1
      /\ DOMAIN d.slot = DOMAIN c.slot
      /\ \A q \in DOMAIN c.slot :
           d.slot[q] = IF q[2] = Index(c, q[1], k) /\ c.slot[q] = k THEN Free ELSE c.slot[q]
      /\ d.slot = [q \in DOMAIN c.slot |-> d.slot[q]]
      /\ d = [log |-> d.log, size |-> d.size, hash |-> d.hash, items |-> d.items, slot |-> d.slot]
  <2> DEFINE sl == [q \in DOMAIN c.slot |->
                     IF q[2] = Index(c, q[1], k) /\ c.slot[q] = k THEN Free ELSE c.slot[q]]
  <2>1. DOMAIN sl = DOMAIN c.slot /\ sl = [q \in DOMAIN c.slot |-> sl[q]]
    OBVIOUS
  <2>2. d = [c EXCEPT !.slot = sl, !.items = c.items - 1]
    BY <1>4
  <2>3. \A q \in DOMAIN c.slot : sl[q] = IF q[2] = Index(c, q[1], k) /\ c.slot[q] = k THEN Free ELSE c.slot[q]
    OBVIOUS
  <2> HIDE DEF sl
  <2>4. /\ d.log = c.log /\ d.size = c.size /\ d.hash = c.hash /\ d.items = c.items - 1 /\ d.slot = sl
        /\ d = [log |-> d.log, size |-> d.size, hash |-> d.hash, items |-> d.items, slot |-> d.slot]
    BY <2>2 DEF TableOK
  <2> QED BY <2>1, <2>3, <2>4
<1>6. d.slot[p] = Free /\ \A q \in DOMAIN c.slot : q # p => d.slot[q] = c.slot[q]
  BY <1>2, <1>3, <1>5
<1>7. TableOK(d)
  BY <1>5, <1>6 DEF TableOK
<1>8. Used(d) = Used(c) \ {p} /\ p \in Used(c)
  BY <1>2, <1>5, <1>6 DEF Used
<1>9. Elements(d) = Elements(c) \ {k} /\ k \in Elements(c)
  <2>1. \A q \in DOMAIN c.slot : q # p => d.slot[q] = c.slot[q] /\ c.slot[q] # k
    BY <1>3, <1>6
  <2>2. p \in DOMAIN c.slot /\ d.slot[p] = Free /\ c.slot[p] = k /\ k # Free /\ DOMAIN d.slot = DOMAIN c.slot
    BY <1>2, <1>5, <1>6
  <2> QED BY <2>1, <2>2 DEF Elements
<1>10. Counted(d)
  <2>0. /\ IsFiniteSet(Used(c)) /\ IsFiniteSet(Elements(c)) /\ c.items < c.size /\ c.items \in Nat
        /\ c.items = Cardinality(Used(c)) /\ c.items = Cardinality(Elements(c)) /\ c.size \in Nat
    BY DEF Counted, TableOK
  <2>1. IsFiniteSet(Used(d)) /\ Cardinality(Used(d)) = c.items - 1 /\ Cardinality(Used(d)) \in Nat
    BY <1>8, <2>0, OneLess
  <2>2. IsFiniteSet(Elements(d)) /\ Cardinality(Elements(d)) = c.items - 1
    BY <1>9, <2>0, OneLess
  <2>3. d.items = c.items - 1 /\ d.size = c.size
    BY <1>5
  <2> QED BY <2>0, <2>1, <2>2, <2>3 DEF Counted
<1>11. InPlace(d)
  <2>1. \A q \in DOMAIN d.slot : d.slot[q] # Free => q \in DOMAIN c.slot /\ d.slot[q] = c.slot[q]
    BY <1>5, <1>6
  <2>2. DOMAIN d.slot = DOMAIN c.slot /\ d.hash = c.hash /\ d.size = c.size
    BY <1>5
  <2>3. \A q \in DOMAIN c.slot : d.slot[q] = c.slot[q] \/ d.slot[q] = Free
    BY <1>6
  <2> QED BY <2>1, <2>2, <2>3 DEF InPlace, Index
<1> QED BY <1>5, <1>7, <1>9, <1>10, <1>11

LEMMA AllVisited ==
  ASSUME NEW c, TableOK(c)
  PROVE  /\ MovedSet(c, 2 * c.size) = Elements(c)
         /\ \A n \in 0..(2 * c.size) : MovedSet(c, n) \subseteq Elements(c)
         /\ \A n \in 0..(2 * c.size - 1) :
              /\ Visited(c, n) \in Elements(c) \cup {Free}
              /\ MovedSet(c, n + 1) = (MovedSet(c, n) \cup {Visited(c, n)}) \ {Free}
<1>1. ASSUME NEW n \in 0..(2 * c.size - 1)
      PROVE  <<(n % 2) + 1, n \div 2>> \in DOMAIN c.slot
  BY <1>1 DEF TableOK, Slots
<1>2. ASSUME NEW p \in DOMAIN c.slot
      PROVE  \E n \in 0..(2 * c.size - 1) : p = <<(n % 2) + 1, n \div 2>>
  <2>1. p[1] \in {1, 2} /\ p[2] \in 0..(c.size - 1) /\ p = <<p[1], p[2]>> /\ c.size \in Nat
    BY DEF TableOK, Slots
  <2> DEFINE n == 2 * p[2] + p[1] - 1
  <2>2. n \in 0..(2 * c.size - 1) /\ n % 2 = p[1] - 1 /\ n \div 2 = p[2]
    BY <2>1
  <2> QED BY <2>1, <2>2
<1>3. \A n \in 0..(2 * c.size - 1) : Visited(c, n) \in Elements(c) \cup {Free}
  BY <1>1 DEF Visited, Elements
<1>4. Elements(c) \subseteq MovedSet(c, 2 * c.size)
  BY <1>2 DEF Elements, MovedSet, Visited
<1>5. \A n \in 0..(2 * c.size) : MovedSet(c, n) \subseteq Elements(c)
  BY <1>3 DEF MovedSet, TableOK
<1>6. \A n \in 0..(2 * c.size - 1) : MovedSet(c, n + 1) = (MovedSet(c, n) \cup {Visited(c, n)}) \ {Free}
  BY DEF MovedSet, TableOK
<1>7. 2 * c.size \in 0..(2 * c.size)
  BY DEF TableOK
<1> QED BY <1>3, <1>4, <1>5, <1>6, <1>7

LEMMA VisitedOnce ==
  ASSUME NEW c, TableOK(c), InPlace(c), NEW n \in 0..(2 * c.size - 1), NEW m \in 0..(n - 1), Visited(c, n) # Free
  PROVE  Visited(c, m) # Visited(c, n)
<1> DEFINE a == (m % 2) + 1
           b == m \div 2
           d == (n % 2) + 1
           e == n \div 2
<1>1. c.size \in Nat \ {0} /\ c.slot \in [Slots(c.size) -> Keys \cup {Free}]
  BY DEF TableOK
<1>2. m \in Nat /\ n \in Nat /\ m # n
  BY <1>1
<1>3. a # d \/ b # e
  BY <1>2
<1>4. a \in {1, 2} /\ b \in 0..(c.size - 1) /\ d \in {1, 2} /\ e \in 0..(c.size - 1)
  BY <1>1, <1>2
<1>5. Visited(c, m) = c.slot[<<a, b>>] /\ Visited(c, n) = c.slot[<<d, e>>]
  BY DEF Visited
<1> HIDE DEF a, b, d, e
<1>6. <<a, b>> # <<d, e>>
  BY <1>3
<1>7. <<a, b>> \in DOMAIN c.slot /\ <<d, e>> \in DOMAIN c.slot
  BY <1>1, <1>4 DEF Slots
<1> QED BY <1>5, <1>6, <1>7 DEF InPlace
-----------------------------------------------------------------------------
(* The invariant after a step that changes the top of the stack, puts a    *)
(* new table on it, finishes a move, or gives up.                          *)
LEMMA TopChanged ==
  ASSUME IInv, NEW x, Becomes(x), LevelOK(x), x.state # "grow",
         Len(levels) > 1 => Link(levels[Len(levels) - 1], x) /\ adding' = adding,
         Len(levels) = 1 => FirstOK(x, adding'),
         adding' \in Keys \cup {Free}, short' \in BOOLEAN
  PROVE  /\ IInv' /\ Len(levels') = Len(levels)
         /\ Len(levels) = 1 => levels'[1] = x
         /\ Len(levels) > 1 => levels'[1] = levels[1]
<1>1. /\ IsSequence(levels') /\ Len(levels') = Len(levels) /\ levels'[Len(levels)] = x
      /\ \A i \in 1..(Len(levels) - 1) : levels'[i] = levels[i]
  <2>1. levels' = WithTop(levels, x)
    BY DEF Becomes, WithTop
  <2> QED BY <2>1, SetTop DEF IInv
<1>2. Len(levels) \in Nat /\ Len(levels) > 0
  BY DEF IInv, IsSequence
<1>3. \A i \in 1..Len(levels') : LevelOK(levels'[i])
  BY <1>1, <1>2 DEF IInv
<1>4. \A i \in 2..Len(levels') :
        Link(levels'[i - 1], levels'[i]) /\ (levels'[i - 1].state = "idle" => i = 2)
  BY <1>1, <1>2 DEF IInv
<1>5. FirstOK(levels'[1], adding')
  BY <1>1, <1>2 DEF IInv
<1> QED BY <1>1, <1>2, <1>3, <1>4, <1>5 DEF IInv, Top

Pushes(x, new) == levels' = Append([levels EXCEPT ![Len(levels)] = x], new)
LEMMA Pushed ==
  ASSUME IInv, NEW x, NEW y, Pushes(x, y),
         LevelOK(x), LevelOK(y), y.state # "grow", Link(x, y),
         Len(levels) > 1 => Link(levels[Len(levels) - 1], x) /\ x.state # "idle",
         Len(levels) = 1 => FirstOK(x, adding),
         adding' = adding, short' \in BOOLEAN
  PROVE  /\ IInv'
         /\ Len(levels) = 1 => levels'[1] = x
         /\ Len(levels) > 1 => levels'[1] = levels[1]
<1>2. Len(levels) \in Nat /\ Len(levels) > 0
  BY DEF IInv, IsSequence
<1>4. /\ IsSequence(levels') /\ Len(levels') = Len(levels) + 1 /\ levels'[Len(levels) + 1] = y
      /\ levels'[Len(levels)] = x
      /\ \A i \in 1..(Len(levels) - 1) : levels'[i] = levels[i]
  <2>1. levels' = WithTwo(levels, x, y)
    BY DEF Pushes, WithTwo
  <2> QED BY <2>1, PushTwo DEF IInv
<1>5. \A i \in 1..Len(levels') : LevelOK(levels'[i])
  BY <1>4, <1>2 DEF IInv
<1>6. \A i \in 2..Len(levels') :
        Link(levels'[i - 1], levels'[i]) /\ (levels'[i - 1].state = "idle" => i = 2)
  BY <1>4, <1>2 DEF IInv
<1>7. FirstOK(levels'[1], adding)
  <2>1. CASE Len(levels) = 1
    BY <1>4, <2>1
  <2>2. CASE Len(levels) > 1
    <3>1. levels'[1] = levels[1]
      BY <1>4, <1>2, <2>2
    <3> QED BY <3>1 DEF IInv
  <2>3. Len(levels) = 1 \/ Len(levels) > 1
    <3>1. \A n \in Nat : n > 0 => n = 1 \/ n > 1
      OBVIOUS
    <3> QED BY <1>2, <3>1, Zenon
  <2> QED BY <2>1, <2>2, <2>3
<1> QED BY <1>2, <1>4, <1>5, <1>6, <1>7 DEF IInv, Top

Pops(x) == levels' = Append(SubSeq(levels, 1, Len(levels) - 2), x)
LEMMA Popped ==
  ASSUME IInv, Len(levels) > 1, NEW x, Pops(x),
         LevelOK(x), x.state # "grow",
         Len(levels) > 2 => Link(levels[Len(levels) - 2], x),
         Len(levels) = 2 => FirstOK(x, adding),
         adding' = adding, short' \in BOOLEAN
  PROVE  /\ IInv'
         /\ Len(levels) = 2 => levels'[1] = x
         /\ Len(levels) > 2 => levels'[1] = levels[1]
<1>1. /\ IsSequence(levels') /\ Len(levels') = Len(levels) - 1 /\ levels'[Len(levels) - 1] = x
      /\ \A i \in 1..(Len(levels) - 2) : levels'[i] = levels[i]
  <2>1. levels' = Merged(levels, x)
    BY DEF Pops, Merged
  <2> QED BY <2>1, PopTwo DEF IInv
<1>2. Len(levels) \in Nat
  BY DEF IInv, IsSequence
<1>3. \A i \in 1..Len(levels') : LevelOK(levels'[i])
  <2> TAKE i \in 1..Len(levels')
  <2>1. CASE i = Len(levels) - 1
    BY <1>1, <2>1
  <2>2. CASE i \in 1..(Len(levels) - 2)
    <3>1. levels'[i] = levels[i] /\ i \in 1..Len(levels)
      BY <1>1, <1>2, <2>2
    <3> QED BY <3>1 DEF IInv
  <2> QED BY <1>1, <1>2, <2>1, <2>2
<1>4. \A i \in 2..Len(levels') :
        Link(levels'[i - 1], levels'[i]) /\ (levels'[i - 1].state = "idle" => i = 2)
  <2> TAKE i \in 2..Len(levels')
  <2>1. /\ i \in 2..Len(levels) /\ i - 1 \in 1..Len(levels) /\ levels'[i - 1] = levels[i - 1]
        /\ i \in 1..(Len(levels) - 1)
    BY <1>1, <1>2
  <2>2. Link(levels[i - 1], levels[i]) /\ (levels[i - 1].state = "idle" => i = 2)
    BY <2>1 DEF IInv
  <2>3. CASE i = Len(levels) - 1
    BY <1>1, <1>2, <2>1, <2>2, <2>3
  <2>4. CASE i \in 1..(Len(levels) - 2)
    BY <1>1, <2>1, <2>2, <2>4
  <2> QED BY <1>2, <2>1, <2>3, <2>4
<1>5. FirstOK(levels'[1], adding)
  BY <1>1, <1>2 DEF IInv
<1>6. Top'.state # "grow" /\ adding' \in Keys \cup {Free} /\ Len(levels') > 0
  BY <1>1, <1>2 DEF IInv, Top
<1> QED BY <1>1, <1>2, <1>3, <1>4, <1>5, <1>6 DEF IInv

LEMMA IdleOK ==
  ASSUME NEW c, TableOK(c), InPlace(c), Counted(c), NEW moved \in Nat
  PROVE  LevelOK(Idle(c, moved))
  BY DEF LevelOK, Idle

LEMMA Unwound ==
  ASSUME IInv, Unwind, short' \in BOOLEAN
  PROVE  IInv' /\ levels'[1].ctx = levels[1].ctx /\ levels'[1].hand = Free /\ adding' = Free
<1> DEFINE x == Idle(levels[1].ctx, 0)
<1>1. levels' = <<x>> /\ adding' = Free
  BY DEF Unwind
<1>2. LevelOK(x) /\ x.hand = Free /\ x.state = "idle" /\ x.ctx = levels[1].ctx
  <2>1. LevelOK(levels[1])
    BY DEF IInv, IsSequence
  <2> QED BY <2>1, IdleOK DEF LevelOK, Idle
<1> HIDE DEF x
<1>3. IsSequence(levels') /\ Len(levels') = 1 /\ levels'[1] = x
  <2>1. <<x>> \in Seq({x}) /\ Len(<<x>>) = 1 /\ <<x>>[1] = x
    OBVIOUS
  <2> QED BY <1>1, <2>1, AnySequence
<1>4. IInv'
  BY <1>1, <1>2, <1>3 DEF IInv, Top, FirstOK
<1> QED BY <1>1, <1>2, <1>3, <1>4

LEMMA Stack ==
  ASSUME IInv
  PROVE  /\ Len(levels) = 1 \/ Len(levels) > 1
         /\ Len(levels) > 1 => Len(levels) # 1
         /\ LevelOK(Top) /\ Top.state # "grow"
         /\ Len(levels) = 1 => Top = levels[1] /\ FirstOK(Top, adding)
         /\ Len(levels) > 1 => LevelOK(Old) /\ Link(Old, Top) /\ Old = levels[Len(levels) - 1]
         /\ LevelOK(levels[1]) /\ FirstOK(levels[1], adding)
<1>1. Len(levels) \in Nat /\ Len(levels) > 0
  BY DEF IInv, IsSequence
<1>2. \A n \in Nat : n > 0 =>
        /\ n = 1 \/ n > 1
        /\ n > 1 => n # 1
        /\ n \in 1..n /\ 1 \in 1..n
        /\ n > 1 => n \in 2..n /\ n - 1 \in 1..n
  OBVIOUS
<1>3. /\ Len(levels) = 1 \/ Len(levels) > 1
      /\ Len(levels) > 1 => Len(levels) # 1
      /\ Len(levels) \in 1..Len(levels) /\ 1 \in 1..Len(levels)
      /\ Len(levels) > 1 => Len(levels) \in 2..Len(levels) /\ Len(levels) - 1 \in 1..Len(levels)
  BY <1>1, <1>2, Zenon
<1> QED BY <1>3 DEF IInv, Top, Old

Level(c, state, hand, tries, moved) ==
  [ctx |-> c, state |-> state, hand |-> hand, tries |-> tries, moved |-> moved]

LEMMA LevelFields ==
  ASSUME NEW c, NEW state, NEW hand, NEW tries, NEW moved
  PROVE  LET l == Level(c, state, hand, tries, moved) IN
         l.ctx = c /\ l.state = state /\ l.hand = hand /\ l.tries = tries /\ l.moved = moved
  BY DEF Level

(* What EXCEPT makes of a level.                                           *)
LEMMA SetState ==
  ASSUME NEW l, LevelOK(l), NEW state
  PROVE  [l EXCEPT !.state = state] = Level(l.ctx, state, l.hand, l.tries, l.moved)
<1>1. ASSUME NEW x, x = [l EXCEPT !.state = state]
      PROVE  x = Level(l.ctx, state, l.hand, l.tries, l.moved)
  <2>1. /\ x.ctx = l.ctx /\ x.state = state /\ x.hand = l.hand /\ x.tries = l.tries /\ x.moved = l.moved
        /\ x = [ctx |-> x.ctx, state |-> x.state, hand |-> x.hand, tries |-> x.tries, moved |-> x.moved]
    BY <1>1 DEF LevelOK
  <2> QED BY <2>1 DEF Level
<1> QED BY <1>1

LEMMA SetHand ==
  ASSUME NEW l, LevelOK(l), NEW state, NEW hand
  PROVE  [l EXCEPT !.state = state, !.hand = hand] = Level(l.ctx, state, hand, l.tries, l.moved)
<1>1. ASSUME NEW x, x = [l EXCEPT !.state = state, !.hand = hand]
      PROVE  x = Level(l.ctx, state, hand, l.tries, l.moved)
  <2>1. /\ x.ctx = l.ctx /\ x.state = state /\ x.hand = hand /\ x.tries = l.tries /\ x.moved = l.moved
        /\ x = [ctx |-> x.ctx, state |-> x.state, hand |-> x.hand, tries |-> x.tries, moved |-> x.moved]
    BY <1>1 DEF LevelOK
  <2> QED BY <2>1 DEF Level
<1> QED BY <1>1

Moves(l, hand, moved) == [l EXCEPT !.state = "check", !.hand = hand, !.moved = moved]
LEMMA SetMoved ==
  ASSUME NEW l, LevelOK(l), NEW hand, NEW moved
  PROVE  Moves(l, hand, moved) = Level(l.ctx, "check", hand, l.tries, moved)
<1>1. ASSUME NEW x, x = Moves(l, hand, moved)
      PROVE  x = Level(l.ctx, "check", hand, l.tries, moved)
  <2>1. /\ x.ctx = l.ctx /\ x.state = "check" /\ x.hand = hand /\ x.tries = l.tries /\ x.moved = moved
        /\ x = [ctx |-> x.ctx, state |-> x.state, hand |-> x.hand, tries |-> x.tries, moved |-> x.moved]
    BY <1>1 DEF LevelOK, Moves
  <2> QED BY <2>1 DEF Level
<1> QED BY <1>1

LEMMA SetTries ==
  ASSUME NEW l, LevelOK(l), NEW state, NEW tries
  PROVE  [l EXCEPT !.state = state, !.tries = tries] = Level(l.ctx, state, l.hand, tries, l.moved)
<1>1. ASSUME NEW x, x = [l EXCEPT !.state = state, !.tries = tries]
      PROVE  x = Level(l.ctx, state, l.hand, tries, l.moved)
  <2>1. /\ x.ctx = l.ctx /\ x.state = state /\ x.hand = l.hand /\ x.tries = tries /\ x.moved = l.moved
        /\ x = [ctx |-> x.ctx, state |-> x.state, hand |-> x.hand, tries |-> x.tries, moved |-> x.moved]
    BY <1>1 DEF LevelOK
  <2> QED BY <2>1 DEF Level
<1> QED BY <1>1

LEMMA SetTable ==
  ASSUME NEW l, LevelOK(l), NEW c
  PROVE  [l EXCEPT !.ctx = c] = Level(c, l.state, l.hand, l.tries, l.moved)
<1>1. ASSUME NEW x, x = [l EXCEPT !.ctx = c]
      PROVE  x = Level(c, l.state, l.hand, l.tries, l.moved)
  <2>1. /\ x.ctx = c /\ x.state = l.state /\ x.hand = l.hand /\ x.tries = l.tries /\ x.moved = l.moved
        /\ x = [ctx |-> x.ctx, state |-> x.state, hand |-> x.hand, tries |-> x.tries, moved |-> x.moved]
    BY <1>1 DEF LevelOK
  <2> QED BY <2>1 DEF Level
<1> QED BY <1>1

LEMMA LevelForm ==
  ASSUME NEW c, TableOK(c), InPlace(c), Counted(c),
         NEW state \in {"check", "loop", "grow"}, NEW hand \in Keys, NEW tries \in Nat, NEW moved \in Nat,
         state # "check" => hand \notin Elements(c),
         state = "loop" => c.items < c.size - 1
  PROVE  LevelOK(Level(c, state, hand, tries, moved))
  BY CuckooAssumption DEF LevelOK, Level

LEMMA SameContent ==
  ASSUME levels'[1].ctx = levels[1].ctx, levels'[1].hand = levels[1].hand, adding' = adding
  PROVE  Content' = Content
  BY DEF Content

LEMMA SameFirst ==
  ASSUME levels'[1] = levels[1], adding' = adding
  PROVE  Content' = Content
  BY DEF Content
-----------------------------------------------------------------------------
(* All that is moved fits into the table it is moved to, and is new to it, *)
(* so that an insertion cuckoo_move calls neither grows nor refuses.       *)
LEMMA MovedFits ==
  ASSUME IInv, Len(levels) > 1, Top.state = "check"
  PROVE  Top.hand \notin Elements(Top.ctx) /\ Top.ctx.items < Top.ctx.size - 1
<1>1. LevelOK(Top) /\ LevelOK(Old) /\ Link(Old, Top)
  BY Stack
<1> DEFINE E == Elements(Top.ctx)
           F == Elements(Old.ctx)
<1>2. Top.hand \in Keys /\ Top.hand \notin E /\ Free \notin E
  BY <1>1 DEF Link, LevelOK, Elements
<1>3. E \cup {Top.hand} \subseteq F
  BY <1>1, <1>2, AllVisited, CuckooAssumption DEF Link, LevelOK
<1>4. /\ IsFiniteSet(E) /\ IsFiniteSet(F) /\ Top.ctx.items = Cardinality(E) /\ Old.ctx.items = Cardinality(F)
      /\ Top.ctx.items \in Nat /\ Old.ctx.items \in Nat /\ Top.ctx.size \in Nat
  BY <1>1 DEF LevelOK, Counted, TableOK
<1>5. Old.ctx.items < Top.ctx.size
  BY <1>1, <1>4 DEF Link
<1> HIDE DEF E, F
<1>6. Cardinality(E \cup {Top.hand}) = Cardinality(E) + 1
  BY <1>2, <1>4, OneMore
<1>7. Cardinality(E \cup {Top.hand}) <= Cardinality(F)
  BY <1>3, <1>4, FS_Subset
<1> QED BY <1>2, <1>4, <1>5, <1>6, <1>7 DEF E

LEMMA InsertStep ==
  ASSUME IInv, NEW k \in Keys, Insert(k)
  PROVE  IInv' /\ Content' = Content
<1> DEFINE x == [Top EXCEPT !.state = "check", !.hand = k]
<1>1. Len(levels) = 1 /\ Top.state = "idle" /\ short' = FALSE /\ adding' = k /\ Becomes(x)
  BY DEF Insert
<1>2. Top = levels[1] /\ LevelOK(Top)
  BY <1>1, Stack
<1>3. x = Level(Top.ctx, "check", k, Top.tries, Top.moved)
  BY <1>2, SetHand
<1> HIDE DEF x
<1>4. LevelOK(x)
  BY <1>2, <1>3, LevelForm DEF LevelOK
<1>5. FirstOK(x, adding') /\ x.ctx = Top.ctx /\ x.hand = k /\ x.state = "check"
  BY <1>1, <1>3, LevelFields DEF FirstOK
<1>6. IInv' /\ levels'[1] = x
  <2>1. ~(Len(levels) > 1)
    BY <1>1
  <2>2. short' \in BOOLEAN /\ adding' \in Keys \cup {Free} /\ x.state # "grow"
    BY <1>1, <1>5
  <2> QED BY <1>1, <1>4, <1>5, <2>1, <2>2, TopChanged
<1>7. levels[1].hand = Free /\ adding = Free
  BY <1>1, <1>2, Stack DEF LevelOK, FirstOK
<1>8. Content = Elements(Top.ctx) /\ Content' = Elements(Top.ctx)
  BY <1>1, <1>2, <1>5, <1>6, <1>7 DEF Content
<1> QED BY <1>6, <1>8

LEMMA RefuseStep ==
  ASSUME IInv, Refuse
  PROVE  IInv' /\ Content' = Content
<1>1. Top.state = "check" /\ Present(Top.ctx, Top.hand) /\ Unwind /\ short' = short
  BY DEF Refuse
<1>2. LevelOK(Top) /\ Top.hand \in Keys
  BY <1>1, Stack DEF LevelOK
<1>3. Top.hand \in Elements(Top.ctx)
  BY <1>1, <1>2, PresentElement DEF LevelOK
<1>4. Len(levels) = 1 /\ Top = levels[1] /\ FirstOK(Top, adding)
  BY <1>1, <1>3, MovedFits, Stack
<1>5. levels[1].hand = adding
  BY <1>3, <1>4 DEF FirstOK
<1>6. IInv' /\ levels'[1].ctx = levels[1].ctx /\ levels'[1].hand = Free /\ adding' = Free
  BY <1>1, Unwound DEF IInv
<1> QED BY <1>5, <1>6 DEF Content

LEMMA NoMemoryStep ==
  ASSUME IInv, NoMemory
  PROVE  /\ IInv' /\ short' = TRUE /\ MayFail
         /\ \/ Content' = Content
            \/ /\ adding \in Keys /\ adding \notin Content
               /\ \E lost \in Content : Content' = (Content \cup {adding}) \ {lost}
<1>1. Unwind /\ short' = TRUE /\ MayFail
  BY DEF NoMemory
<1>2. IInv' /\ levels'[1].ctx = levels[1].ctx /\ levels'[1].hand = Free /\ adding' = Free
  BY <1>1, Unwound
<1> DEFINE E == Elements(levels[1].ctx)
           h == levels[1].hand
<1>3. Content' = E
  BY <1>2 DEF Content
<1>4. CASE h = adding
  <2>1. Content = E
    BY <1>4 DEF Content
  <2> QED BY <1>1, <1>2, <1>3, <2>1
<1>5. CASE h # adding
  <2>1. h \notin E /\ adding \in E /\ adding \in Keys /\ Content = (E \cup {h}) \ {adding}
    BY <1>5, Stack DEF FirstOK, IInv, Content
  <2>2. h \in Content /\ E = (Content \cup {adding}) \ {h}
    BY <1>5, <2>1
  <2> QED BY <1>1, <1>2, <1>3, <2>1, <2>2
<1> QED BY <1>4, <1>5

LEMMA GrowStep ==
  ASSUME IInv, Grow
  PROVE  IInv' /\ Content' = Content
<1>1. /\ Top.state = "check" /\ ~Present(Top.ctx, Top.hand) /\ ~Room(Top.ctx)
      /\ Rehash(Top, "grow", Top.ctx.log + 1, 2 * Top.ctx.size) /\ short' = short
  BY DEF Grow, Full
<1>2. LevelOK(Top) /\ Top.hand \in Keys
  BY <1>1, Stack DEF LevelOK
<1>3. /\ TableOK(Top.ctx) /\ InPlace(Top.ctx) /\ Counted(Top.ctx) /\ Top.tries \in Nat /\ Top.moved \in Nat
      /\ Top.ctx.log \in Nat /\ Top.ctx.size \in Nat \ {0} /\ Top.ctx.items \in Nat
      /\ Top.ctx.items < Top.ctx.size /\ IsShift(Top.ctx.log, Top.ctx.size)
  BY <1>2 DEF LevelOK, TableOK, Counted
<1>4. Len(levels) = 1 /\ Top = levels[1] /\ FirstOK(Top, adding)
  <2>1. ~(Len(levels) > 1)
    BY <1>1, <1>3, MovedFits DEF Room
  <2> QED BY <2>1, Stack
<1>5. Top.hand \notin Elements(Top.ctx)
  BY <1>1, <1>2, <1>3, PresentElement
<1> DEFINE x == [Top EXCEPT !.state = "grow"]
<1>6. x = Level(Top.ctx, "grow", Top.hand, Top.tries, Top.moved)
  BY <1>2, SetState
<1>7. PICK h \in Hashes : Pushes(x, Idle(Alloc(Top.ctx.log + 1, 2 * Top.ctx.size, h), 0)) /\ adding' = adding
  BY <1>1 DEF Rehash, Pushes
<1> DEFINE c == Alloc(Top.ctx.log + 1, 2 * Top.ctx.size, h)
           y == Idle(c, 0)
<1> HIDE DEF x
<1>8. LevelOK(x) /\ x.ctx = Top.ctx /\ x.hand = Top.hand /\ x.state = "grow"
  BY <1>2, <1>3, <1>5, <1>6, LevelForm, LevelFields
<1>9. TableOK(c) /\ InPlace(c) /\ Counted(c) /\ Elements(c) = {} /\ c.size = 2 * Top.ctx.size
  BY <1>3, Shift, NewTable
<1> HIDE DEF c
<1>10. LevelOK(y) /\ y.ctx = c /\ y.hand = Free /\ y.state = "idle" /\ y.moved = 0
  BY <1>9, IdleOK DEF Idle
<1> HIDE DEF y
<1>11. Link(x, y)
  <2>1. MovedSet(x.ctx, 0) = {}
    BY DEF MovedSet
  <2>2. 0 \in 0..(2 * Top.ctx.size) /\ Top.ctx.items < 2 * Top.ctx.size - 1
    BY <1>3
  <2> QED BY <1>8, <1>9, <1>10, <2>1, <2>2 DEF Link
<1>12. FirstOK(x, adding)
  BY <1>4, <1>8 DEF FirstOK
<1>13. IInv' /\ levels'[1] = x
  <2>1. ~(Len(levels) > 1)
    BY <1>4
  <2>2. short' \in BOOLEAN
    BY <1>1 DEF IInv
  <2>3. Pushes(x, y) /\ adding' = adding
    BY <1>7 DEF c, y
  <2> QED BY <1>4, <1>8, <1>10, <1>11, <1>12, <2>1, <2>2, <2>3, Pushed
<1> QED BY <1>4, <1>7, <1>8, <1>13, SameContent

(* A change of the top that leaves the table and what is in hand.          *)
LEMMA SameLink ==
  ASSUME NEW a, NEW x, NEW y, Link(a, x), y.ctx.size = x.ctx.size, y.moved = x.moved, y.state # "grow",
         Elements(y.ctx) \cup {y.hand, Free} = Elements(x.ctx) \cup {x.hand, Free},
         Free \notin Elements(x.ctx), Free \notin Elements(y.ctx),
         y.hand \notin Elements(y.ctx)
  PROVE  Link(a, y)
<1>1. (Elements(y.ctx) \cup {y.hand}) \ {Free} = (Elements(x.ctx) \cup {x.hand}) \ {Free}
  OBVIOUS
<1> QED BY <1>1 DEF Link

LEMMA EnoughStep ==
  ASSUME IInv, Enough
  PROVE  IInv' /\ Content' = Content
<1> DEFINE x == Begin(Top)
<1>1. /\ Top.state = "check" /\ ~Present(Top.ctx, Top.hand) /\ Room(Top.ctx)
      /\ Becomes(x) /\ adding' = adding /\ short' = short
  BY DEF Enough
<1>2. LevelOK(Top) /\ Top.hand \in Keys
  BY <1>1, Stack DEF LevelOK
<1>3. /\ TableOK(Top.ctx) /\ InPlace(Top.ctx) /\ Counted(Top.ctx) /\ Top.moved \in Nat
      /\ Top.ctx.items < Top.ctx.size - 1
  BY <1>1, <1>2 DEF LevelOK, TableOK, Counted, Room
<1>4. Top.hand \notin Elements(Top.ctx) /\ Free \notin Elements(Top.ctx)
  BY <1>1, <1>2, <1>3, PresentElement DEF Elements
<1>5. x = Level(Top.ctx, "loop", Top.hand, 0, Top.moved)
  BY <1>2, SetTries DEF Begin
<1> HIDE DEF x
<1>6. /\ LevelOK(x) /\ x.ctx = Top.ctx /\ x.hand = Top.hand /\ x.state = "loop" /\ x.moved = Top.moved
  BY <1>2, <1>3, <1>4, <1>5, LevelForm, LevelFields
<1>7. Len(levels) > 1 => Link(levels[Len(levels) - 1], x) /\ adding' = adding
  BY <1>1, <1>4, <1>6, SameLink, Stack
<1>8. Len(levels) = 1 => FirstOK(x, adding')
  BY <1>1, <1>6, Stack DEF FirstOK
<1>9. adding' \in Keys \cup {Free} /\ short' \in BOOLEAN
  BY <1>1 DEF IInv
<1>10. /\ IInv'
       /\ Len(levels) = 1 => levels'[1] = x
       /\ Len(levels) > 1 => levels'[1] = levels[1]
  BY <1>1, <1>6, <1>7, <1>8, <1>9, TopChanged
<1>11. CASE Len(levels) = 1
  BY <1>1, <1>6, <1>10, <1>11, Stack, SameContent
<1>12. CASE Len(levels) > 1
  BY <1>1, <1>10, <1>12, SameFirst
<1> QED BY <1>11, <1>12, Stack

(* The slot an element in hand is tried in.                                *)
LEMMA AimType ==
  ASSUME IInv, Top.state = "loop"
  PROVE  /\ LevelOK(Top) /\ Top.hand \in Keys /\ Top.hand \notin Elements(Top.ctx)
         /\ Free \notin Elements(Top.ctx)
         /\ TableOK(Top.ctx) /\ InPlace(Top.ctx) /\ Counted(Top.ctx) /\ Top.ctx.items < Top.ctx.size - 1
         /\ Top.tries \in Nat /\ Top.moved \in Nat
         /\ Aim(Top) \in DOMAIN Top.ctx.slot /\ Aim(Top)[2] = Index(Top.ctx, Aim(Top)[1], Top.hand)
<1>1. LevelOK(Top) /\ Top.hand \in Keys
  BY Stack DEF LevelOK
<1>2. /\ Top.hand \notin Elements(Top.ctx) /\ Free \notin Elements(Top.ctx)
      /\ TableOK(Top.ctx) /\ InPlace(Top.ctx) /\ Counted(Top.ctx) /\ Top.ctx.items < Top.ctx.size - 1
      /\ Top.tries \in Nat /\ Top.moved \in Nat
  BY <1>1 DEF LevelOK, Elements
<1> DEFINE t == (Top.tries % 2) + 1
<1>3. t \in {1, 2}
  BY <1>2
<1> HIDE DEF t
<1>4. Aim(Top) = <<t, Index(Top.ctx, t, Top.hand)>>
  BY DEF Aim, t
<1>5. Aim(Top) \in DOMAIN Top.ctx.slot
  BY <1>1, <1>2, <1>3, <1>4, IndexType
<1>6. Aim(Top)[1] = t /\ Aim(Top)[2] = Index(Top.ctx, t, Top.hand)
  BY <1>4
<1> QED BY <1>1, <1>2, <1>5, <1>6

LEMMA PlaceStep ==
  ASSUME IInv, Place
  PROVE  /\ IInv' /\ short' = short
         /\ \/ Content' = Content
            \/ adding \in Keys /\ adding \notin Content /\ Content' = Content \cup {adding}
<1> DEFINE c == Top.ctx
           p == Aim(Top)
           d == Put(c, p, Top.hand)
           x == Idle(d, Top.moved)
<1>1. /\ Top.state = "loop" /\ c.slot[p] = Free /\ Becomes(x) /\ short' = short
      /\ adding' = IF Len(levels) = 1 THEN Free ELSE adding
  BY DEF Place, Trying, Put
<1>2. /\ Top.hand \in Keys /\ Top.hand \notin Elements(c) /\ Free \notin Elements(c)
      /\ TableOK(c) /\ InPlace(c) /\ Counted(c) /\ c.items < c.size - 1
      /\ Top.moved \in Nat /\ p \in DOMAIN c.slot /\ p[2] = Index(c, p[1], Top.hand)
  BY <1>1, AimType
<1>3. TableOK(d) /\ InPlace(d) /\ Counted(d) /\ Elements(d) = Elements(c) \cup {Top.hand} /\ d.size = c.size
  <2> HIDE DEF p, c
  <2> QED BY <1>1, <1>2, PutFree
<1> HIDE DEF d
<1>4. LevelOK(x) /\ x.ctx = d /\ x.hand = Free /\ x.state = "idle" /\ x.moved = Top.moved
  BY <1>2, <1>3, IdleOK DEF Idle
<1> HIDE DEF x
<1>5. Free \notin Elements(d)
  BY DEF Elements
<1>6. Len(levels) > 1 => Link(levels[Len(levels) - 1], x) /\ adding' = adding
  <2>1. Len(levels) > 1 => Len(levels) # 1
    BY Stack
  <2>2. Elements(x.ctx) \cup {x.hand, Free} = Elements(Top.ctx) \cup {Top.hand, Free}
    BY <1>3, <1>4
  <2> QED BY <1>1, <1>2, <1>3, <1>4, <1>5, <2>1, <2>2, SameLink, Stack
<1>7. Len(levels) = 1 => FirstOK(x, adding')
  BY <1>1, <1>4 DEF FirstOK
<1>8. adding' \in Keys \cup {Free} /\ short' \in BOOLEAN
  BY <1>1 DEF IInv
<1>9. /\ IInv'
      /\ Len(levels) = 1 => levels'[1] = x
      /\ Len(levels) > 1 => levels'[1] = levels[1]
  BY <1>1, <1>4, <1>6, <1>7, <1>8, TopChanged
<1>10. CASE Len(levels) = 1
  <2>1. Content' = Elements(c) \cup {Top.hand} /\ adding' = Free
    BY <1>1, <1>3, <1>4, <1>9, <1>10 DEF Content
  <2>2. Top = levels[1] /\ FirstOK(Top, adding) /\ adding \in Keys \cup {Free}
    BY <1>10, Stack DEF IInv
  <2>3. adding \in Keys
    BY <1>2, <2>2, CuckooAssumption DEF FirstOK
  <2>4. CASE Top.hand = adding
    <3>1. Content = Elements(c)
      BY <2>2, <2>4 DEF Content
    <3> QED BY <1>1, <1>2, <1>9, <2>1, <2>3, <2>4, <3>1
  <2>5. CASE Top.hand # adding
    <3>1. Content = (Elements(c) \cup {Top.hand}) \ {adding} /\ adding \in Elements(c)
      BY <2>2, <2>5 DEF Content, FirstOK
    <3> QED BY <1>1, <1>9, <2>1, <2>3, <3>1
  <2> QED BY <2>4, <2>5
<1>11. CASE Len(levels) > 1
  BY <1>1, <1>6, <1>9, <1>11, SameFirst
<1> QED BY <1>10, <1>11, Stack

LEMMA DisplaceStep ==
  ASSUME IInv, Displace
  PROVE  IInv' /\ Content' = Content
<1> DEFINE c == Top.ctx
           p == Aim(Top)
           d == [c EXCEPT !.slot[p] = Top.hand]
           out == c.slot[p]
<1>1. PICK x : /\ x = [Top EXCEPT !.ctx.slot[p] = Top.hand, !.hand = out, !.tries = @ + 1]
               /\ Becomes(x)
  BY DEF Displace
<1>2. Top.state = "loop" /\ out # Free /\ short' = short /\ adding' = adding
  BY DEF Displace, Trying
<1>3. /\ Top.hand \in Keys /\ Top.hand \notin Elements(c) /\ Free \notin Elements(c)
      /\ TableOK(c) /\ InPlace(c) /\ Counted(c) /\ c.items < c.size - 1 /\ LevelOK(Top)
      /\ Top.moved \in Nat /\ Top.tries \in Nat /\ p \in DOMAIN c.slot /\ p[2] = Index(c, p[1], Top.hand)
  BY <1>2, AimType
<1>4. x = Level(d, "loop", out, Top.tries + 1, Top.moved)
  <2>1. /\ x.ctx = d /\ x.state = "loop" /\ x.hand = out /\ x.tries = Top.tries + 1 /\ x.moved = Top.moved
        /\ x = [ctx |-> x.ctx, state |-> x.state, hand |-> x.hand, tries |-> x.tries, moved |-> x.moved]
    BY <1>1, <1>2, <1>3 DEF LevelOK
  <2> QED BY <2>1 DEF Level
<1>5. /\ TableOK(d) /\ InPlace(d) /\ Counted(d) /\ d.size = c.size /\ d.items = c.items
      /\ Elements(d) = (Elements(c) \ {out}) \cup {Top.hand}
      /\ out \in Keys /\ out \in Elements(c) /\ out \notin Elements(d)
  <2> DEFINE h == Top.hand
  <2>1. h \in Keys
    BY <1>3
  <2> HIDE DEF p, h, c
  <2> QED BY <1>2, <1>3, <2>1, PutOver DEF h
<1> HIDE DEF d
<1>6. /\ LevelOK(x) /\ x.ctx = d /\ x.hand = out /\ x.state = "loop" /\ x.moved = Top.moved
  <2>1. Top.tries + 1 \in Nat /\ d.items < d.size - 1
    BY <1>3, <1>5
  <2> DEFINE tries == Top.tries + 1
  <2>2. x = Level(d, "loop", out, tries, Top.moved) /\ tries \in Nat
    BY <1>4, <2>1
  <2> HIDE DEF tries, out
  <2>3. LevelOK(x)
    BY <1>3, <1>5, <2>1, <2>2, LevelForm
  <2> QED BY <2>2, <2>3, LevelFields
<1>7. Free \notin Elements(d)
  BY DEF Elements
<1> HIDE DEF out
<1>8. Len(levels) > 1 => Link(levels[Len(levels) - 1], x) /\ adding' = adding
  <2>1. Elements(x.ctx) \cup {x.hand, Free} = Elements(Top.ctx) \cup {Top.hand, Free}
    BY <1>5, <1>6
  <2> QED BY <1>2, <1>3, <1>5, <1>6, <1>7, <2>1, SameLink, Stack
<1>9. Len(levels) = 1 => FirstOK(x, adding')
  BY <1>2, <1>3, <1>5, <1>6, CuckooAssumption, Stack DEF FirstOK
<1>10. adding' \in Keys \cup {Free} /\ short' \in BOOLEAN
  BY <1>2 DEF IInv
<1>11. /\ IInv'
       /\ Len(levels) = 1 => levels'[1] = x
       /\ Len(levels) > 1 => levels'[1] = levels[1]
  BY <1>1, <1>6, <1>8, <1>9, <1>10, TopChanged
<1>12. CASE Len(levels) = 1
  <2>1. /\ Content' = IF out = adding THEN Elements(d) ELSE (Elements(d) \cup {out}) \ {adding}
        /\ Content = IF Top.hand = adding THEN Elements(c) ELSE (Elements(c) \cup {Top.hand}) \ {adding}
        /\ FirstOK(Top, adding)
    BY <1>2, <1>6, <1>11, <1>12, Stack DEF Content
  <2>2. Content' = Content
    BY <1>3, <1>5, <2>1 DEF FirstOK
  <2> QED BY <1>11, <2>2
<1>13. CASE Len(levels) > 1
  BY <1>2, <1>11, <1>13, SameFirst
<1> QED BY <1>12, <1>13, Stack

LEMMA ExhaustedStep ==
  ASSUME IInv, Exhausted
  PROVE  IInv' /\ Content' = Content
<1> DEFINE x == [Top EXCEPT !.state = "check"]
<1>1. /\ Top.state = "loop" /\ Rehash(Top, "check", Top.ctx.log, Top.ctx.size) /\ short' = short
  BY DEF Exhausted, GivingUp
<1>2. /\ LevelOK(Top) /\ Top.hand \in Keys /\ Top.hand \notin Elements(Top.ctx)
      /\ Free \notin Elements(Top.ctx) /\ TableOK(Top.ctx) /\ InPlace(Top.ctx) /\ Counted(Top.ctx)
      /\ Top.ctx.items < Top.ctx.size - 1 /\ Top.tries \in Nat /\ Top.moved \in Nat
  BY <1>1, AimType
<1>3. /\ Top.ctx.log \in Nat /\ Top.ctx.size \in Nat \ {0} /\ IsShift(Top.ctx.log, Top.ctx.size)
      /\ Top.ctx.items \in Nat /\ Top.ctx.items < Top.ctx.size
  BY <1>2 DEF TableOK, Counted
<1>4. x = Level(Top.ctx, "check", Top.hand, Top.tries, Top.moved)
  BY <1>2, SetState
<1>5. PICK h \in Hashes : Pushes(x, Idle(Alloc(Top.ctx.log, Top.ctx.size, h), 0)) /\ adding' = adding
  BY <1>1 DEF Rehash, Pushes
<1> DEFINE c == Alloc(Top.ctx.log, Top.ctx.size, h)
           y == Idle(c, 0)
<1> HIDE DEF x
<1>6. /\ LevelOK(x) /\ x.ctx = Top.ctx /\ x.hand = Top.hand /\ x.state = "check" /\ x.moved = Top.moved
  BY <1>2, <1>4, LevelForm, LevelFields
<1>7. TableOK(c) /\ InPlace(c) /\ Counted(c) /\ Elements(c) = {} /\ c.size = Top.ctx.size
  BY <1>3, NewTable
<1> HIDE DEF c
<1>8. LevelOK(y) /\ y.ctx = c /\ y.hand = Free /\ y.state = "idle" /\ y.moved = 0
  BY <1>7, IdleOK DEF Idle
<1> HIDE DEF y
<1>9. Link(x, y)
  <2>1. MovedSet(x.ctx, 0) = {}
    BY DEF MovedSet
  <2>2. 0 \in 0..(2 * Top.ctx.size)
    BY <1>3
  <2> QED BY <1>2, <1>3, <1>6, <1>7, <1>8, <2>1, <2>2 DEF Link
<1>10. Len(levels) = 1 => FirstOK(x, adding)
  BY <1>6, Stack DEF FirstOK
<1>11. Len(levels) > 1 => Link(levels[Len(levels) - 1], x) /\ x.state # "idle"
  BY <1>2, <1>6, SameLink, Stack
<1>12. /\ IInv'
       /\ Len(levels) = 1 => levels'[1] = x
       /\ Len(levels) > 1 => levels'[1] = levels[1]
  <2>1. short' \in BOOLEAN
    BY <1>1 DEF IInv
  <2>2. Pushes(x, y) /\ adding' = adding
    BY <1>5 DEF c, y
  <2> QED BY <1>6, <1>8, <1>9, <1>10, <1>11, <2>1, <2>2, Pushed
<1>13. CASE Len(levels) = 1
  BY <1>5, <1>6, <1>12, <1>13, Stack, SameContent
<1>14. CASE Len(levels) > 1
  BY <1>5, <1>12, <1>14, SameFirst
<1> QED BY <1>13, <1>14, Stack

LEMMA MoveStep ==
  ASSUME IInv, Move
  PROVE  IInv' /\ Content' = Content
<1>1. Len(levels) > 1 /\ Top.state = "idle" /\ adding' = adding /\ short' = short
  BY DEF Move, Moving
<1>2. PICK n \in Left :
        /\ \A m \in Left : n <= m
        /\ Becomes(Moves(Top, Visited(Old.ctx, n), n + 1))
  BY DEF Move, Moves
<1> DEFINE v == Visited(Old.ctx, n)
           x == Moves(Top, v, n + 1)
           c == Old.ctx
<1>3. LevelOK(Top) /\ LevelOK(Old) /\ Link(Old, Top) /\ Old = levels[Len(levels) - 1]
  BY <1>1, Stack
<1>4. /\ TableOK(c) /\ InPlace(c) /\ c.size \in Nat \ {0}
      /\ Top.hand = Free /\ Top.tries \in Nat /\ Top.moved \in Nat /\ Top.moved \in 0..(2 * c.size)
      /\ TableOK(Top.ctx) /\ InPlace(Top.ctx) /\ Counted(Top.ctx) /\ Free \notin Elements(Top.ctx)
  BY <1>1, <1>3 DEF LevelOK, Link, TableOK, Elements
<1>5. /\ n \in Top.moved..(2 * c.size - 1) /\ v # Free
      /\ \A m \in Top.moved..(n - 1) : Visited(c, m) = Free
  BY <1>2, <1>4 DEF Left
<1>6. n \in 0..(2 * c.size - 1) /\ n + 1 \in 0..(2 * c.size) /\ n + 1 \in Nat
  BY <1>4, <1>5
<1>7. v \in Elements(c) /\ v \in Keys
  <2>1. v \in Elements(c)
    BY <1>4, <1>5, <1>6, AllVisited
  <2>2. Elements(c) \subseteq Keys
    BY <1>4 DEF TableOK, Elements
  <2> QED BY <2>1, <2>2
<1>8. MovedSet(c, n) = MovedSet(c, Top.moved)
  <2>1. \A m \in 0..(n - 1) : m \in 0..(Top.moved - 1) \/ m \in Top.moved..(n - 1)
    BY <1>4, <1>6
  <2>2. \A m \in 0..(Top.moved - 1) : m \in 0..(n - 1)
    BY <1>4, <1>5
  <2> QED BY <1>5, <2>1, <2>2 DEF MovedSet
<1>9. Elements(Top.ctx) = MovedSet(c, n)
  BY <1>3, <1>4, <1>8 DEF Link
<1>10. MovedSet(c, n + 1) = Elements(Top.ctx) \cup {v}
  BY <1>4, <1>5, <1>6, <1>9, AllVisited
<1>11. v \notin Elements(Top.ctx)
  <2>1. ASSUME NEW m \in 0..(n - 1) PROVE Visited(c, m) # v
    BY <1>4, <1>5, <1>6, VisitedOnce
  <2> QED BY <1>9, <2>1 DEF MovedSet
<1>12. x = Level(Top.ctx, "check", v, Top.tries, n + 1)
  BY <1>3, SetMoved
<1> HIDE DEF v, c
<1>13. LevelOK(x) /\ x.ctx = Top.ctx /\ x.hand = v /\ x.state = "check" /\ x.moved = n + 1
  <2> DEFINE m == n + 1
  <2>1. x = Level(Top.ctx, "check", v, Top.tries, m) /\ m \in Nat
    BY <1>6, <1>12
  <2> HIDE DEF m, x
  <2>2. LevelOK(x)
    BY <1>4, <1>7, <2>1, LevelForm
  <2>3. x.ctx = Top.ctx /\ x.hand = v /\ x.state = "check" /\ x.moved = m
    BY <2>1, LevelFields
  <2> QED BY <2>2, <2>3 DEF m
<1>14. Becomes(x)
  BY <1>2 DEF v
<1> HIDE DEF x
<1>15. Link(Old, x)
  <2>1. MovedSet(Old.ctx, x.moved) = (Elements(x.ctx) \cup {x.hand}) \ {Free}
    BY <1>4, <1>5, <1>10, <1>13 DEF c
  <2>2. x.moved \in 0..(2 * Old.ctx.size) /\ x.hand \notin Elements(x.ctx) /\ x.state # "grow"
    BY <1>6, <1>11, <1>13 DEF c
  <2> QED BY <1>3, <1>13, <2>1, <2>2 DEF Link
<1>16. Len(levels) # 1 /\ adding' \in Keys \cup {Free} /\ short' \in BOOLEAN
  BY <1>1, Stack DEF IInv
<1>17. IInv' /\ levels'[1] = levels[1]
  BY <1>1, <1>3, <1>13, <1>14, <1>15, <1>16, TopChanged
<1> QED BY <1>1, <1>17, SameFirst

LEMMA MovedStep ==
  ASSUME IInv, Moved
  PROVE  IInv' /\ Content' = Content
<1> DEFINE back == [Old EXCEPT !.ctx = Top.ctx]
           x == IF Old.state = "grow" THEN Begin(back) ELSE back
<1>1. Len(levels) > 1 /\ Top.state = "idle" /\ Left = {} /\ Pops(x) /\ adding' = adding /\ short' = short
  BY DEF Moved, Moving, Adopt, Pops
<1>2. LevelOK(Top) /\ LevelOK(Old) /\ Link(Old, Top) /\ Old = levels[Len(levels) - 1]
  BY <1>1, Stack
<1>3. /\ TableOK(Old.ctx) /\ Counted(Old.ctx) /\ Old.ctx.size \in Nat \ {0} /\ Old.ctx.items \in Nat
      /\ Top.hand = Free /\ Top.moved \in 0..(2 * Old.ctx.size)
      /\ TableOK(Top.ctx) /\ InPlace(Top.ctx) /\ Counted(Top.ctx) /\ Free \notin Elements(Top.ctx)
      /\ Free \notin Elements(Old.ctx)
  BY <1>1, <1>2 DEF LevelOK, Link, TableOK, Counted, Elements
<1>4. Elements(Top.ctx) = Elements(Old.ctx)
  <2>1. MovedSet(Old.ctx, Top.moved) = Elements(Top.ctx)
    BY <1>2, <1>3 DEF Link
  <2>2. \A m \in Top.moved..(2 * Old.ctx.size - 1) : Visited(Old.ctx, m) = Free
    BY <1>1 DEF Left
  <2>3. /\ \A m \in 0..(2 * Old.ctx.size - 1) :
              m \in 0..(Top.moved - 1) \/ m \in Top.moved..(2 * Old.ctx.size - 1)
        /\ \A m \in 0..(Top.moved - 1) : m \in 0..(2 * Old.ctx.size - 1)
    BY <1>3
  <2>4. MovedSet(Old.ctx, 2 * Old.ctx.size) = MovedSet(Old.ctx, Top.moved)
    BY <2>2, <2>3 DEF MovedSet
  <2> QED BY <1>3, <2>1, <2>4, AllVisited
<1>5. Top.ctx.items = Old.ctx.items
  BY <1>3, <1>4 DEF Counted
<1>6. back = Level(Top.ctx, Old.state, Old.hand, Old.tries, Old.moved)
  BY <1>2, SetTable
<1> HIDE DEF back
<1>7. /\ back.ctx = Top.ctx /\ back.state = Old.state /\ back.hand = Old.hand
      /\ back.tries = Old.tries /\ back.moved = Old.moved
  BY <1>6, LevelFields
<1>8. LevelOK(back)
  <2>1. /\ Old.state \in {"idle", "check", "grow"} /\ Old.tries \in Nat /\ Old.moved \in Nat
        /\ Old.hand \in Keys \cup {Free} /\ (Old.state = "idle") = (Old.hand = Free)
        /\ Old.state = "grow" => Old.hand \notin Elements(Top.ctx)
    BY <1>2, <1>4 DEF LevelOK, Link
  <2>2. back = [ctx |-> back.ctx, state |-> back.state, hand |-> back.hand, tries |-> back.tries, moved |-> back.moved]
    BY <1>6 DEF Level
  <2> QED BY <1>3, <1>7, <2>1, <2>2 DEF LevelOK
<1>9. /\ LevelOK(x) /\ x.ctx = Top.ctx /\ x.hand = Old.hand /\ x.moved = Old.moved /\ x.state # "grow"
      /\ Old.state # "grow" => x.state = Old.state
  <2>1. CASE Old.state = "grow"
    <3>1. x = Level(back.ctx, "loop", back.hand, 0, back.moved)
      BY <1>8, <2>1, SetTries DEF Begin
    <3>2. back.hand \in Keys /\ back.hand \notin Elements(back.ctx) /\ back.moved \in Nat
      BY <1>7, <1>8, <2>1 DEF LevelOK
    <3>3. Top.ctx.items < Top.ctx.size - 1
      BY <1>2, <1>5, <2>1 DEF Link
    <3> HIDE DEF x
    <3>4. LevelOK(x)
      BY <1>3, <1>7, <3>1, <3>2, <3>3, LevelForm
    <3>5. x.ctx = back.ctx /\ x.hand = back.hand /\ x.moved = back.moved /\ x.state = "loop"
      BY <3>1, LevelFields
    <3> QED BY <1>7, <2>1, <3>4, <3>5
  <2>2. CASE Old.state # "grow"
    BY <1>7, <1>8, <2>2
  <2> QED BY <2>1, <2>2
<1> HIDE DEF x
<1>10. Len(levels) > 2 => Link(levels[Len(levels) - 2], x) /\ levels[Len(levels) - 1].state = "check"
  <2> SUFFICES ASSUME Len(levels) > 2
               PROVE  Link(levels[Len(levels) - 2], x) /\ levels[Len(levels) - 1].state = "check"
    OBVIOUS
  <2>1. Len(levels) \in Nat
    BY DEF IInv, IsSequence
  <2>2. \A k \in Nat : k > 2 => k - 1 \in 2..k /\ (k - 1) - 1 = k - 2 /\ k \in 2..k /\ k # 2
    OBVIOUS
  <2>3. /\ Len(levels) - 1 \in 2..Len(levels) /\ (Len(levels) - 1) - 1 = Len(levels) - 2
        /\ Len(levels) \in 2..Len(levels) /\ Len(levels) # 2
    BY <2>1, <2>2
  <2> DEFINE a == levels[Len(levels) - 2]
  <2>4. Link(a, Old) /\ Old.state # "idle"
    BY <1>2, <2>3 DEF IInv
  <2>5. Old.state = "check"
    BY <1>2, <2>4 DEF Link, LevelOK
  <2>6. Top.ctx.size = Old.ctx.size /\ Old.hand \notin Elements(Old.ctx)
    BY <1>2, <2>5 DEF Link
  <2>7. Elements(x.ctx) \cup {x.hand, Free} = Elements(Old.ctx) \cup {Old.hand, Free}
    BY <1>4, <1>9
  <2> HIDE DEF a
  <2>8. Link(a, x)
    BY <1>3, <1>4, <1>9, <2>4, <2>6, <2>7, SameLink
  <2> QED BY <1>2, <2>5, <2>8 DEF a
<1>11. /\ Len(levels) = 2 => levels[1] = Old
       /\ Len(levels) = 2 \/ Len(levels) > 2
  <2>1. Len(levels) \in Nat
    BY DEF IInv, IsSequence
  <2>2. \A k \in Nat : k > 1 => (k = 2 \/ k > 2) /\ (k = 2 => k - 1 = 1)
    OBVIOUS
  <2> QED BY <1>1, <1>2, <2>1, <2>2
<1>12. Len(levels) = 2 => FirstOK(x, adding)
  BY <1>4, <1>9, <1>11, Stack DEF FirstOK
<1>13. short' \in BOOLEAN
  BY <1>1 DEF IInv
<1>14. /\ IInv'
       /\ Len(levels) = 2 => levels'[1] = x
       /\ Len(levels) > 2 => levels'[1] = levels[1]
  BY <1>1, <1>9, <1>10, <1>12, <1>13, Popped
<1>15. CASE Len(levels) = 2
  <2>1. /\ levels[1] = Old /\ levels'[1] = x /\ IInv'
    BY <1>11, <1>14, <1>15
  <2>2. Content' = Content
    BY <1>1, <1>4, <1>9, <2>1 DEF Content
  <2> QED BY <2>1, <2>2
<1>16. CASE Len(levels) > 2
  BY <1>1, <1>14, <1>16, SameFirst
<1> QED BY <1>11, <1>15, <1>16

LEMMA DeleteStep ==
  ASSUME IInv, NEW k \in Keys, Delete(k)
  PROVE  /\ IInv' /\ short' \in {FALSE, MayFail}
         /\ k \in Content /\ Content' = Content \ {k}
<1> DEFINE c == Top.ctx
           d == Removed(c, k)
           rest == Idle(d, 0)
<1>1. /\ Len(levels) = 1 /\ Top.state = "idle" /\ Present(c, k)
      /\ \/ Becomes(rest) /\ adding' = adding /\ short' \in {FALSE, MayFail}
         \/ Sparse(d) /\ Rehash(rest, "idle", d.log - 1, d.size \div 2) /\ short' = FALSE
  BY DEF Delete, Idle
<1>2. Top = levels[1] /\ LevelOK(Top) /\ FirstOK(Top, adding)
  BY <1>1, Stack
<1>3. TableOK(c) /\ InPlace(c) /\ Counted(c) /\ Top.hand = Free /\ adding = Free
  BY <1>1, <1>2 DEF LevelOK, FirstOK
<1>4. /\ TableOK(d) /\ InPlace(d) /\ Counted(d) /\ d.size = c.size /\ d.log = c.log
      /\ Elements(d) = Elements(c) \ {k} /\ k \in Elements(c)
  BY <1>1, <1>3, TakeOut, PresentElement
<1> HIDE DEF d
<1>5. LevelOK(rest) /\ rest.ctx = d /\ rest.hand = Free /\ rest.state = "idle" /\ rest.moved = 0
  BY <1>4, IdleOK DEF Idle
<1> HIDE DEF rest
<1>6. FirstOK(rest, adding)
  BY <1>3, <1>5 DEF FirstOK
<1>7. short' \in BOOLEAN /\ short' \in {FALSE, MayFail}
  BY <1>1, CuckooAssumption
<1>8. ~(Len(levels) > 1)
  BY <1>1, Stack
<1>9. IInv' /\ levels'[1] = rest /\ adding' = adding
  <2>1. CASE Becomes(rest) /\ adding' = adding
    BY <1>1, <1>3, <1>5, <1>6, <1>7, <1>8, <2>1, TopChanged
  <2>2. CASE Sparse(d) /\ Rehash(rest, "idle", d.log - 1, d.size \div 2)
    <3>1. /\ d.log \in Nat /\ d.size \in Nat \ {0} /\ IsShift(d.log, d.size)
          /\ d.items \in Nat /\ d.items < d.size \div 2
      BY <1>4, <2>2 DEF TableOK, Counted, Sparse
    <3>2. d.log > 0
      <4>1. d.size # 1
        BY <3>1
      <4> QED BY <3>1, <4>1, Shift
    <3> DEFINE log == d.log - 1
               size == d.size \div 2
    <3>3. log \in Nat /\ size \in Nat \ {0} /\ IsShift(log, size)
      BY <3>1, <3>2, Shift
    <3>4. rest = [rest EXCEPT !.state = "idle"]
      <4>1. [rest EXCEPT !.state = "idle"] = Level(rest.ctx, "idle", rest.hand, rest.tries, rest.moved)
        BY <1>5, SetState
      <4>2. rest = Level(rest.ctx, "idle", rest.hand, rest.tries, rest.moved)
        BY <1>5 DEF LevelOK, Level
      <4> QED BY <4>1, <4>2
    <3>5. PICK h \in Hashes : Pushes(rest, Idle(Alloc(log, size, h), 0)) /\ adding' = adding
      BY <2>2, <3>4 DEF Rehash, Pushes
    <3> DEFINE e == Alloc(log, size, h)
               y == Idle(e, 0)
    <3> HIDE DEF log, size
    <3>6. TableOK(e) /\ InPlace(e) /\ Counted(e) /\ Elements(e) = {} /\ e.size = size
      BY <3>3, NewTable
    <3> HIDE DEF e
    <3>7. LevelOK(y) /\ y.ctx = e /\ y.hand = Free /\ y.state = "idle" /\ y.moved = 0
      BY <3>6, IdleOK DEF Idle
    <3> HIDE DEF y
    <3>8. Link(rest, y)
      <4>1. MovedSet(d, 0) = {}
        BY DEF MovedSet
      <4>2. 0 \in 0..(2 * d.size) /\ d.items < size
        BY <3>1 DEF size
      <4> QED BY <1>5, <3>6, <3>7, <4>1, <4>2 DEF Link
    <3>9. Pushes(rest, y)
      BY <3>5 DEF y, e
    <3> QED BY <1>1, <1>5, <1>6, <1>7, <1>8, <3>5, <3>7, <3>8, <3>9, Pushed
  <2> QED BY <1>1, <2>1, <2>2
<1>10. Content = Elements(c) /\ Content' = Elements(d)
  BY <1>2, <1>3, <1>5, <1>9 DEF Content
<1> QED BY <1>4, <1>7, <1>9, <1>10
-----------------------------------------------------------------------------
(* The invariant holds initially and every action of the code keeps it.    *)
LEMMA Inductive ==
  /\ Init => IInv
  /\ IInv /\ [Next]_vars => IInv'
<1>1. ASSUME Init PROVE IInv
  <2>1. PICK h \in Hashes : levels = <<Idle(Alloc(0, 1, h), 0)>>
    BY <1>1 DEF Init
  <2> DEFINE c == Alloc(0, 1, h)
             x == Idle(c, 0)
  <2>2. IsShift(0, 1)
    <3> DEFINE f == [i \in 0..0 |-> 1]
    <3>1. f \in [0..0 -> 1..1] /\ f[0] = 1 /\ \A i \in 0..(0 - 1) : f[i + 1] = 2 * f[i]
      OBVIOUS
    <3> HIDE DEF f
    <3> QED BY <3>1, Doublings
  <2>3. TableOK(c) /\ InPlace(c) /\ Counted(c)
    BY <2>2, NewTable
  <2> HIDE DEF c
  <2>4. LevelOK(x) /\ x.state = "idle" /\ x.hand = Free
    BY <2>3, IdleOK DEF Idle
  <2> HIDE DEF x
  <2>5. levels = <<x>>
    BY <2>1 DEF x, c
  <2>6. IsSequence(levels) /\ Len(levels) = 1 /\ levels[1] = x
    <3>1. <<x>> \in Seq({x}) /\ Len(<<x>>) = 1 /\ <<x>>[1] = x
      OBVIOUS
    <3> QED BY <2>5, <3>1, AnySequence
  <2>7. adding = Free /\ short = FALSE
    BY <1>1 DEF Init
  <2>8. Len(levels) > 0 /\ Top = x /\ 1..Len(levels) = {1} /\ 2..Len(levels) = {}
    BY <2>6 DEF Top
  <2>9. FirstOK(levels[1], adding)
    BY <2>4, <2>6, <2>7 DEF FirstOK
  <2>10. adding \in Keys \cup {Free} /\ short \in BOOLEAN
    BY <2>7
  <2> QED BY <2>4, <2>6, <2>8, <2>9, <2>10 DEF IInv
<1>2. ASSUME IInv, [Next]_vars PROVE IInv'
  <2>1. ASSUME NEW k \in Keys, Insert(k) PROVE IInv'
    BY <1>2, <2>1, InsertStep
  <2>2. ASSUME NEW k \in Keys, Delete(k) PROVE IInv'
    BY <1>2, <2>2, DeleteStep
  <2>3. CASE UNCHANGED vars
    BY <1>2, <2>3 DEF vars, IInv, Top
  <2> QED BY <1>2, <2>1, <2>2, <2>3, RefuseStep, GrowStep, EnoughStep, PlaceStep, DisplaceStep, ExhaustedStep,
             NoMemoryStep, MoveStep, MovedStep DEF Next
<1> QED BY <1>1, <1>2

(* INVARIANT: what TypeOK, FoundOnce, HalfEmpty and TableSpec follow from. *)
THEOREM Invariance == Spec => []IInv
<1>1. Init => IInv
  BY Inductive
<1>2. IInv /\ [Next]_vars => IInv'
  BY Inductive
<1> QED BY <1>1, <1>2, PTL DEF Spec

(* TYPE: the levels are well-formed, and a nested insertion never grows    *)
(* the table it fills (cuckoo_insert, scanners/libuguu/cuckoo.c:150).      *)
THEOREM TypeCorrect == Spec => []TypeOK
<1>1. IInv => TypeOK
  <2> SUFFICES ASSUME IInv PROVE TypeOK
    OBVIOUS
  <2>1. Len(levels) \in Nat /\ Len(levels) > 0 /\ DOMAIN levels = 1..Len(levels) /\ levels # <<>>
    BY LenProperties DEF IInv, IsSequence
  <2>2. ASSUME NEW i \in 1..Len(levels), levels[i].state = "grow"
        PROVE  i = 1 /\ Len(levels) > 1
    <3>1. i # Len(levels)
      BY <2>2, Stack DEF Top
    <3>2. i \in 2..Len(levels) => Link(levels[i - 1], levels[i])
      BY DEF IInv
    <3>3. i \notin 2..Len(levels)
      BY <2>2, <3>2 DEF Link
    <3>4. \A n \in Nat : i \in 1..n /\ i # n /\ i \notin 2..n => i = 1 /\ n > 1
      OBVIOUS
    <3> QED BY <2>1, <2>2, <3>1, <3>3, <3>4, Zenon
  <2>3. ASSUME NEW i \in 1..Len(levels)
        PROVE  LET l == levels[i] IN
               /\ l.ctx.slot \in [Slots(l.ctx.size) -> Keys \cup {Free}]
               /\ l.ctx.hash \in Hashes
               /\ l.hand \in Keys \cup {Free}
               /\ (l.state = "idle") = (l.hand = Free)
               /\ l.state \in {"idle", "check", "loop", "grow"}
    <3>1. LevelOK(levels[i])
      BY DEF IInv
    <3> QED BY <3>1 DEF LevelOK, TableOK
  <2> QED BY <2>1, <2>2, <2>3 DEF TypeOK, IInv
<1> QED BY <1>1, Invariance, PTL

(* SAFETY: an element is found in one slot only, on every table.           *)
THEOREM FoundInOneSlot == Spec => []FoundOnce
<1>1. IInv => FoundOnce
  <2> SUFFICES ASSUME IInv PROVE FoundOnce
    OBVIOUS
  <2>1. DOMAIN levels = 1..Len(levels)
    BY LenProperties DEF IInv, IsSequence
  <2>2. ASSUME NEW i \in 1..Len(levels) PROVE InPlace(levels[i].ctx)
    BY DEF IInv, LevelOK
  <2> QED BY <2>1, <2>2 DEF FoundOnce, InPlace
<1> QED BY <1>1, Invariance, PTL

(* SAFETY: between calls the count is right and half of the slots are free *)
(* (cuckoo_items; the shift in cuckoo_delete, cuckoo.c:195).               *)
THEOREM CountIsRight == Spec => []HalfEmpty
<1>1. IInv => HalfEmpty
  <2> SUFFICES ASSUME IInv PROVE HalfEmpty
    OBVIOUS
  <2>1. TableOK(Top.ctx) /\ Counted(Top.ctx)
    BY Stack DEF LevelOK
  <2>2. /\ Top.ctx.items = Cardinality(Used(Top.ctx)) /\ Top.ctx.items < Top.ctx.size /\ Top.ctx.items \in Nat
        /\ Top.ctx.log \in Nat /\ Top.ctx.size \in Nat \ {0} /\ IsShift(Top.ctx.log, Top.ctx.size)
    BY <2>1 DEF Counted, TableOK
  <2>3. Top.ctx.log = 0 => Top.ctx.items = 0
    <3>1. Top.ctx.log = 0 => Top.ctx.size = 1
      BY <2>2, Shift
    <3> QED BY <2>2, <3>1
  <2> QED BY <2>2, <2>3 DEF HalfEmpty, Used
<1> QED BY <1>1, Invariance, PTL

(* REFINEMENT: the table is a set of keys (cuckoo.h), from which only a    *)
(* call that runs out of memory loses one, for the one it refuses.         *)
THEOREM IsASet == Spec => TableSpec
<1>1. Init => T!Init
  <2> SUFFICES ASSUME Init PROVE T!Init
    OBVIOUS
  <2>1. PICK h \in Hashes : levels = <<Idle(Alloc(0, 1, h), 0)>>
    BY DEF Init
  <2>2. levels[1].ctx = Alloc(0, 1, h) /\ levels[1].hand = Free
    BY <2>1 DEF Idle
  <2>3. Elements(Alloc(0, 1, h)) = {}
    BY DEF Alloc, Elements
  <2> QED BY <2>2, <2>3 DEF Init, T!Init, Content
<1>2. IInv /\ [Next]_vars => [T!Next]_<<Content, short>>
  <2> SUFFICES ASSUME IInv, [Next]_vars PROVE [T!Next]_<<Content, short>>
    OBVIOUS
  <2>1. ASSUME NEW k \in Keys, Insert(k) PROVE T!Call
    BY <2>1, InsertStep DEF Insert, T!Call
  <2>2. ASSUME NEW k \in Keys, Delete(k) PROVE T!Remove(k)
    BY <2>2, DeleteStep DEF T!Remove
  <2>3. CASE NoMemory
    <3>1. CASE Content' = Content
      BY <2>3, <3>1, NoMemoryStep DEF T!Next, T!Fail
    <3>2. CASE /\ adding \in Keys /\ adding \notin Content
               /\ \E lost \in Content : Content' = (Content \cup {adding}) \ {lost}
      <4>1. T!Exchange(adding)
        BY <2>3, <3>2, NoMemoryStep DEF T!Exchange
      <4> QED BY <3>2, <4>1 DEF T!Next
    <3> QED BY <2>3, <3>1, <3>2, NoMemoryStep
  <2>4. CASE Place
    <3>1. CASE Content' = Content
      BY <2>4, <3>1, PlaceStep
    <3>2. CASE adding \in Keys /\ adding \notin Content /\ Content' = Content \cup {adding}
      <4>1. T!Add(adding)
        BY <2>4, <3>2, PlaceStep DEF T!Add
      <4> QED BY <3>2, <4>1 DEF T!Next
    <3> QED BY <2>4, <3>1, <3>2, PlaceStep
  <2>5. CASE Refuse \/ Grow \/ Enough \/ Displace \/ Exhausted \/ Move \/ Moved
    <3>1. Content' = Content
      BY <2>5, RefuseStep, GrowStep, EnoughStep, DisplaceStep, ExhaustedStep, MoveStep, MovedStep
    <3>2. short' = short
      BY <2>5 DEF Refuse, Grow, Enough, Displace, Exhausted, Move, Moved
    <3> QED BY <3>1, <3>2
  <2>6. CASE UNCHANGED vars
    BY <2>6 DEF vars, Content
  <2> QED BY <2>1, <2>2, <2>3, <2>4, <2>5, <2>6 DEF Next, T!Next
<1> QED BY <1>1, <1>2, Invariance, PTL DEF Spec, TableSpec, T!TableSpec
=============================================================================
