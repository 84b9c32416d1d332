------------------------------ MODULE RowsProofs ------------------------------
EXTENDS Pages, WellFoundedInduction, FiniteSetTheorems, SequenceTheorems, TLAPS

(* What the rows are when the lines D of the patch w from old to new have  *)
(* been applied and the directories P have been pushed.                    *)
Done(w, rest) == {w[i] : i \in 1..(Len(w) - Len(rest))}
WasDeleted(o, D) == Mark("-", o) \in D
WasAdded(n, D) == Mark("+", n) \in D
WasResized(o, n, D) == Told(o, n) \in D

NowSize(o, new, D) ==
  IF \E n \in Nodes(new) : Same(o, n) /\ WasResized(o, n, D)
  THEN (CHOOSE n \in Nodes(new) : Same(o, n) /\ WasResized(o, n, D)).size
  ELSE o.size
NowRow(o, new, D) == Row(o.pid, o.fid, o.dir, NowSize(o, new, D), o.name)

Staying(old, D, P, ids) == {o \in Nodes(old) : o.pid \in ids /\ o.pid \notin P /\ ~WasDeleted(o, D)}
Arrived(old, new, D, P) ==
  {n \in Nodes(new) : n.pid \in P \/ (n.pid # 0 /\ n.pid \notin Ids(old) /\ WasAdded(n, D))}
FilesRight(fs, fq, ids, old, new, D, P) ==
  /\ fs \cup fq = {NowRow(o, new, D) : o \in Staying(old, D, P, ids)}
                    \cup {RowOf(n) : n \in Arrived(old, new, D, P)}
  /\ \A r \in fq : r.pid \in ids \ Ids(old)

Waiting(old, new, D, P) == {n \in Nodes(new) : n.pid \in Ids(old) /\ n.pid \notin P /\ WasAdded(n, D)}
NewRight(nf, old, new, D, P) == nf = {RowOf(n) : n \in Waiting(old, new, D, P)}

PathIds(old, new, D) ==
  {l.id : l \in {k \in PathLines(old) : k.id \in Ids(new) \/ ~WasDeleted(k, D)}}
    \cup {l.id : l \in {k \in PathLines(new) : k.id \notin Ids(old) /\ WasAdded(k, D)}}
PathRowType == [path : Seq(Nat), parent : Nat, fid : Nat, items : Nat, size : Nat]
PathTypes(ps) == ps = [id \in DOMAIN ps |-> ps[id]] /\ \A id \in DOMAIN ps : ps[id] \in PathRowType
PathNames(ps, old, new) ==
  \A l \in PathLines(old) \cup PathLines(new) : l.id \in DOMAIN ps => ps[l.id].path = l.path
OldRow(row, o, n, D, P) ==
  /\ row.parent = n.pid
  /\ row.fid = IF n.pid \in P THEN n.fid ELSE o.fid
  /\ row.items = IF WasResized(o, n, D) THEN n.items ELSE o.items
  /\ row.size = IF WasResized(o, n, D) THEN n.size ELSE o.size
OldDirs(ps, old, new, D, P) ==
  \A o \in Nodes(old), n \in Nodes(new) : Same(o, n) /\ n.dir # 0 => OldRow(ps[n.dir], o, n, D, P)
NewRow(row, n) == row.parent = n.pid /\ row.fid = n.fid /\ row.items = n.items /\ row.size = n.size
NewDirs(ps, old, new, D) ==
  \A n \in Nodes(new) : n.dir # 0 /\ n.dir \notin Ids(old) /\ WasAdded(n, D) =>
    n.dir \in DOMAIN ps /\ NewRow(ps[n.dir], n)
PathsRight(ps, old, new, D, P) ==
  /\ DOMAIN ps = PathIds(old, new, D)
  /\ PathTypes(ps) /\ PathNames(ps, old, new)
  /\ OldDirs(ps, old, new, D, P) /\ NewDirs(ps, old, new, D)

Opened(d, D) == \E l \in D : l.kind = "path" /\ l.act # "-" /\ l.id = d
Ended(d, D) == \E l \in D : l.kind = "node" /\ l.act # "-" /\ l.dir = d
BufferRight(b, rest, w, D) ==
  /\ \A d \in DOMAIN b : Opened(d, D) /\ b[d] = (d \in Announced(w))
  /\ \A l \in D : l.kind = "path" /\ l.act # "-" =>
       l.id \in DOMAIN b \/ Ended(l.id, D) \/ (rest = <<>> /\ l.id \in Announced(w))
Pushed(b, w, D) == {p \in Announced(w) : p \notin DOMAIN b /\ Opened(p, D)}

StateRight(ps, fs, fq, nf, b, rest, old, new, w, D) ==
  /\ PathsRight(ps, old, new, D, Pushed(b, w, D))
  /\ FilesRight(fs, fq, DOMAIN ps, old, new, D, Pushed(b, w, D))
  /\ NewRight(nf, old, new, D, Pushed(b, w, D))
  /\ BufferRight(b, rest, w, D)

(* Of the patch w from old to new the lines before rest have been applied. *)
Suffix(rest, w) ==
  /\ rest \in Seq(LinesWith({"+", "-", "*"})) /\ Len(rest) <= Len(w)
  /\ \A i \in 1..Len(rest) : rest[i] = w[Len(w) - Len(rest) + i]
Applied(ps, fs, fq, nf, b, rest, old, new, w) ==
  Suffix(rest, w) /\ StateRight(ps, fs, fq, nf, b, rest, old, new, w, Done(w, rest))
Given(old, new, w) == Proper(old) /\ Proper(new) /\ IsPatch(w, old, new)

(* A full listing is a patch against nothing.                              *)
Old == IF mode = "load" THEN <<>> ELSE saved
What == IF mode = "load" THEN AsAdded(fresh) ELSE patch
Resting ==
  /\ paths = PathsOf(saved) /\ files = FilesOf(saved)
  /\ newfiles = {} /\ fquery = {} /\ buffer = <<>> /\ doc = <<>>
IInv ==
  /\ mode \in {"idle", "scanned", "full", "patch", "load"} /\ Proper(saved)
  /\ mode \in {"idle", "scanned", "full"} => Resting
  /\ mode # "idle" => Proper(fresh)
  /\ mode = "scanned" => IsPatch(patch, saved, fresh)
  /\ mode \in {"patch", "load"} =>
       /\ Given(Old, fresh, What)
       /\ Applied(paths, files, fquery, newfiles, buffer, doc, Old, fresh, What)

With(D, l) == D \cup {l}
Turn(w, D, l) ==
  /\ D \subseteq ToSet(w) /\ l \in ToSet(w) /\ l \notin D
  /\ \A k \in PathLines(w) : l.kind = "node" /\ k.act # "-" /\ k.id \in {l.pid, l.dir} => k \in D
  /\ \A m \in Nodes(w) : l.kind = "node" /\ l.pid # 0 /\ m.act # "-" /\ m.dir = l.pid => m \notin With(D, l)
  /\ \A m \in Nodes(w) : l.kind = "node" /\ l.act # "-" /\ m.pid # 0 /\ m.pid = l.dir => m \in D
RowsIn(rs, d) == {r \in rs : r.pid = d}
To(fs, nf, d) == [r \in RowsIn(fs, d) |-> Number(r, RowsIn(fs, d), {n.fid : n \in RowsIn(nf, d)})]
IsLine(old, new, w, l) ==
  \/ \E k \in PathLines(new) : k.id \notin Ids(old) /\ l = Mark("+", k)
  \/ \E k \in PathLines(old) : k.id \notin Ids(new) /\ l = Mark("-", k)
  \/ \E k \in PathLines(new) : k.id \in Announced(w) /\ l = Mark("*", k)
  \/ \E n \in Nodes(new) : (\A o \in Nodes(old) : ~Same(o, n)) /\ l = Mark("+", n)
  \/ \E o \in Nodes(old) : /\ o.pid \in Ids(new) /\ \A n \in Nodes(new) : ~Same(o, n)
                           /\ l = Mark("-", o)
  \/ \E o \in Nodes(old), n \in Nodes(new) :
       Same(o, n) /\ (o.size # n.size \/ o.items # n.items) /\ l = Told(o, n)

-----------------------------------------------------------------------------
LEMMA LinesOf ==
  ASSUME NEW S, NEW s \in Seq(S)
  PROVE  /\ ToSet(s) \subseteq S
         /\ \A l \in ToSet(s) : \E i \in 1..Len(s) : s[i] = l
         /\ \A i \in 1..Len(s) : s[i] \in ToSet(s)
  BY DEF ToSet

LEMMA ProperTypes ==
  ASSUME NEW s, Proper(s)
  PROVE  /\ Nodes(s) \subseteq NodesWith({""})
         /\ PathLines(s) \subseteq PathsWith({""})
         /\ Ids(s) \subseteq Nat \ {0}
<1>1. ToSet(s) \subseteq LinesWith({""})
  BY LinesOf DEF Proper
<1> QED
  BY <1>1 DEF Nodes, PathLines, Ids, LinesWith, NodesWith, PathsWith

LEMMA PatchTypes ==
  ASSUME NEW old, NEW new, NEW w, IsPatch(w, old, new)
  PROVE  /\ Nodes(w) \subseteq NodesWith({"+", "-", "*"})
         /\ PathLines(w) \subseteq PathsWith({"+", "-", "*"})
         /\ ToSet(w) = Nodes(w) \cup PathLines(w)
<1>1. ToSet(w) \subseteq LinesWith({"+", "-", "*"})
  BY LinesOf DEF IsPatch
<1> QED
  BY <1>1 DEF Nodes, PathLines, LinesWith, NodesWith, PathsWith

(* A directory has one path and one node; an entry is told by its name or  *)
(* by its number.                                                          *)
LEMMA Keys ==
  ASSUME NEW s, Proper(s)
  PROVE  /\ \A a, b \in PathLines(s) : a.id = b.id \/ a.path = b.path => a = b
         /\ \A a, b \in Nodes(s) : a.dir = b.dir /\ a.dir # 0 => a = b
         /\ \A a, b \in Nodes(s) : a.pid = b.pid /\ a.name = b.name /\ a.dir = b.dir => a = b
         /\ \A a, b \in Nodes(s) : a.pid = b.pid /\ a.fid = b.fid /\ a.pid # 0 => a = b
         /\ \A a \in Nodes(s) : a.pid = 0 => a.dir # 0 /\ a.fid = 0
         /\ \A a \in Nodes(s) : a.pid = 0 \/ a.pid \in Ids(s)
         /\ \A a \in Nodes(s) : a.dir = 0 \/ a.dir \in Ids(s)
         /\ \A id \in Ids(s) : /\ \E l \in PathLines(s) : l.id = id
                               /\ \E n \in Nodes(s) : n.dir = id
<1>1. \A a, b \in Nodes(s) :
        \/ a.dir = b.dir /\ a.dir # 0
        \/ a.pid = b.pid /\ a.pid # 0 /\ (a.fid = b.fid \/ (a.name = b.name /\ a.dir = b.dir))
        => a = b
  BY DEF Proper
<1>2. \A a \in Nodes(s) : a.pid = 0 => a.dir # 0 /\ a.fid = 0
  <2>1. \A a \in In(s, 0) : a.dir = 1 /\ a.fid = 0
    BY DEF Proper
  <2> QED
    BY <2>1 DEF In
<1>3. {n.dir : n \in Nodes(s)} \ {0} = Ids(s) /\ {n.pid : n \in Nodes(s)} \ {0} \subseteq Ids(s)
  BY DEF Proper
<1>4. \A a, b \in PathLines(s) : a.id = b.id \/ a.path = b.path => a = b
  BY DEF Proper
<1> HIDE DEF Proper
<1>5. \A a, b \in Nodes(s) : a.pid = b.pid /\ a.name = b.name /\ a.dir = b.dir => a = b
  BY <1>1, <1>2
<1>6. \A id \in Ids(s) : /\ \E l \in PathLines(s) : l.id = id
                         /\ \E n \in Nodes(s) : n.dir = id
  BY <1>3 DEF Ids
<1> QED
  BY <1>1, <1>2, <1>3, <1>4, <1>5, <1>6

-----------------------------------------------------------------------------
(* A line is made of its fields; marked lines of a listing can be told     *)
(* from one another.                                                       *)
LEMMA PathMark ==
  ASSUME NEW a \in PathsWith({""}), NEW act
  PROVE  /\ Mark(act, a).kind = "path" /\ Mark(act, a).act = act
         /\ Mark(act, a).id = a.id /\ Mark(act, a).path = a.path
  BY DEF PathsWith, Mark

LEMMA NodeMark ==
  ASSUME NEW a \in NodesWith({""}), NEW act
  PROVE  /\ Mark(act, a).kind = "node" /\ Mark(act, a).act = act
         /\ Mark(act, a).pid = a.pid /\ Mark(act, a).fid = a.fid /\ Mark(act, a).size = a.size
         /\ Mark(act, a).dir = a.dir /\ Mark(act, a).items = a.items /\ Mark(act, a).name = a.name
  BY DEF NodesWith, Mark

LEMMA ToldFields ==
  ASSUME NEW o, NEW n
  PROVE  /\ Told(o, n).kind = "node" /\ Told(o, n).act = "*"
         /\ Told(o, n).pid = n.pid /\ Told(o, n).fid = o.fid /\ Told(o, n).size = n.size
         /\ Told(o, n).dir = n.dir /\ Told(o, n).items = n.items /\ Told(o, n).name = n.name
  BY DEF Told

LEMMA SamePath ==
  ASSUME NEW a \in PathsWith({""}), NEW b \in PathsWith({""}), NEW c, NEW d,
         Mark(c, a) = Mark(d, b)
  PROVE  a = b /\ c = d
<1>3. Mark(c, a).act = c /\ Mark(c, a).id = a.id /\ Mark(c, a).path = a.path
  BY PathMark
<1>4. Mark(d, b).act = d /\ Mark(d, b).id = b.id /\ Mark(d, b).path = b.path
  BY PathMark
<1>1. c = d /\ a.id = b.id /\ a.path = b.path
  BY <1>3, <1>4
<1>2. /\ a = [kind |-> "path", act |-> "", id |-> a.id, path |-> a.path]
      /\ b = [kind |-> "path", act |-> "", id |-> b.id, path |-> b.path]
  BY DEF PathsWith
<1> QED
  BY <1>1, <1>2

LEMMA SameNode ==
  ASSUME NEW a \in NodesWith({""}), NEW b \in NodesWith({""}), NEW c, NEW d,
         Mark(c, a) = Mark(d, b)
  PROVE  a = b /\ c = d
<1>4. /\ Mark(c, a).act = c /\ Mark(c, a).pid = a.pid /\ Mark(c, a).fid = a.fid
      /\ Mark(c, a).size = a.size /\ Mark(c, a).dir = a.dir
      /\ Mark(c, a).items = a.items /\ Mark(c, a).name = a.name
  BY NodeMark
<1>5. /\ Mark(d, b).act = d /\ Mark(d, b).pid = b.pid /\ Mark(d, b).fid = b.fid
      /\ Mark(d, b).size = b.size /\ Mark(d, b).dir = b.dir
      /\ Mark(d, b).items = b.items /\ Mark(d, b).name = b.name
  BY NodeMark
<1>1. /\ a.pid = b.pid /\ a.fid = b.fid /\ a.size = b.size /\ a.dir = b.dir
      /\ a.items = b.items /\ a.name = b.name /\ c = d
  BY <1>4, <1>5
<1>2. a = [kind |-> "node", act |-> "", pid |-> a.pid, fid |-> a.fid, size |-> a.size,
           dir |-> a.dir, items |-> a.items, name |-> a.name]
  BY DEF NodesWith
<1>3. b = [kind |-> "node", act |-> "", pid |-> b.pid, fid |-> b.fid, size |-> b.size,
           dir |-> b.dir, items |-> b.items, name |-> b.name]
  BY DEF NodesWith
<1> QED
  BY <1>1, <1>2, <1>3

-----------------------------------------------------------------------------
(* What the lines of a patch are.                                          *)
LEMMA LineIs ==
  ASSUME NEW old, NEW new, NEW w, Given(old, new, w), NEW l \in ToSet(w)
  PROVE  IsLine(old, new, w, l)
<1>1. l \in Difference(old, new, Announced(w))
  BY DEF Given, IsPatch
<1>2. CASE l \in {Told(p[1], p[2]) :
                     p \in {q \in Nodes(old) \X Nodes(new) : Resizes(q)}}
  <2>1. PICK p \in Nodes(old) \X Nodes(new) : Resizes(p) /\ l = Told(p[1], p[2])
    BY <1>2
  <2> QED
    BY <2>1 DEF Resizes, IsLine
<1> QED
  BY <1>1, <1>2 DEF Difference, Marked, IsLine

LEMMA LineThere ==
  ASSUME NEW old, NEW new, NEW w, Given(old, new, w)
  PROVE  /\ \A k \in PathLines(new) : k.id \notin Ids(old) => Mark("+", k) \in ToSet(w)
         /\ \A k \in PathLines(old) : k.id \notin Ids(new) => Mark("-", k) \in ToSet(w)
         /\ \A k \in PathLines(new) : k.id \in Announced(w) => Mark("*", k) \in ToSet(w)
         /\ \A n \in Nodes(new) : (\A o \in Nodes(old) : ~Same(o, n)) => Mark("+", n) \in ToSet(w)
         /\ \A o \in Nodes(old) : (o.pid \in Ids(new) /\ \A n \in Nodes(new) : ~Same(o, n))
                                     => Mark("-", o) \in ToSet(w)
         /\ \A o \in Nodes(old), n \in Nodes(new) :
              (Same(o, n) /\ (o.size # n.size \/ o.items # n.items))
                => Told(o, n) \in ToSet(w)
<1>1. ToSet(w) = Difference(old, new, Announced(w))
  BY DEF Given, IsPatch
<1>2. ASSUME NEW o \in Nodes(old), NEW n \in Nodes(new),
             Same(o, n), o.size # n.size \/ o.items # n.items
      PROVE  Told(o, n) \in ToSet(w)
  <2>1. <<o, n>> \in {q \in Nodes(old) \X Nodes(new) : Resizes(q)}
    BY <1>2 DEF Resizes
  <2>2. Told(<<o, n>>[1], <<o, n>>[2]) \in
          {Told(p[1], p[2]) : p \in {q \in Nodes(old) \X Nodes(new) : Resizes(q)}}
    BY <2>1
  <2> QED
    BY <2>2, <1>1 DEF Difference
<1> QED
  BY <1>1, <1>2 DEF Difference, Marked

(* An entry has at most one counterpart in the other listing; a directory  *)
(* with an id of both listings has one.                                    *)
LEMMA Counterparts ==
  ASSUME NEW old, NEW new, NEW w, Given(old, new, w)
  PROVE  /\ \A o \in Nodes(old), n1, n2 \in Nodes(new) : Same(o, n1) /\ Same(o, n2) => n1 = n2
         /\ \A o1, o2 \in Nodes(old), n \in Nodes(new) : Same(o1, n) /\ Same(o2, n) => o1 = o2
         /\ \A o \in Nodes(old), n \in Nodes(new) : Same(o, n) /\ n.dir # 0 =>
              n.dir \in Ids(old) /\ n.dir \in Ids(new)
         /\ \A o \in Nodes(old), n \in Nodes(new) : Same(o, n) /\ n.pid # 0 =>
              n.pid \in Ids(old) /\ n.pid \in Ids(new)
         /\ \A id \in Ids(old) \cap Ids(new) :
              \E o \in Nodes(old), n \in Nodes(new) : Same(o, n) /\ n.dir = id
         /\ \A o \in PathLines(old), n \in PathLines(new) : o.id = n.id <=> o.path = n.path
<1> USE DEF Given
<1>1. /\ \A o \in Nodes(old), n1, n2 \in Nodes(new) : Same(o, n1) /\ Same(o, n2) => n1 = n2
      /\ \A o1, o2 \in Nodes(old), n \in Nodes(new) : Same(o1, n) /\ Same(o2, n) => o1 = o2
  BY Keys DEF Same
<1>2. /\ \A o \in Nodes(old), n \in Nodes(new) : Same(o, n) /\ n.dir # 0 =>
           n.dir \in Ids(old) /\ n.dir \in Ids(new)
      /\ \A o \in Nodes(old), n \in Nodes(new) : Same(o, n) /\ n.pid # 0 =>
           n.pid \in Ids(old) /\ n.pid \in Ids(new)
  BY Keys DEF Same
<1>3. /\ \A o \in Nodes(old), n \in Nodes(new) : o.dir = n.dir /\ o.dir # 0 => Same(o, n)
      /\ \A o \in PathLines(old), n \in PathLines(new) : o.id = n.id <=> o.path = n.path
  BY DEF IsPatch, Continues
<1>4. ASSUME NEW id \in Ids(old) \cap Ids(new)
      PROVE  \E o \in Nodes(old), n \in Nodes(new) : Same(o, n) /\ n.dir = id
  <2>1. PICK o \in Nodes(old) : o.dir = id
    BY Keys
  <2>2. PICK n \in Nodes(new) : n.dir = id
    BY Keys
  <2>3. id # 0
    BY ProperTypes
  <2> QED
    BY <2>1, <2>2, <2>3, <1>3
<1> QED
  BY <1>1, <1>2, <1>3, <1>4

LEMMA PathNotNode ==
  ASSUME NEW p \in PathsWith({""}), NEW n \in NodesWith({""}), NEW c, NEW d
  PROVE  Mark(c, p) # Mark(d, n)
<1>1. Mark(c, p).kind = "path"
  BY PathMark
<1>2. Mark(d, n).kind = "node"
  BY NodeMark
<1> QED
  BY <1>1, <1>2

LEMMA PathNotTold ==
  ASSUME NEW p \in PathsWith({""}), NEW c, NEW a, NEW b
  PROVE  Mark(c, p) # Told(a, b)
<1>1. Mark(c, p).kind = "path"
  BY PathMark
<1>2. Told(a, b).kind = "node"
  BY ToldFields
<1> QED
  BY <1>1, <1>2

LEMMA NodeNotTold ==
  ASSUME NEW n \in NodesWith({""}), NEW c, c # "*", NEW a, NEW b
  PROVE  Mark(c, n) # Told(a, b)
<1>1. Mark(c, n).act = c
  BY NodeMark
<1>2. Told(a, b).act = "*"
  BY ToldFields
<1> QED
  BY <1>1, <1>2

(* What becomes of the marks of a listing's lines when another line of the *)
(* patch is applied.                                                       *)
LEMMA AfterPathLine ==
  ASSUME NEW k \in PathsWith({""}), NEW act, NEW D
  PROVE  /\ \A a \in PathsWith({""}) : WasAdded(a, With(D, Mark(act, k))) <=> WasAdded(a, D) \/ (a = k /\ act = "+")
         /\ \A a \in PathsWith({""}) : WasDeleted(a, With(D, Mark(act, k))) <=> WasDeleted(a, D) \/ (a = k /\ act = "-")
         /\ \A a \in NodesWith({""}) : WasAdded(a, With(D, Mark(act, k))) <=> WasAdded(a, D)
         /\ \A a \in NodesWith({""}) : WasDeleted(a, With(D, Mark(act, k))) <=> WasDeleted(a, D)
         /\ \A a, b : WasResized(a, b, With(D, Mark(act, k))) <=> WasResized(a, b, D)
<1> DEFINE E == With(D, Mark(act, k))
<1> USE DEF With
<1>1. \A b : \A a \in PathsWith({""}) : Mark(b, a) = Mark(act, k) <=> a = k /\ b = act
  BY SamePath
<1>2. \A b : \A a \in NodesWith({""}) : Mark(b, a) # Mark(act, k)
  BY PathNotNode, PathNotTold, NodeNotTold
<1>3. \A a, b : Told(a, b) # Mark(act, k)
  BY PathNotNode, PathNotTold, NodeNotTold
<1>4. \A a \in PathsWith({""}) : WasAdded(a, E) <=> WasAdded(a, D) \/ (a = k /\ act = "+")
  <2>1. ASSUME NEW a \in PathsWith({""})
        PROVE  Mark("+", a) = Mark(act, k) <=> a = k /\ "+" = act
    BY <1>1
  <2> QED
    BY <2>1 DEF WasAdded
<1>5. \A a \in PathsWith({""}) : WasDeleted(a, E) <=> WasDeleted(a, D) \/ (a = k /\ act = "-")
  <2>1. ASSUME NEW a \in PathsWith({""})
        PROVE  Mark("-", a) = Mark(act, k) <=> a = k /\ "-" = act
    BY <1>1
  <2> QED
    BY <2>1 DEF WasDeleted
<1>6. \A a \in NodesWith({""}) : WasAdded(a, E) <=> WasAdded(a, D)
  BY <1>2 DEF WasAdded
<1>7. \A a \in NodesWith({""}) : WasDeleted(a, E) <=> WasDeleted(a, D)
  BY <1>2 DEF WasDeleted
<1>8. \A a, b : WasResized(a, b, E) <=> WasResized(a, b, D)
  BY <1>3 DEF WasResized
<1> QED
  BY <1>4, <1>5, <1>6, <1>7, <1>8

LEMMA AfterNodeLine ==
  ASSUME NEW k \in NodesWith({""}), NEW act, act # "*", NEW D
  PROVE  /\ \A a \in PathsWith({""}) : WasAdded(a, With(D, Mark(act, k))) <=> WasAdded(a, D)
         /\ \A a \in PathsWith({""}) : WasDeleted(a, With(D, Mark(act, k))) <=> WasDeleted(a, D)
         /\ \A a \in NodesWith({""}) : WasAdded(a, With(D, Mark(act, k))) <=> WasAdded(a, D) \/ (a = k /\ act = "+")
         /\ \A a \in NodesWith({""}) : WasDeleted(a, With(D, Mark(act, k))) <=> WasDeleted(a, D) \/ (a = k /\ act = "-")
         /\ \A a, b : WasResized(a, b, With(D, Mark(act, k))) <=> WasResized(a, b, D)
<1> DEFINE E == With(D, Mark(act, k))
<1> USE DEF With
<1>1. \A b : \A a \in NodesWith({""}) : Mark(b, a) = Mark(act, k) <=> a = k /\ b = act
  BY SameNode
<1>2. \A b : \A a \in PathsWith({""}) : Mark(b, a) # Mark(act, k)
  BY PathNotNode, PathNotTold, NodeNotTold
<1>3. \A a, b : Told(a, b) # Mark(act, k)
  BY PathNotNode, PathNotTold, NodeNotTold
<1>4. \A a \in NodesWith({""}) : WasAdded(a, E) <=> WasAdded(a, D) \/ (a = k /\ act = "+")
  BY <1>1 DEF WasAdded
<1>5. \A a \in NodesWith({""}) : WasDeleted(a, E) <=> WasDeleted(a, D) \/ (a = k /\ act = "-")
  BY <1>1 DEF WasDeleted
<1>6. \A a \in PathsWith({""}) : WasAdded(a, E) <=> WasAdded(a, D)
  BY <1>2 DEF WasAdded
<1>7. \A a \in PathsWith({""}) : WasDeleted(a, E) <=> WasDeleted(a, D)
  BY <1>2 DEF WasDeleted
<1>8. \A a, b : WasResized(a, b, E) <=> WasResized(a, b, D)
  BY <1>3 DEF WasResized
<1> QED
  BY <1>4, <1>5, <1>6, <1>7, <1>8

LEMMA AfterTold ==
  ASSUME NEW o, NEW n, NEW D
  PROVE  /\ \A a \in PathsWith({""}) : WasAdded(a, With(D, Told(o, n))) <=> WasAdded(a, D)
         /\ \A a \in PathsWith({""}) : WasDeleted(a, With(D, Told(o, n))) <=> WasDeleted(a, D)
         /\ \A a \in NodesWith({""}) : WasAdded(a, With(D, Told(o, n))) <=> WasAdded(a, D)
         /\ \A a \in NodesWith({""}) : WasDeleted(a, With(D, Told(o, n))) <=> WasDeleted(a, D)
<1> DEFINE E == With(D, Told(o, n))
<1> USE DEF With
<1>1. \A b : \A a \in PathsWith({""}) : Mark(b, a) # Told(o, n)
  BY PathNotNode, PathNotTold, NodeNotTold
<1>2. \A b : \A a \in NodesWith({""}) : b # "*" => Mark(b, a) # Told(o, n)
  BY PathNotNode, PathNotTold, NodeNotTold
<1>5. \A a \in PathsWith({""}) : WasAdded(a, E) <=> WasAdded(a, D)
  BY <1>1 DEF WasAdded
<1>6. \A a \in PathsWith({""}) : WasDeleted(a, E) <=> WasDeleted(a, D)
  BY <1>1 DEF WasDeleted
<1>7. \A a \in NodesWith({""}) : WasAdded(a, E) <=> WasAdded(a, D)
  BY <1>2 DEF WasAdded
<1>8. \A a \in NodesWith({""}) : WasDeleted(a, E) <=> WasDeleted(a, D)
  BY <1>2 DEF WasDeleted
<1> QED
  BY <1>5, <1>6, <1>7, <1>8

LEMMA ResizedAfterTold ==
  ASSUME NEW old, NEW new, NEW w, Given(old, new, w),
         NEW o \in Nodes(old), NEW n \in Nodes(new), Same(o, n), NEW D,
         NEW a \in Nodes(old), NEW b \in Nodes(new), Same(a, b)
  PROVE  WasResized(a, b, With(D, Told(o, n))) <=> WasResized(a, b, D) \/ b = n
<1>1. ASSUME Told(a, b) = Told(o, n)
      PROVE  b = n
  <2>1. b.pid = n.pid /\ b.dir = n.dir /\ b.name = n.name
    BY <1>1, ToldFields
  <2> QED
    BY <2>1, Keys DEF Given
<1>2. ASSUME b = n
      PROVE  Told(a, b) = Told(o, n)
  BY <1>2, Counterparts
<1> QED
  BY <1>1, <1>2 DEF WasResized, With

LEMMA GivenTypes ==
  ASSUME NEW old, NEW new, NEW w, Given(old, new, w)
  PROVE  /\ Nodes(old) \subseteq NodesWith({""}) /\ Nodes(new) \subseteq NodesWith({""})
         /\ PathLines(old) \subseteq PathsWith({""}) /\ PathLines(new) \subseteq PathsWith({""})
         /\ Ids(old) \subseteq Nat \ {0} /\ Ids(new) \subseteq Nat \ {0}
  BY ProperTypes DEF Given

LEMMA NodeTypes ==
  ASSUME NEW a \in NodesWith({""})
  PROVE  /\ a.pid \in Nat /\ a.fid \in Nat /\ a.size \in Nat /\ a.dir \in Nat
         /\ a.items \in Nat /\ a.name \in Nat /\ a.kind = "node" /\ a.act = ""
  BY DEF NodesWith

-----------------------------------------------------------------------------
(* The rows of paths, line by line.                                        *)
LEMMA OldDirIds ==
  ASSUME NEW old, NEW new, NEW w, Given(old, new, w), NEW D, NEW P, NEW ps,
         PathsRight(ps, old, new, D, P)
  PROVE  /\ \A o \in Nodes(old), n \in Nodes(new) : Same(o, n) /\ n.dir # 0 => n.dir \in DOMAIN ps
         /\ Ids(old) \cap Ids(new) \subseteq DOMAIN ps
         /\ DOMAIN ps \subseteq Ids(old) \cup Ids(new)
<1>1. DOMAIN ps = PathIds(old, new, D)
  BY DEF PathsRight
<1>2. Ids(old) \cap Ids(new) \subseteq DOMAIN ps
  BY <1>1 DEF PathIds, Ids
<1>3. DOMAIN ps \subseteq Ids(old) \cup Ids(new)
  BY <1>1 DEF PathIds, Ids
<1> QED
  BY <1>2, <1>3, Counterparts

(* Lines that change no row of paths.                                      *)
LEMMA PathsSame ==
  ASSUME NEW old, NEW new, NEW D, NEW E, NEW P, NEW ps, PathsRight(ps, old, new, D, P),
         \A a \in PathLines(new) : a.id \notin Ids(old) => (WasAdded(a, E) <=> WasAdded(a, D)),
         \A a \in PathLines(old) : WasDeleted(a, E) <=> WasDeleted(a, D),
         \A a \in Nodes(new) : a.dir # 0 => (WasAdded(a, E) <=> WasAdded(a, D)),
         \A a \in Nodes(old), b \in Nodes(new) : Same(a, b) /\ b.dir # 0 =>
            (WasResized(a, b, E) <=> WasResized(a, b, D))
  PROVE  PathsRight(ps, old, new, E, P)
<1>1. PathIds(old, new, E) = PathIds(old, new, D)
  BY DEF PathIds
<1>2. OldDirs(ps, old, new, E, P)
  BY DEF PathsRight, OldDirs, OldRow
<1>3. NewDirs(ps, old, new, E)
  BY DEF PathsRight, NewDirs
<1> QED
  BY <1>1, <1>2, <1>3 DEF PathsRight

LEMMA PathsAddPath ==
  ASSUME NEW old, NEW new, NEW w, Given(old, new, w), NEW D, NEW P, NEW ps,
         PathsRight(ps, old, new, D, P),
         NEW k \in PathLines(new), k.id \notin Ids(old), ~WasAdded(k, D)
  PROVE  /\ k.id \notin DOMAIN ps
         /\ \A id \in DOMAIN ps : ps[id].path # k.path
         /\ PathsRight(Put(ps, k.id, PathRow(k.path)), old, new, With(D, Mark("+", k)), P)
<1> DEFINE l == Mark("+", k)
           qs == Put(ps, k.id, PathRow(k.path))
           E == With(D, l)
<1>1. DOMAIN ps = PathIds(old, new, D) /\ PathTypes(ps) /\ PathNames(ps, old, new)
  BY DEF PathsRight
<1>2. k.id \notin DOMAIN ps
  BY <1>1, Keys DEF Given, Ids, PathIds
<1>3. ASSUME NEW id \in DOMAIN ps
      PROVE  ps[id].path # k.path
  <2>1. PICK a \in PathLines(old) \cup PathLines(new) : a.id = id
    BY <1>1 DEF PathIds
  <2>2. ps[id].path = a.path
    BY <1>1, <2>1 DEF PathNames
  <2>3. CASE a \in PathLines(new)
    BY <2>1, <2>2, <2>3, <1>2, Keys DEF Given
  <2>4. CASE a \in PathLines(old)
    <3>1. a.path = k.path <=> a.id = k.id
      BY <2>4, Counterparts
    <3> QED
      BY <3>1, <2>1, <2>2, <1>2
  <2> QED
    BY <2>3, <2>4
<1>4. /\ DOMAIN qs = DOMAIN ps \cup {k.id}
      /\ qs[k.id] = PathRow(k.path)
      /\ \A id \in DOMAIN ps : qs[id] = ps[id]
  BY <1>2 DEF Put
<1>a. k \in PathsWith({""}) /\ E = With(D, Mark("+", k))
  BY GivenTypes
<1> HIDE DEF qs, E, l
<1>5. /\ \A a \in PathLines(new) : WasAdded(a, E) <=> WasAdded(a, D) \/ a = k
      /\ \A a \in Nodes(new) : WasAdded(a, E) <=> WasAdded(a, D)
      /\ \A a, b : WasResized(a, b, E) <=> WasResized(a, b, D)
  <2>1. \A a \in PathsWith({""}) : WasAdded(a, E) <=> WasAdded(a, D) \/ (a = k /\ "+" = "+")
    BY <1>a, AfterPathLine
  <2>2. \A a \in NodesWith({""}) : WasAdded(a, E) <=> WasAdded(a, D)
    BY <1>a, AfterPathLine
  <2>3. \A a, b : WasResized(a, b, E) <=> WasResized(a, b, D)
    BY <1>a, AfterPathLine
  <2> QED
    BY <2>1, <2>2, <2>3, GivenTypes
<1>6. \A a \in PathLines(old) : WasDeleted(a, E) <=> WasDeleted(a, D)
  <2>1. \A a \in PathsWith({""}) : WasDeleted(a, E) <=> WasDeleted(a, D) \/ (a = k /\ "+" = "-")
    BY <1>a, AfterPathLine
  <2> QED
    BY <2>1, GivenTypes
<1>7. DOMAIN qs = PathIds(old, new, E)
  BY <1>1, <1>4, <1>5, <1>6 DEF PathIds
<1>8. PathTypes(qs)
  <2>1. k \in PathsWith({""})
    BY ProperTypes DEF Given
  <2>2. k.path \in Seq(Nat)
    BY <2>1 DEF PathsWith
  <2>3. PathRow(k.path) \in PathRowType
    BY <2>2 DEF PathRow, PathRowType
  <2>4. qs = [id \in DOMAIN qs |-> qs[id]]
    BY DEF Put, qs
  <2> QED
    BY <2>3, <2>4, <1>1, <1>4 DEF PathTypes
<1>9. PathNames(qs, old, new)
  <2>1. SUFFICES ASSUME NEW a \in PathLines(old) \cup PathLines(new), a.id \in DOMAIN qs
                 PROVE  qs[a.id].path = a.path
    BY DEF PathNames
  <2>2. CASE a.id = k.id
    <3>1. a = k
      BY <2>2, Keys DEF Given, Ids
    <3> QED
      BY <3>1, <1>4 DEF PathRow
  <2>3. CASE a.id # k.id
    BY <2>1, <2>3, <1>1, <1>4 DEF PathNames
  <2> QED
    BY <2>2, <2>3
<1>10. OldDirs(qs, old, new, E, P)
  <2>1. SUFFICES ASSUME NEW o \in Nodes(old), NEW n \in Nodes(new), Same(o, n), n.dir # 0
                 PROVE  OldRow(qs[n.dir], o, n, E, P)
    BY DEF OldDirs
  <2>2. qs[n.dir] = ps[n.dir]
    BY <2>1, <1>4, OldDirIds
  <2>3. OldRow(ps[n.dir], o, n, D, P)
    BY <2>1 DEF PathsRight, OldDirs
  <2> QED
    BY <2>2, <2>3, <1>5 DEF OldRow
<1>11. NewDirs(qs, old, new, E)
  <2>1. NewDirs(ps, old, new, D)
    BY DEF PathsRight
  <2> QED
    BY <2>1, <1>4, <1>5 DEF NewDirs
<1>12. PathsRight(qs, old, new, E, P)
  BY <1>7, <1>8, <1>9, <1>10, <1>11 DEF PathsRight
<1> QED
  BY <1>2, <1>3, <1>12 DEF qs, E, l

LEMMA PathsDeletePath ==
  ASSUME NEW old, NEW new, NEW w, Given(old, new, w), NEW D, NEW P, NEW ps,
         PathsRight(ps, old, new, D, P),
         NEW k \in PathLines(old), k.id \notin Ids(new)
  PROVE  PathsRight(Restrict(ps, DOMAIN ps \ {k.id}), old, new, With(D, Mark("-", k)), P)
<1> DEFINE l == Mark("-", k)
           qs == Restrict(ps, DOMAIN ps \ {k.id})
           E == With(D, l)
<1>1. DOMAIN ps = PathIds(old, new, D) /\ PathTypes(ps) /\ PathNames(ps, old, new)
  BY DEF PathsRight
<1>4. /\ DOMAIN qs = DOMAIN ps \ {k.id}
      /\ \A id \in DOMAIN qs : qs[id] = ps[id]
  BY DEF Restrict
<1>a. k \in PathsWith({""}) /\ E = With(D, Mark("-", k))
  BY GivenTypes
<1> HIDE DEF qs, E, l
<1>5. /\ \A a \in PathLines(old) : WasDeleted(a, E) <=> WasDeleted(a, D) \/ a = k
      /\ \A a, b : WasResized(a, b, E) <=> WasResized(a, b, D)
  <2>1. \A a \in PathsWith({""}) : WasDeleted(a, E) <=> WasDeleted(a, D) \/ (a = k /\ "-" = "-")
    BY <1>a, AfterPathLine
  <2>2. \A a, b : WasResized(a, b, E) <=> WasResized(a, b, D)
    BY <1>a, AfterPathLine
  <2> QED
    BY <2>1, <2>2, GivenTypes
<1>6. /\ \A a \in PathLines(new) : WasAdded(a, E) <=> WasAdded(a, D)
      /\ \A a \in Nodes(new) : WasAdded(a, E) <=> WasAdded(a, D)
  <2>1. \A a \in PathsWith({""}) : WasAdded(a, E) <=> WasAdded(a, D) \/ (a = k /\ "-" = "+")
    BY <1>a, AfterPathLine
  <2>2. \A a \in NodesWith({""}) : WasAdded(a, E) <=> WasAdded(a, D)
    BY <1>a, AfterPathLine
  <2> QED
    BY <2>1, <2>2, GivenTypes
<1>7. DOMAIN qs = PathIds(old, new, E)
  <2>1. \A a \in PathLines(old) : a.id = k.id <=> a = k
    BY Keys DEF Given
  <2>2. \A a \in PathLines(new) : a.id # k.id
    BY DEF Ids
  <2> QED
    BY <1>1, <1>4, <1>5, <1>6, <2>1, <2>2 DEF PathIds
<1>8. PathTypes(qs) /\ PathNames(qs, old, new)
  <2>1. qs = [id \in DOMAIN qs |-> qs[id]]
    BY DEF Restrict, qs
  <2> QED
    BY <2>1, <1>1, <1>4 DEF PathTypes, PathNames
<1>9. ASSUME NEW n \in Nodes(new), n.dir # 0
      PROVE  n.dir # k.id
  BY <1>9, Keys DEF Given
<1>10. OldDirs(qs, old, new, E, P)
  <2>1. SUFFICES ASSUME NEW o \in Nodes(old), NEW n \in Nodes(new), Same(o, n), n.dir # 0
                 PROVE  OldRow(qs[n.dir], o, n, E, P)
    BY DEF OldDirs
  <2>2. qs[n.dir] = ps[n.dir]
    BY <2>1, <1>4, <1>9, OldDirIds
  <2>3. OldRow(ps[n.dir], o, n, D, P)
    BY <2>1 DEF PathsRight, OldDirs
  <2> QED
    BY <2>2, <2>3, <1>5 DEF OldRow
<1>11. NewDirs(qs, old, new, E)
  <2>1. NewDirs(ps, old, new, D)
    BY DEF PathsRight
  <2> QED
    BY <2>1, <1>4, <1>6, <1>9 DEF NewDirs
<1>12. PathsRight(qs, old, new, E, P)
  BY <1>7, <1>8, <1>10, <1>11 DEF PathsRight
<1> QED
  BY <1>12 DEF qs, E, l

LEMMA PathsModifyPath ==
  ASSUME NEW old, NEW new, NEW w, Given(old, new, w), NEW D, NEW P, NEW ps,
         PathsRight(ps, old, new, D, P), NEW k \in PathLines(new)
  PROVE  PathsRight(ps, old, new, With(D, Mark("*", k)), P)
<1> DEFINE E == With(D, Mark("*", k))
<1>a. k \in PathsWith({""}) /\ E = With(D, Mark("*", k))
  BY GivenTypes
<1> HIDE DEF E
<1>1. \A a \in PathsWith({""}) : WasAdded(a, E) <=> WasAdded(a, D) \/ (a = k /\ "*" = "+")
  BY <1>a, AfterPathLine
<1>2. \A a \in PathsWith({""}) : WasDeleted(a, E) <=> WasDeleted(a, D) \/ (a = k /\ "*" = "-")
  BY <1>a, AfterPathLine
<1>3. \A a \in NodesWith({""}) : WasAdded(a, E) <=> WasAdded(a, D)
  BY <1>a, AfterPathLine
<1>4. \A a, b : WasResized(a, b, E) <=> WasResized(a, b, D)
  BY <1>a, AfterPathLine
<1>5. PathsRight(ps, old, new, E, P)
  BY <1>1, <1>2, <1>3, <1>4, GivenTypes, PathsSame
<1> QED
  BY <1>5, <1>a

LEMMA PathsDeleteEntry ==
  ASSUME NEW old, NEW new, NEW w, Given(old, new, w), NEW D, NEW P, NEW ps,
         PathsRight(ps, old, new, D, P), NEW o \in Nodes(old)
  PROVE  PathsRight(ps, old, new, With(D, Mark("-", o)), P)
<1> DEFINE E == With(D, Mark("-", o))
<1>a. o \in NodesWith({""}) /\ E = With(D, Mark("-", o))
  BY GivenTypes
<1> HIDE DEF E
<1>1. \A a \in PathsWith({""}) : WasAdded(a, E) <=> WasAdded(a, D)
  BY <1>a, AfterNodeLine
<1>2. \A a \in PathsWith({""}) : WasDeleted(a, E) <=> WasDeleted(a, D)
  BY <1>a, AfterNodeLine
<1>3. \A a \in NodesWith({""}) : WasAdded(a, E) <=> WasAdded(a, D) \/ (a = o /\ "-" = "+")
  BY <1>a, AfterNodeLine
<1>4. \A a, b : WasResized(a, b, E) <=> WasResized(a, b, D)
  BY <1>a, AfterNodeLine
<1>5. PathsRight(ps, old, new, E, P)
  BY <1>1, <1>2, <1>3, <1>4, GivenTypes, PathsSame
<1> QED
  BY <1>5, <1>a

(* The row of a directory when its own line is applied.                    *)
LEMMA RowOfDir ==
  ASSUME NEW ps, PathTypes(ps), NEW l, l.pid \in Nat, l.fid \in Nat, l.items \in Nat, l.size \in Nat
  PROVE  /\ DOMAIN WithDir(ps, l) = DOMAIN ps
         /\ \A id \in DOMAIN ps : id # l.dir => WithDir(ps, l)[id] = ps[id]
         /\ l.dir \in DOMAIN ps => /\ WithDir(ps, l)[l.dir].path = ps[l.dir].path
                                   /\ WithDir(ps, l)[l.dir].parent = l.pid
                                   /\ WithDir(ps, l)[l.dir].fid = l.fid
                                   /\ WithDir(ps, l)[l.dir].items = l.items
                                   /\ WithDir(ps, l)[l.dir].size = l.size
         /\ PathTypes(WithDir(ps, l))
<1> DEFINE qs == WithDir(ps, l)
           row == [path |-> ps[l.dir].path, parent |-> l.pid, fid |-> l.fid,
                   items |-> l.items, size |-> l.size]
<1>1. /\ DOMAIN qs = DOMAIN ps
      /\ \A id \in DOMAIN ps : id # l.dir => qs[id] = ps[id]
      /\ l.dir \in DOMAIN ps => qs[l.dir] = row
  BY DEF WithDir
<1>2. l.dir \in DOMAIN ps => row \in PathRowType
  BY DEF PathTypes, PathRowType
<1>3. PathTypes(qs)
  <2>1. qs = [id \in DOMAIN qs |-> qs[id]]
    BY DEF WithDir, PathTypes
  <2> QED
    BY <2>1, <1>1, <1>2 DEF PathTypes
<1> QED
  BY <1>1, <1>3

LEMMA PathsAddEntry ==
  ASSUME NEW old, NEW new, NEW w, Given(old, new, w), NEW D, NEW P, NEW ps,
         PathsRight(ps, old, new, D, P),
         NEW n \in Nodes(new), \A o \in Nodes(old) : ~Same(o, n), n.dir # 0 => n.dir \in DOMAIN ps
  PROVE  PathsRight(WithDir(ps, Mark("+", n)), old, new, With(D, Mark("+", n)), P)
<1> DEFINE l == Mark("+", n)
           E == With(D, l)
           qs == WithDir(ps, l)
<1>a. n \in NodesWith({""}) /\ E = With(D, Mark("+", n))
  BY GivenTypes
<1>b. l.pid = n.pid /\ l.fid = n.fid /\ l.size = n.size /\ l.dir = n.dir /\ l.items = n.items
  BY <1>a, NodeMark
<1>c. n.pid \in Nat /\ n.fid \in Nat /\ n.size \in Nat /\ n.items \in Nat
  BY <1>a DEF NodesWith
<1> HIDE DEF E, l
<1>1. \A a \in PathsWith({""}) : WasAdded(a, E) <=> WasAdded(a, D)
  BY <1>a, AfterNodeLine
<1>2. \A a \in PathsWith({""}) : WasDeleted(a, E) <=> WasDeleted(a, D)
  BY <1>a, AfterNodeLine
<1>3. \A a \in NodesWith({""}) : WasAdded(a, E) <=> WasAdded(a, D) \/ a = n
  <2>1. \A a \in NodesWith({""}) : WasAdded(a, With(D, Mark("+", n))) <=> WasAdded(a, D) \/ (a = n /\ "+" = "+")
    BY <1>a, AfterNodeLine
  <2> QED
    BY <2>1, <1>a
<1>4. \A a, b : WasResized(a, b, E) <=> WasResized(a, b, D)
  BY <1>a, AfterNodeLine
<1>5. /\ DOMAIN ps = PathIds(old, new, D) /\ PathTypes(ps) /\ PathNames(ps, old, new)
      /\ OldDirs(ps, old, new, D, P) /\ NewDirs(ps, old, new, D)
  BY DEF PathsRight
<1>6. /\ DOMAIN qs = DOMAIN ps
      /\ \A id \in DOMAIN ps : id # l.dir => qs[id] = ps[id]
      /\ l.dir \in DOMAIN ps => /\ qs[l.dir].path = ps[l.dir].path
                                /\ qs[l.dir].parent = n.pid /\ qs[l.dir].fid = n.fid
                                /\ qs[l.dir].items = n.items /\ qs[l.dir].size = n.size
      /\ PathTypes(qs)
  <2>1. l.pid \in Nat /\ l.fid \in Nat /\ l.items \in Nat /\ l.size \in Nat /\ PathTypes(ps)
    BY <1>5, <1>b, <1>c
  <2>2. DOMAIN qs = DOMAIN ps
    BY <2>1, RowOfDir
  <2>3. \A id \in DOMAIN ps : id # l.dir => qs[id] = ps[id]
    BY <2>1, RowOfDir
  <2>4. l.dir \in DOMAIN ps => /\ qs[l.dir].path = ps[l.dir].path
                               /\ qs[l.dir].parent = l.pid /\ qs[l.dir].fid = l.fid
                               /\ qs[l.dir].items = l.items /\ qs[l.dir].size = l.size
    BY <2>1, RowOfDir
  <2>5. PathTypes(qs)
    BY <2>1, RowOfDir
  <2> QED
    BY <2>2, <2>3, <2>4, <2>5, <1>b
<1> HIDE DEF qs
<1>7. DOMAIN qs = PathIds(old, new, E)
  BY <1>5, <1>6, <1>1, <1>2, GivenTypes DEF PathIds
<1>8. PathNames(qs, old, new)
  BY <1>5, <1>6 DEF PathNames
<1>9. n.dir \notin Ids(old) \/ n.dir = 0
  <2>1. ASSUME n.dir \in Ids(old), n.dir # 0 PROVE FALSE
    <3>1. PICK o \in Nodes(old) : o.dir = n.dir
      BY <2>1, Keys DEF Given
    <3>2. Same(o, n)
      BY <3>1, <2>1 DEF Given, IsPatch, Continues
    <3> QED
      BY <3>2
  <2> QED
    BY <2>1
<1>10. OldDirs(qs, old, new, E, P)
  <2>1. SUFFICES ASSUME NEW a \in Nodes(old), NEW b \in Nodes(new), Same(a, b), b.dir # 0
                 PROVE  OldRow(qs[b.dir], a, b, E, P)
    BY DEF OldDirs
  <2>2. b.dir \in DOMAIN ps /\ b.dir \in Ids(old)
    BY <2>1, OldDirIds, Counterparts
  <2>3. qs[b.dir] = ps[b.dir]
    BY <2>1, <2>2, <1>6, <1>9, <1>b
  <2>4. OldRow(ps[b.dir], a, b, D, P)
    BY <2>1, <1>5 DEF OldDirs
  <2> QED
    BY <2>3, <2>4, <1>4 DEF OldRow
<1>11. NewDirs(qs, old, new, E)
  <2>1. SUFFICES ASSUME NEW b \in Nodes(new), b.dir # 0, b.dir \notin Ids(old), WasAdded(b, E)
                 PROVE  b.dir \in DOMAIN qs /\ NewRow(qs[b.dir], b)
    BY DEF NewDirs
  <2>2. CASE b = n
    BY <2>2, <2>1, <1>6, <1>b DEF NewRow
  <2>3. CASE b # n
    <3>1. WasAdded(b, D)
      BY <2>1, <2>3, <1>3, GivenTypes
    <3>2. b.dir \in DOMAIN ps /\ NewRow(ps[b.dir], b)
      BY <3>1, <2>1, <1>5 DEF NewDirs
    <3>3. b.dir # n.dir
      BY <2>1, <2>3, Keys DEF Given
    <3> QED
      BY <3>2, <3>3, <1>6, <1>b
  <2> QED
    BY <2>2, <2>3
<1>12. PathsRight(qs, old, new, E, P)
  BY <1>6, <1>7, <1>8, <1>10, <1>11 DEF PathsRight
<1> QED
  BY <1>12 DEF qs, E, l

LEMMA PathsModifyEntry ==
  ASSUME NEW old, NEW new, NEW w, Given(old, new, w), NEW D, NEW P, NEW ps,
         PathsRight(ps, old, new, D, P),
         NEW o \in Nodes(old), NEW n \in Nodes(new), Same(o, n), n.pid \notin P
  PROVE  PathsRight(WithDir(ps, Told(o, n)), old, new, With(D, Told(o, n)), P)
<1> DEFINE l == Told(o, n)
           E == With(D, l)
           qs == WithDir(ps, l)
<1>a. n \in NodesWith({""}) /\ o \in NodesWith({""}) /\ E = With(D, Told(o, n))
  BY GivenTypes
<1>b. l.pid = n.pid /\ l.fid = o.fid /\ l.size = n.size /\ l.dir = n.dir /\ l.items = n.items
  <2>1. n \in NodesWith({""}) /\ o \in NodesWith({""})
    BY <1>a
  <2> HIDE DEF E, qs
  <2> QED
    BY <2>1, ToldFields
<1>c. n.pid \in Nat /\ o.fid \in Nat /\ n.size \in Nat /\ n.items \in Nat
  BY <1>a DEF NodesWith
<1> HIDE DEF E, l
<1>1. \A a \in PathsWith({""}) : WasAdded(a, E) <=> WasAdded(a, D)
  BY <1>a, AfterTold
<1>2. \A a \in PathsWith({""}) : WasDeleted(a, E) <=> WasDeleted(a, D)
  BY <1>a, AfterTold
<1>3. \A a \in NodesWith({""}) : WasAdded(a, E) <=> WasAdded(a, D)
  BY <1>a, AfterTold
<1>4. \A a \in Nodes(old), b \in Nodes(new) : Same(a, b) =>
        (WasResized(a, b, E) <=> WasResized(a, b, D) \/ b = n)
  <2>1. \A a \in Nodes(old), b \in Nodes(new) : Same(a, b) =>
          (WasResized(a, b, With(D, Told(o, n))) <=> WasResized(a, b, D) \/ b = n)
    BY ResizedAfterTold
  <2> QED
    BY <2>1, <1>a
<1>5. /\ DOMAIN ps = PathIds(old, new, D) /\ PathTypes(ps) /\ PathNames(ps, old, new)
      /\ OldDirs(ps, old, new, D, P) /\ NewDirs(ps, old, new, D)
  BY DEF PathsRight
<1>6. /\ DOMAIN qs = DOMAIN ps
      /\ \A id \in DOMAIN ps : id # l.dir => qs[id] = ps[id]
      /\ l.dir \in DOMAIN ps => /\ qs[l.dir].path = ps[l.dir].path
                                /\ qs[l.dir].parent = n.pid /\ qs[l.dir].fid = o.fid
                                /\ qs[l.dir].items = n.items /\ qs[l.dir].size = n.size
      /\ PathTypes(qs)
  <2>1. l.pid \in Nat /\ l.fid \in Nat /\ l.items \in Nat /\ l.size \in Nat /\ PathTypes(ps)
    BY <1>5, <1>b, <1>c
  <2>2. DOMAIN qs = DOMAIN ps
    BY <2>1, RowOfDir
  <2>3. \A id \in DOMAIN ps : id # l.dir => qs[id] = ps[id]
    BY <2>1, RowOfDir
  <2>4. l.dir \in DOMAIN ps => /\ qs[l.dir].path = ps[l.dir].path
                               /\ qs[l.dir].parent = l.pid /\ qs[l.dir].fid = l.fid
                               /\ qs[l.dir].items = l.items /\ qs[l.dir].size = l.size
    BY <2>1, RowOfDir
  <2>5. PathTypes(qs)
    BY <2>1, RowOfDir
  <2> QED
    BY <2>2, <2>3, <2>4, <2>5, <1>b
<1> HIDE DEF qs
<1>7. DOMAIN qs = PathIds(old, new, E)
  BY <1>5, <1>6, <1>1, <1>2, GivenTypes DEF PathIds
<1>8. PathNames(qs, old, new)
  BY <1>5, <1>6 DEF PathNames
<1>10. OldDirs(qs, old, new, E, P)
  <2>1. SUFFICES ASSUME NEW a \in Nodes(old), NEW b \in Nodes(new), Same(a, b), b.dir # 0
                 PROVE  OldRow(qs[b.dir], a, b, E, P)
    BY DEF OldDirs
  <2>2. b.dir \in DOMAIN ps
    BY <2>1, OldDirIds
  <2>3. CASE b = n
    <3>1. a = o
      BY <2>1, <2>3, Counterparts
    <3>2. WasResized(a, b, E)
      BY <2>1, <2>3, <1>4
    <3> QED
      BY <3>1, <3>2, <2>2, <2>3, <1>6, <1>b DEF OldRow
  <2>4. CASE b # n
    <3>1. b.dir # n.dir
      BY <2>1, <2>4, Keys DEF Given
    <3>2. qs[b.dir] = ps[b.dir]
      BY <3>1, <2>2, <1>6, <1>b
    <3>3. OldRow(ps[b.dir], a, b, D, P)
      BY <2>1, <1>5 DEF OldDirs
    <3>4. WasResized(a, b, E) <=> WasResized(a, b, D)
      BY <2>1, <2>4, <1>4
    <3> QED
      BY <3>2, <3>3, <3>4 DEF OldRow
  <2> QED
    BY <2>3, <2>4
<1>11. NewDirs(qs, old, new, E)
  <2>1. SUFFICES ASSUME NEW b \in Nodes(new), b.dir # 0, b.dir \notin Ids(old), WasAdded(b, E)
                 PROVE  b.dir \in DOMAIN qs /\ NewRow(qs[b.dir], b)
    BY DEF NewDirs
  <2>3. WasAdded(b, D)
    BY <2>1, <1>3, GivenTypes
  <2>4. b.dir \in DOMAIN ps /\ NewRow(ps[b.dir], b)
    BY <2>3, <2>1, <1>5 DEF NewDirs
  <2>5. b.dir # n.dir
    BY <2>1, Counterparts
  <2> QED
    BY <2>4, <2>5, <1>6, <1>b
<1>12. PathsRight(qs, old, new, E, P)
  BY <1>6, <1>7, <1>8, <1>10, <1>11 DEF PathsRight
<1> QED
  BY <1>12 DEF qs, E, l

-----------------------------------------------------------------------------
(* Renumbering.  A free number is told by how many free numbers are below  *)
(* it.                                                                     *)
LEMMA FreeBelow ==
  ASSUME NEW taken, NEW i \in Nat, NEW j \in Nat, i < j, i \notin taken
  PROVE  Cardinality((0..(i - 1)) \ taken) < Cardinality((0..(j - 1)) \ taken)
<1> DEFINE S == (0..(i - 1)) \ taken
           T == (0..(j - 1)) \ taken
<1>1. IsFiniteSet(0..(i - 1)) /\ IsFiniteSet(0..(j - 1))
  BY FS_Interval
<1>2. S \in SUBSET (0..(i - 1)) /\ T \in SUBSET (0..(j - 1))
  OBVIOUS
<1>3. IsFiniteSet(S) /\ IsFiniteSet(T)
  BY <1>1, <1>2, FS_Subset
<1>4. S \subseteq T /\ i \in T /\ i \notin S
  OBVIOUS
<1>5. Cardinality(S) \in Nat /\ Cardinality(T) \in Nat
  BY <1>3, FS_CardinalityType
<1> HIDE DEF S, T
<1>6. S \in SUBSET T /\ S # T
  BY <1>4
<1>7. Cardinality(S) <= Cardinality(T) /\ (Cardinality(T) = Cardinality(S) => T = S)
  BY <1>3, <1>6, FS_Subset
<1>8. Cardinality(S) < Cardinality(T)
  BY <1>5, <1>6, <1>7
<1> QED
  BY <1>8 DEF S, T

LEMMA Below ==
  ASSUME NEW m \in Nat
  PROVE  IsFiniteSet(0..(m - 1)) /\ Cardinality(0..(m - 1)) = m
<1>1. 0 \in Int /\ m - 1 \in Int
  OBVIOUS
<1>2. /\ IsFiniteSet(0..(m - 1))
      /\ Cardinality(0..(m - 1)) = IF 0 > m - 1 THEN 0 ELSE (m - 1) - 0 + 1
  BY <1>1, FS_Interval
<1> QED
  BY <1>2

(* If the rows can be given different free numbers in their order with no  *)
(* free number left out below the last, Number gives them.                 *)
LEMMA NumberIs ==
  ASSUME NEW R, IsFiniteSet(R), NEW taken \in SUBSET Nat, IsFiniteSet(taken),
         NEW g \in [R -> Nat], NEW r \in R,
         \A a, b \in R : g[a] = g[b] => a = b,
         \A a \in R : g[a] \notin taken,
         \A a \in R : a.fid < r.fid <=> g[a] < g[r],
         \A j \in 0..(g[r] - 1) : j \notin taken => \E a \in R : g[a] = j
  PROVE  Number(r, R, taken) = g[r]
<1> DEFINE Q == {q \in R : q.fid < r.fid}
           B == (0..(g[r] - 1)) \ taken
           h == [q \in Q |-> g[q]]
<1>1. g[r] \in Nat /\ g[r] \notin taken
  OBVIOUS
<1>2. h \in [Q -> B] /\ \A a, b \in Q : h[a] = h[b] => a = b
  OBVIOUS
<1>3. \A t \in B : \E q \in Q : h[q] = t
  <2>1. TAKE t \in B
  <2>2. PICK a \in R : g[a] = t
    OBVIOUS
  <2>3. a \in Q
    BY <2>2, <1>1
  <2> QED
    BY <2>2, <2>3
<1>4. h \in Bijection(Q, B)
  BY <1>2, <1>3 DEF Bijection, Injection, Surjection, IsInjective
<1>5. IsFiniteSet(Q) /\ Cardinality(Q) <= Cardinality(R)
  BY FS_Subset
<1>6. IsFiniteSet(0..(g[r] - 1)) /\ Cardinality(0..(g[r] - 1)) = g[r]
  BY <1>1, Below
<1>7. IsFiniteSet(B) /\ Cardinality(B) = Cardinality(Q)
  <2>1. ExistsBijection(Q, B)
    BY <1>4 DEF ExistsBijection
  <2> QED
    BY <2>1, <1>5, FS_Bijection
<1>8. g[r] <= Cardinality(R) + Cardinality(taken)
  <2>1. 0..(g[r] - 1) \subseteq B \cup taken
    OBVIOUS
  <2>2. IsFiniteSet(B \cup taken)
    BY <1>7, FS_Union
  <2>3. Cardinality(B \cup taken) = Cardinality(B) + Cardinality(taken) - Cardinality(B \cap taken)
    BY <1>7, FS_Union
  <2>4. g[r] <= Cardinality(B \cup taken)
    <3> HIDE DEF B
    <3>1. 0..(g[r] - 1) \in SUBSET (B \cup taken)
      BY <2>1
    <3>2. Cardinality(0..(g[r] - 1)) <= Cardinality(B \cup taken)
      BY <3>1, <2>2, FS_Subset
    <3> QED
      BY <3>2, <1>6
  <2>5. /\ Cardinality(B) \in Nat /\ Cardinality(taken) \in Nat /\ Cardinality(R) \in Nat
    BY <1>7, FS_CardinalityType
  <2>6. IsFiniteSet(B \cap taken)
    <3> HIDE DEF B
    <3>1. B \cap taken \in SUBSET B
      OBVIOUS
    <3> QED
      BY <3>1, <1>7, FS_Subset
  <2>7. Cardinality(B \cap taken) \in Nat
    BY <2>6, FS_CardinalityType
  <2> HIDE DEF B, Q
  <2> QED
    BY <2>3, <2>4, <2>5, <2>7, <1>5, <1>7, <1>1
<1>9. Cardinality(R) \in Nat /\ Cardinality(taken) \in Nat
  BY FS_CardinalityType
<1>10. g[r] \in 0..(Cardinality(R) + Cardinality(taken))
  BY <1>1, <1>8, <1>9
<1>11. Cardinality((0..(g[r] - 1)) \ taken) = Cardinality({q \in R : q.fid < r.fid})
  BY <1>7
<1>12. ASSUME NEW m \in Nat, m \notin taken,
              Cardinality((0..(m - 1)) \ taken) = Cardinality({q \in R : q.fid < r.fid})
       PROVE  m = g[r]
  <2>1. Cardinality((0..(m - 1)) \ taken) \in Nat
    <3>1. IsFiniteSet(0..(m - 1)) /\ ((0..(m - 1)) \ taken) \in SUBSET (0..(m - 1))
      BY FS_Interval
    <3> QED
      BY <3>1, FS_Subset, FS_CardinalityType
  <2>2. ~(m < g[r])
    <3>1. ASSUME m < g[r] PROVE FALSE
      <4>1. Cardinality((0..(m - 1)) \ taken) < Cardinality((0..(g[r] - 1)) \ taken)
        BY <3>1, <1>1, <1>12, FreeBelow
      <4> QED
        BY <4>1, <2>1, <1>11, <1>12
    <3> QED
      BY <3>1
  <2>3. ~(g[r] < m)
    <3>1. ASSUME g[r] < m PROVE FALSE
      <4>1. Cardinality((0..(g[r] - 1)) \ taken) < Cardinality((0..(m - 1)) \ taken)
        BY <3>1, <1>1, <1>12, FreeBelow
      <4> QED
        BY <4>1, <2>1, <1>11, <1>12
    <3> QED
      BY <3>1
  <2> QED
    BY <2>2, <2>3, <1>1, <1>12
<1> HIDE DEF Q, B, h
<1>13. \A m \in 0..(Cardinality(R) + Cardinality(taken)) : m \in Nat
  BY <1>9
<1> QED
  BY <1>1, <1>10, <1>11, <1>12, <1>13 DEF Number

LEMMA FiniteLines ==
  ASSUME NEW S, NEW s \in Seq(S)
  PROVE  IsFiniteSet(ToSet(s)) /\ IsFiniteSet(Nodes(s)) /\ \A d : IsFiniteSet(In(s, d))
<1>1. s \in [1..Len(s) -> ToSet(s)] /\ \A l \in ToSet(s) : \E i \in 1..Len(s) : s[i] = l
  BY LinesOf
<1>2. s \in Surjection(1..Len(s), ToSet(s))
  BY <1>1 DEF Surjection
<1>3. IsFiniteSet(1..Len(s))
  BY FS_Interval
<1>4. IsFiniteSet(ToSet(s))
  BY <1>2, <1>3, FS_Surjection
<1>5. Nodes(s) \in SUBSET ToSet(s) /\ \A d : In(s, d) \in SUBSET ToSet(s)
  BY DEF Nodes, In
<1> QED
  BY <1>4, <1>5, FS_Subset

(* Entries of both listings have their numbers in the same order.          *)
LEMMA SameOrder ==
  ASSUME NEW old, NEW new, NEW w, Given(old, new, w),
         NEW a1 \in Nodes(old), NEW a2 \in Nodes(old), NEW b1 \in Nodes(new), NEW b2 \in Nodes(new),
         Same(a1, b1), Same(a2, b2), a1.pid = a2.pid, a1.pid # 0
  PROVE  /\ a1.fid < a2.fid <=> b1.fid < b2.fid
         /\ b1.fid = b2.fid => a1 = a2
<1>1. \A o1, o2 \in Nodes(old) : o1.pid = o2.pid /\ o1.fid < o2.fid =>
        \A n1, n2 \in Nodes(new) : Same(o1, n1) /\ Same(o2, n2) => n1.fid < n2.fid
  BY DEF Given, IsPatch, Continues
<1>2. /\ a1.fid \in Nat /\ a2.fid \in Nat /\ b1.fid \in Nat /\ b2.fid \in Nat
  BY GivenTypes, NodeTypes
<1>3. b1.pid = b2.pid /\ b1.pid # 0
  BY DEF Same
<1>4. b1.fid = b2.fid => a1 = a2
  <2>1. b1.fid = b2.fid => b1 = b2
    BY <1>3, Keys DEF Given
  <2> QED
    BY <2>1, Counterparts
<1>5. a1.fid = a2.fid => b1 = b2
  <2>1. a1.fid = a2.fid => a1 = a2
    BY Keys DEF Given
  <2> QED
    BY <2>1, Counterparts
<1> QED
  BY <1>1, <1>2, <1>4, <1>5

(* Rows of the entries of d that are in both listings, k says which.       *)
LEMMA PushNumbers ==
  ASSUME NEW old, NEW new, NEW w, Given(old, new, w), NEW d \in Ids(old) \cap Ids(new),
         NEW R, NEW k \in [R -> Nodes(old)],
         \A a, b \in R : k[a] = k[b] => a = b,
         \A a \in R : k[a].pid = d /\ k[a].fid = a.fid /\ \E n \in Nodes(new) : Same(k[a], n),
         \A o \in In(old, d), n \in Nodes(new) : Same(o, n) => \E a \in R : k[a] = o,
         NEW r \in R, NEW n \in Nodes(new), Same(k[r], n)
  PROVE  Number(r, R, {b.fid : b \in {c \in In(new, d) : \A o \in Nodes(old) : ~Same(o, c)}}) = n.fid
<1> DEFINE taken == {b.fid : b \in {c \in In(new, d) : \A o \in Nodes(old) : ~Same(o, c)}}
           m == [a \in R |-> CHOOSE b \in Nodes(new) : Same(k[a], b)]
           g == [a \in R |-> m[a].fid]
<1>1. \A a \in R : m[a] \in Nodes(new) /\ Same(k[a], m[a])
  OBVIOUS
<1>2. Nodes(new) \subseteq NodesWith({""}) /\ \A b \in Nodes(new) : b.fid \in Nat
  BY GivenTypes, NodeTypes
<1>3. g \in [R -> Nat]
  BY <1>1, <1>2
<1>4. d # 0
  BY GivenTypes
<1> HIDE DEF m
<1>5. \A a, b \in R : g[a] = g[b] => a = b
  <2>1. SUFFICES ASSUME NEW a \in R, NEW b \in R, g[a] = g[b]
                 PROVE  a = b
    OBVIOUS
  <2>2. m[a].fid = m[b].fid
    BY <2>1
  <2>3. k[a] = k[b]
    BY <2>2, <1>1, <1>4, SameOrder
  <2> QED
    BY <2>3
<1>6. \A a \in R : g[a] \notin taken
  <2>1. SUFFICES ASSUME NEW a \in R, NEW c \in In(new, d), \A o \in Nodes(old) : ~Same(o, c), m[a].fid = c.fid
                 PROVE  FALSE
    OBVIOUS
  <2>2. m[a].pid = d /\ c.pid = d /\ c \in Nodes(new)
    BY <1>1 DEF Same, In
  <2>3. m[a] = c
    BY <2>1, <2>2, <1>1, <1>4, Keys DEF Given
  <2> QED
    BY <2>1, <2>3, <1>1
<1>7. \A a \in R : a.fid < r.fid <=> g[a] < g[r]
  <2>1. TAKE a \in R
  <2>2. k[a].fid < k[r].fid <=> m[a].fid < m[r].fid
    BY <1>1, <1>4, SameOrder
  <2> QED
    BY <2>2
<1>8. m[r] = n
  BY <1>1, Counterparts
<1>9. n.pid = d
  BY DEF Same
<1>10. \A j \in 0..(g[r] - 1) : j \notin taken => \E a \in R : g[a] = j
  <2>1. SUFFICES ASSUME NEW j \in 0..(n.fid - 1), j \notin taken
                 PROVE  \E a \in R : g[a] = j
    BY <1>8
  <2>2. 0..n.fid \subseteq {b.fid : b \in In(new, d)}
    BY <1>4, <1>9 DEF Given, Proper
  <2>3. n.fid \in Nat
    BY <1>2
  <2>a. j \in 0..n.fid
    BY <2>1, <2>3
  <2>b. j \in {b.fid : b \in In(new, d)}
    BY <2>a, <2>2
  <2>4. PICK b \in In(new, d) : b.fid = j
    BY <2>b
  <2>5. PICK o \in Nodes(old) : Same(o, b)
    BY <2>1, <2>4
  <2>6. b \in Nodes(new) /\ o \in In(old, d)
    BY <2>4, <2>5 DEF In, Same
  <2>7. PICK a \in R : k[a] = o
    BY <2>5, <2>6
  <2>8. m[a] = b
    BY <2>5, <2>6, <2>7, <1>1, Counterparts
  <2> QED
    BY <2>4, <2>8
<1>11. IsFiniteSet(R)
  <2>1. IsFiniteSet(Nodes(old))
    BY FiniteLines DEF Given, Proper
  <2>2. k \in Injection(R, Nodes(old))
    BY DEF Injection, IsInjective
  <2> QED
    BY <2>1, <2>2, FS_Injection
<1>12. taken \in SUBSET Nat /\ IsFiniteSet(taken)
  <2> DEFINE C == {c \in In(new, d) : \A o \in Nodes(old) : ~Same(o, c)}
             f == [c \in C |-> c.fid]
  <2>1. IsFiniteSet(In(new, d))
    BY FiniteLines DEF Given, Proper
  <2>2. IsFiniteSet(C)
    BY <2>1, FS_Subset
  <2>3. f \in Surjection(C, taken)
    BY DEF Surjection
  <2>4. IsFiniteSet(taken)
    <3> HIDE DEF C, f, taken
    <3> QED
      BY <2>2, <2>3, FS_Surjection
  <2>5. taken \in SUBSET Nat
    <3>1. \A c \in In(new, d) : c.fid \in Nat
      <4>1. In(new, d) \subseteq Nodes(new)
        BY DEF In
      <4> QED
        BY <1>2, <4>1
    <3> QED
      BY <3>1
  <2> QED
    BY <2>4, <2>5
<1> HIDE DEF taken, g
<1>13. Number(r, R, taken) = g[r]
  BY <1>3, <1>5, <1>6, <1>7, <1>10, <1>11, <1>12, NumberIs
<1> QED
  BY <1>13, <1>8 DEF taken, g

(* The entries of a directory that is not announced keep their numbers.    *)
LEMMA KeptNumbers ==
  ASSUME NEW old, NEW new, NEW w, Given(old, new, w),
         NEW o \in Nodes(old), NEW n \in Nodes(new), Same(o, n), n.pid \notin Announced(w)
  PROVE  o.fid = n.fid
<1>1. CASE n.pid = 0
  BY <1>1, Keys DEF Given, Same
<1>2. CASE n.pid # 0
  <2> DEFINE d == n.pid
             R == In(old, d)
             k == [a \in R |-> a]
             g == [a \in R |-> a.fid]
  <2>1. d \in Ids(old) \cap Ids(new)
    BY <1>2, Counterparts
  <2>2. R \subseteq Nodes(old) /\ o \in R /\ \A a \in R : a.pid = d
    BY DEF In, Same
  <2>3. \A l \in Nodes(w) : l.act # "*" => l.pid # d
    BY <2>1 DEF Given, IsPatch
  <2>4. ASSUME NEW a \in R
        PROVE  \E b \in Nodes(new) : Same(a, b)
    <3>1. SUFFICES ASSUME \A b \in Nodes(new) : ~Same(a, b)
                   PROVE  FALSE
      OBVIOUS
    <3>2. Mark("-", a) \in ToSet(w)
      BY <3>1, <2>1, <2>2, LineThere
    <3>3. Mark("-", a).kind = "node" /\ Mark("-", a).act = "-" /\ Mark("-", a).pid = d
      <4>1. a \in NodesWith({""}) /\ a.pid = d
        BY <2>2, GivenTypes
      <4> QED
        BY <4>1, NodeMark
    <3> QED
      BY <3>2, <3>3, <2>3 DEF Nodes
  <2>5. ASSUME NEW c \in In(new, d), \A a \in Nodes(old) : ~Same(a, c)
        PROVE  FALSE
    <3>1. c \in Nodes(new) /\ c.pid = d
      BY DEF In
    <3>2. Mark("+", c) \in ToSet(w)
      BY <3>1, <2>5, LineThere
    <3>3. Mark("+", c).kind = "node" /\ Mark("+", c).act = "+" /\ Mark("+", c).pid = d
      <4>1. c \in NodesWith({""})
        BY <3>1, GivenTypes
      <4> QED
        BY <4>1, <3>1, NodeMark
    <3> QED
      BY <3>2, <3>3, <2>3 DEF Nodes
  <2>6. {b.fid : b \in {c \in In(new, d) : \A a \in Nodes(old) : ~Same(a, c)}} = {}
    BY <2>5
  <2>7. Number(o, R, {b.fid : b \in {c \in In(new, d) : \A a \in Nodes(old) : ~Same(a, c)}}) = n.fid
    <3> HIDE DEF R, d
    <3>1. /\ k \in [R -> Nodes(old)]
          /\ \A a, b \in R : k[a] = k[b] => a = b
          /\ \A a \in R : k[a].pid = d /\ k[a].fid = a.fid /\ \E b \in Nodes(new) : Same(k[a], b)
          /\ Same(k[o], n)
      BY <2>2, <2>4
    <3>2. \A q \in In(old, d), b \in Nodes(new) : Same(q, b) => \E a \in R : k[a] = q
      BY DEF R
    <3> HIDE DEF k
    <3> QED
      BY <2>1, <2>2, <3>1, <3>2, PushNumbers
  <2>8. Number(o, R, {}) = g[o]
    <3>1. IsFiniteSet(R) /\ IsFiniteSet({})
      BY FiniteLines, FS_EmptySet DEF Given, Proper
    <3>2. g \in [R -> Nat]
      BY <2>2, GivenTypes, NodeTypes
    <3>3. \A a, b \in R : g[a] = g[b] => a = b
      BY <2>2, <1>2, Keys DEF Given
    <3>4. 0..o.fid \subseteq {a.fid : a \in R}
      <4>1. \A b \in Nodes(old) : b.pid # 0 => 0..b.fid \subseteq {m.fid : m \in In(old, b.pid)}
        BY DEF Given, Proper
      <4> QED
        BY <2>2, <1>2, <4>1
    <3>5. \A j \in 0..(g[o] - 1) : \E a \in R : g[a] = j
      <4>1. o.fid \in Nat /\ g[o] = o.fid
        BY <2>2, <3>2
      <4>2. \A j \in 0..(g[o] - 1) : j \in 0..o.fid
        BY <4>1
      <4>3. \A j \in 0..(g[o] - 1) : \E a \in R : a.fid = j
        BY <4>2, <3>4
      <4> QED
        BY <4>3
    <3>6. \A a \in R : a.fid < o.fid <=> g[a] < g[o]
      BY <2>2
    <3> HIDE DEF g, R
    <3> QED
      BY <2>2, <3>1, <3>2, <3>3, <3>5, <3>6, NumberIs
  <2> QED
    BY <2>2, <2>6, <2>7, <2>8
<1> QED
  BY <1>1, <1>2

-----------------------------------------------------------------------------
(* The rows of files when a directory is pushed.                           *)
LEMMA RowFields ==
  ASSUME NEW pid, NEW fid, NEW dir, NEW size, NEW name
  PROVE  /\ Row(pid, fid, dir, size, name).pid = pid /\ Row(pid, fid, dir, size, name).fid = fid
         /\ Row(pid, fid, dir, size, name).dir = dir /\ Row(pid, fid, dir, size, name).size = size
         /\ Row(pid, fid, dir, size, name).name = name
  BY DEF Row

LEMMA RowMoved ==
  ASSUME NEW pid, NEW fid, NEW dir, NEW size, NEW name, NEW x
  PROVE  [Row(pid, fid, dir, size, name) EXCEPT !.fid = x] = Row(pid, x, dir, size, name)
  BY DEF Row

LEMMA RowResized ==
  ASSUME NEW pid, NEW fid, NEW dir, NEW size, NEW name, NEW x
  PROVE  [Row(pid, fid, dir, size, name) EXCEPT !.size = x] = Row(pid, fid, dir, x, name)
  BY DEF Row

LEMMA NowRowFields ==
  ASSUME NEW o, NEW new, NEW D
  PROVE  /\ NowRow(o, new, D).pid = o.pid /\ NowRow(o, new, D).fid = o.fid
         /\ NowRow(o, new, D).dir = o.dir /\ NowRow(o, new, D).name = o.name
         /\ NowRow(o, new, D).size = NowSize(o, new, D)
  BY RowFields DEF NowRow

LEMMA RowOfFields ==
  ASSUME NEW n
  PROVE  /\ RowOf(n).pid = n.pid /\ RowOf(n).fid = n.fid /\ RowOf(n).dir = n.dir
         /\ RowOf(n).name = n.name /\ RowOf(n).size = n.size
  BY RowFields DEF RowOf

LEMMA NowSizeIs ==
  ASSUME NEW old, NEW new, NEW w, Given(old, new, w), NEW D,
         NEW o \in Nodes(old), NEW n \in Nodes(new), Same(o, n)
  PROVE  NowSize(o, new, D) = IF WasResized(o, n, D) THEN n.size ELSE o.size
<1>1. \A b \in Nodes(new) : Same(o, b) => b = n
  BY Counterparts
<1>2. CASE WasResized(o, n, D)
  <2>1. \E b \in Nodes(new) : Same(o, b) /\ WasResized(o, b, D)
    BY <1>2
  <2>2. (CHOOSE b \in Nodes(new) : Same(o, b) /\ WasResized(o, b, D)) = n
    BY <2>1, <1>1
  <2> QED
    BY <1>2, <2>1, <2>2 DEF NowSize
<1>3. CASE ~WasResized(o, n, D)
  BY <1>1, <1>3 DEF NowSize
<1> QED
  BY <1>2, <1>3

(* An entry that is added or deleted is in one listing only.               *)
LEMMA AddedMeans ==
  ASSUME NEW old, NEW new, NEW w, Given(old, new, w), NEW n \in Nodes(new), Mark("+", n) \in ToSet(w)
  PROVE  \A o \in Nodes(old) : ~Same(o, n)
<1> DEFINE l == Mark("+", n)
<1>1. n \in NodesWith({""}) /\ l = Mark("+", n) /\ l \in ToSet(w)
  BY GivenTypes
<1> HIDE DEF l
<1>2. \A c : \A k \in PathsWith({""}) : l # Mark(c, k)
  BY <1>1, PathNotNode
<1>3. \A a, b : l # Told(a, b)
  BY <1>1, NodeNotTold
<1>4. \A c : \A a \in NodesWith({""}) : l = Mark(c, a) => a = n /\ c = "+"
  BY <1>1, SameNode
<1>0. /\ \A a \in Nodes(old) \cup Nodes(new) : a \in NodesWith({""})
      /\ \A a \in PathLines(old) \cup PathLines(new) : a \in PathsWith({""})
  BY GivenTypes
<1>6. IsLine(old, new, w, l)
  BY <1>1, LineIs
<1>5. \/ \E a \in Nodes(new) : (\A o \in Nodes(old) : ~Same(o, a)) /\ l = Mark("+", a)
      \/ \E o \in Nodes(old) : l = Mark("-", o)
  BY <1>0, <1>2, <1>3, <1>6 DEF IsLine
<1>7. ASSUME NEW o \in Nodes(old), l = Mark("-", o)
      PROVE  FALSE
  <2>1. o \in NodesWith({""}) /\ Mark("-", o) = Mark("+", n)
    BY <1>0, <1>1, <1>7
  <2>2. "-" = "+"
    BY <1>1, <2>1, SameNode
  <2> QED
    BY <2>2
<1>8. PICK a \in Nodes(new) : (\A o \in Nodes(old) : ~Same(o, a)) /\ l = Mark("+", a)
  BY <1>5, <1>7
<1>9. a = n
  BY <1>0, <1>4, <1>8
<1> QED
  BY <1>8, <1>9

LEMMA DeletedMeans ==
  ASSUME NEW old, NEW new, NEW w, Given(old, new, w), NEW o \in Nodes(old), Mark("-", o) \in ToSet(w)
  PROVE  o.pid \in Ids(new) /\ \A n \in Nodes(new) : ~Same(o, n)
<1> DEFINE l == Mark("-", o)
<1>1. o \in NodesWith({""}) /\ l = Mark("-", o) /\ l \in ToSet(w)
  BY GivenTypes
<1> HIDE DEF l
<1>2. \A c : \A k \in PathsWith({""}) : l # Mark(c, k)
  BY <1>1, PathNotNode
<1>3. \A a, b : l # Told(a, b)
  BY <1>1, NodeNotTold
<1>4. \A c : \A a \in NodesWith({""}) : l = Mark(c, a) => a = o /\ c = "-"
  BY <1>1, SameNode
<1>0. /\ \A a \in Nodes(old) \cup Nodes(new) : a \in NodesWith({""})
      /\ \A a \in PathLines(old) \cup PathLines(new) : a \in PathsWith({""})
  BY GivenTypes
<1>6. IsLine(old, new, w, l)
  BY <1>1, LineIs
<1>5. \/ \E a \in Nodes(new) : l = Mark("+", a)
      \/ \E a \in Nodes(old) : /\ a.pid \in Ids(new) /\ \A n \in Nodes(new) : ~Same(a, n)
                               /\ l = Mark("-", a)
  BY <1>0, <1>2, <1>3, <1>6 DEF IsLine
<1>7. ASSUME NEW n \in Nodes(new), l = Mark("+", n)
      PROVE  FALSE
  <2>1. n \in NodesWith({""}) /\ Mark("+", n) = Mark("-", o)
    BY <1>0, <1>1, <1>7
  <2>2. "-" = "+"
    BY <1>1, <2>1, SameNode
  <2> QED
    BY <2>2
<1>8. PICK a \in Nodes(old) : /\ a.pid \in Ids(new) /\ \A n \in Nodes(new) : ~Same(a, n)
                            /\ l = Mark("-", a)
  BY <1>5, <1>7
<1>9. a = o
  BY <1>0, <1>4, <1>8
<1> QED
  BY <1>8, <1>9

LEMMA AnnouncedIds ==
  ASSUME NEW old, NEW new, NEW w, Given(old, new, w)
  PROVE  Announced(w) \subseteq Ids(old) \cap Ids(new)
  BY DEF Given, IsPatch

(* When all lines about the entries of d have been applied, what happened  *)
(* to them is what the listings say.                                       *)
LEMMA AllDone ==
  ASSUME NEW old, NEW new, NEW w, Given(old, new, w), NEW D, D \subseteq ToSet(w),
         NEW d \in Announced(w), \A l \in Nodes(w) : l.pid = d => l \in D
  PROVE  /\ \A n \in In(new, d) : WasAdded(n, D) <=> \A o \in Nodes(old) : ~Same(o, n)
         /\ \A o \in In(old, d) : WasDeleted(o, D) <=> \A n \in Nodes(new) : ~Same(o, n)
         /\ \A o \in In(old, d), n \in Nodes(new) : Same(o, n) => NowSize(o, new, D) = n.size
<1>1. d \in Ids(old) \cap Ids(new)
  BY AnnouncedIds
<1>2. ASSUME NEW n \in In(new, d)
      PROVE  WasAdded(n, D) <=> \A o \in Nodes(old) : ~Same(o, n)
  <2>1. n \in Nodes(new) /\ n.pid = d /\ n \in NodesWith({""})
    BY GivenTypes DEF In
  <2>2. Mark("+", n).kind = "node" /\ Mark("+", n).pid = d
    BY <2>1, NodeMark
  <2>3. Mark("+", n) \in D <=> Mark("+", n) \in ToSet(w)
    BY <2>2 DEF Nodes
  <2> QED
    BY <2>1, <2>3, AddedMeans, LineThere DEF WasAdded
<1>3. ASSUME NEW o \in In(old, d)
      PROVE  WasDeleted(o, D) <=> \A n \in Nodes(new) : ~Same(o, n)
  <2>1. o \in Nodes(old) /\ o.pid = d /\ o \in NodesWith({""})
    BY GivenTypes DEF In
  <2>2. Mark("-", o).kind = "node" /\ Mark("-", o).pid = d
    BY <2>1, NodeMark
  <2>3. Mark("-", o) \in D <=> Mark("-", o) \in ToSet(w)
    BY <2>2 DEF Nodes
  <2> QED
    BY <2>1, <2>3, <1>1, DeletedMeans, LineThere DEF WasDeleted
<1>4. ASSUME NEW o \in In(old, d), NEW n \in Nodes(new), Same(o, n)
      PROVE  NowSize(o, new, D) = n.size
  <2>1. o \in Nodes(old) /\ o.pid = d /\ n.pid = d
    BY <1>4 DEF In, Same
  <2>2. Told(o, n).kind = "node" /\ Told(o, n).pid = d
    BY <2>1, ToldFields
  <2>3. o.size # n.size => Told(o, n) \in ToSet(w)
    BY <2>1, <1>4, LineThere
  <2>4. o.size # n.size => WasResized(o, n, D)
    BY <2>2, <2>3 DEF Nodes, WasResized
  <2>5. NowSize(o, new, D) = IF WasResized(o, n, D) THEN n.size ELSE o.size
    BY <2>1, <1>4, NowSizeIs
  <2> QED
    BY <2>4, <2>5
<1> QED
  BY <1>2, <1>3, <1>4

LEMMA PushIs ==
  ASSUME NEW d, NEW db
  PROVE  LET R == RowsIn(db.files, d) N == RowsIn(db.newfiles, d) to == To(db.files, db.newfiles, d) IN
         /\ Push(d, db).ok = (/\ db.ok
                              /\ ~(\E a, b \in N, r \in R : a # b /\ a.fid = b.fid /\ to[r] > a.fid)
                              /\ (N # {} => d \in DOMAIN db.paths))
         /\ Push(d, db).paths = Renumbered(db.paths, to)
         /\ Push(d, db).files = (db.files \ R) \cup N \cup {[r EXCEPT !.fid = to[r]] : r \in R}
         /\ Push(d, db).newfiles = db.newfiles \ N
  BY DEF Push, RowsIn, To

(* The rows of a directory that is about to be pushed are those of the     *)
(* entries that stay, and the rows that wait for it are the new ones.      *)
LEMMA BeforePush ==
  ASSUME NEW old, NEW new, NEW w, Given(old, new, w), NEW D, D \subseteq ToSet(w), NEW P,
         NEW d \in Announced(w), \A l \in Nodes(w) : l.pid = d => l \in D, d \notin P,
         NEW ids, d \in ids, NEW fs, NEW fq, FilesRight(fs, fq, ids, old, new, D, P),
         NEW nf, NewRight(nf, old, new, D, P)
  PROVE  /\ RowsIn(fs, d) = {NowRow(o, new, D) : o \in {a \in In(old, d) : \E n \in Nodes(new) : Same(a, n)}}
         /\ RowsIn(nf, d) = {RowOf(n) : n \in {b \in In(new, d) : \A o \in Nodes(old) : ~Same(o, b)}}
<1> DEFINE K == {a \in In(old, d) : \E n \in Nodes(new) : Same(a, n)}
           M == {b \in In(new, d) : \A o \in Nodes(old) : ~Same(o, b)}
<1>1. d \in Ids(old) /\ d \in Ids(new) /\ d # 0
  BY AnnouncedIds, GivenTypes
<1>2. /\ \A n \in In(new, d) : WasAdded(n, D) <=> \A o \in Nodes(old) : ~Same(o, n)
      /\ \A o \in In(old, d) : WasDeleted(o, D) <=> \A n \in Nodes(new) : ~Same(o, n)
  BY AllDone
<1>3. /\ fs \cup fq = {NowRow(o, new, D) : o \in Staying(old, D, P, ids)}
                        \cup {RowOf(n) : n \in Arrived(old, new, D, P)}
      /\ \A r \in fq : r.pid \in ids \ Ids(old)
  BY DEF FilesRight
<1>4. /\ \A o \in Staying(old, D, P, ids) : o.pid = d => o \in K
      /\ K \subseteq Staying(old, D, P, ids)
  BY <1>2 DEF Staying, In
<1>5. \A n \in Arrived(old, new, D, P) : n.pid # d
  BY <1>1 DEF Arrived
<1>6. ASSUME NEW r \in fs, r.pid = d
      PROVE  r \in {NowRow(o, new, D) : o \in K}
  <2>1. CASE \E o \in Staying(old, D, P, ids) : r = NowRow(o, new, D)
    <3>1. PICK o \in Staying(old, D, P, ids) : r = NowRow(o, new, D)
      BY <2>1
    <3>2. o.pid = d
      BY <3>1, <1>6, NowRowFields
    <3> QED
      BY <3>1, <3>2, <1>4
  <2>2. CASE \E n \in Arrived(old, new, D, P) : r = RowOf(n)
    BY <2>2, <1>5, <1>6, RowOfFields
  <2> QED
    BY <2>1, <2>2, <1>3
<1>7. ASSUME NEW o \in K
      PROVE  NowRow(o, new, D) \in fs /\ NowRow(o, new, D).pid = d
  <2>1. o.pid = d /\ o \in Staying(old, D, P, ids)
    BY <1>4 DEF In
  <2>2. NowRow(o, new, D).pid = d
    BY <2>1, NowRowFields
  <2> QED
    BY <2>1, <2>2, <1>1, <1>3
<1>8. RowsIn(fs, d) = {NowRow(o, new, D) : o \in K}
  BY <1>6, <1>7 DEF RowsIn
<1>9. nf = {RowOf(n) : n \in Waiting(old, new, D, P)}
  BY DEF NewRight
<1>10. {n \in Waiting(old, new, D, P) : n.pid = d} = M
  BY <1>1, <1>2 DEF Waiting, In
<1>11. \A n : RowOf(n).pid = n.pid
  BY RowOfFields
<1>12. RowsIn(nf, d) = {RowOf(n) : n \in M}
  BY <1>9, <1>10, <1>11 DEF RowsIn
<1> QED
  BY <1>8, <1>12

LEMMA PushedNumbers ==
  ASSUME NEW old, NEW new, NEW w, Given(old, new, w), NEW D, D \subseteq ToSet(w), NEW P,
         NEW d \in Announced(w), \A l \in Nodes(w) : l.pid = d => l \in D, d \notin P,
         NEW ids, d \in ids, NEW fs, NEW fq, FilesRight(fs, fq, ids, old, new, D, P),
         NEW nf, NewRight(nf, old, new, D, P),
         NEW o \in In(old, d), NEW n \in Nodes(new), Same(o, n)
  PROVE  /\ NowRow(o, new, D) \in RowsIn(fs, d)
         /\ To(fs, nf, d)[NowRow(o, new, D)] = n.fid
<1> DEFINE K == {a \in In(old, d) : \E b \in Nodes(new) : Same(a, b)}
           M == {b \in In(new, d) : \A a \in Nodes(old) : ~Same(a, b)}
           R == RowsIn(fs, d)
           k == [r \in R |-> CHOOSE a \in K : r = NowRow(a, new, D)]
           r0 == NowRow(o, new, D)
<1>1. R = {NowRow(a, new, D) : a \in K} /\ RowsIn(nf, d) = {RowOf(b) : b \in M}
  BY BeforePush, SMTT(40)
<1>2. {r.fid : r \in RowsIn(nf, d)} = {b.fid : b \in M}
  <2>1. \A b : RowOf(b).fid = b.fid
    BY RowOfFields
  <2> QED
    BY <1>1, <2>1
<1>3. o \in K /\ r0 \in R
  BY <1>1
<1>4. To(fs, nf, d)[r0] = Number(r0, R, {b.fid : b \in M})
  BY <1>2, <1>3 DEF To
<1>5. \A r \in R : k[r] \in K /\ r = NowRow(k[r], new, D)
  BY <1>1
<1>6. d \in Ids(old) \cap Ids(new) /\ d # 0
  BY AnnouncedIds, GivenTypes
<1>7. \A a, b \in K : NowRow(a, new, D) = NowRow(b, new, D) => a = b
  <2>1. SUFFICES ASSUME NEW a \in K, NEW b \in K, NowRow(a, new, D) = NowRow(b, new, D)
                 PROVE  a = b
    OBVIOUS
  <2>2. a.fid = b.fid
    BY <2>1, NowRowFields
  <2>3. a.pid = d /\ b.pid = d /\ a \in Nodes(old) /\ b \in Nodes(old)
    BY DEF In
  <2> QED
    BY <2>2, <2>3, <1>6, Keys DEF Given
<1>8. k[r0] = o
  BY <1>3, <1>5, <1>7
<1>9. K \subseteq Nodes(old) /\ \A a \in K : a.pid = d /\ \E b \in Nodes(new) : Same(a, b)
  BY DEF In
<1>10. \A r \in R : k[r].fid = r.fid
  BY <1>5, NowRowFields
<1>11. \A a \in In(old, d), b \in Nodes(new) : Same(a, b) => \E r \in R : k[r] = a
  <2>1. SUFFICES ASSUME NEW a \in K PROVE \E r \in R : k[r] = a
    OBVIOUS
  <2>2. NowRow(a, new, D) \in R
    BY <1>1
  <2>3. k[NowRow(a, new, D)] = a
    BY <2>2, <1>5, <1>7
  <2> QED
    BY <2>2, <2>3
<1>12. k \in [R -> Nodes(old)] /\ \A a, b \in R : k[a] = k[b] => a = b
  BY <1>5, <1>9
<1> HIDE DEF k, K, R, r0
<1>13. Number(r0, R, {b.fid : b \in {c \in In(new, d) : \A a \in Nodes(old) : ~Same(a, c)}}) = n.fid
  BY <1>3, <1>5, <1>6, <1>8, <1>9, <1>10, <1>11, <1>12, PushNumbers
<1> QED
  BY <1>3, <1>4, <1>13 DEF r0, R

(* Pushing a directory never gets stuck.                                   *)
LEMMA PushGoes ==
  ASSUME NEW old, NEW new, NEW w, Given(old, new, w), NEW D, D \subseteq ToSet(w), NEW P,
         NEW d \in Announced(w), \A l \in Nodes(w) : l.pid = d => l \in D, d \notin P,
         NEW ids, d \in ids, NEW fs, NEW fq, FilesRight(fs, fq, ids, old, new, D, P),
         NEW nf, NewRight(nf, old, new, D, P),
         NEW a \in RowsIn(nf, d), NEW b \in RowsIn(nf, d), a.fid = b.fid
  PROVE  a = b
<1> DEFINE K == {c \in In(old, d) : \E n \in Nodes(new) : Same(c, n)}
           M == {c \in In(new, d) : \A o \in Nodes(old) : ~Same(o, c)}
<1>1. RowsIn(fs, d) = {NowRow(o, new, D) : o \in K} /\ RowsIn(nf, d) = {RowOf(c) : c \in M}
  BY BeforePush
<1>2. PICK m1 \in M : a = RowOf(m1)
  BY <1>1
<1>3. PICK m2 \in M : b = RowOf(m2)
  BY <1>1
<1>4. m1.fid = m2.fid /\ m1.pid = d /\ m2.pid = d /\ m1 \in Nodes(new) /\ m2 \in Nodes(new)
  BY <1>2, <1>3, RowOfFields DEF In
<1>5. d # 0
  BY AnnouncedIds, GivenTypes
<1>6. m1 = m2
  BY <1>4, <1>5, Keys DEF Given
<1> QED
  BY <1>2, <1>3, <1>6

LEMMA FilesPush ==
  ASSUME NEW old, NEW new, NEW w, Given(old, new, w), NEW D, D \subseteq ToSet(w), NEW P,
         NEW d \in Announced(w), \A l \in Nodes(w) : l.pid = d => l \in D, d \notin P,
         NEW ids, d \in ids, NEW fs, NEW fq, FilesRight(fs, fq, ids, old, new, D, P),
         NEW nf, NewRight(nf, old, new, D, P)
  PROVE  LET R == RowsIn(fs, d) N == RowsIn(nf, d) to == To(fs, nf, d) IN
         /\ FilesRight((fs \ R) \cup N \cup {[r EXCEPT !.fid = to[r]] : r \in R}, fq, ids,
                       old, new, D, P \cup {d})
         /\ NewRight(nf \ N, old, new, D, P \cup {d})
<1> DEFINE K == {a \in In(old, d) : \E b \in Nodes(new) : Same(a, b)}
           M == {b \in In(new, d) : \A a \in Nodes(old) : ~Same(a, b)}
           R == RowsIn(fs, d)
           N == RowsIn(nf, d)
           to == To(fs, nf, d)
           moved == {[r EXCEPT !.fid = to[r]] : r \in R}
           Q == P \cup {d}
<1>1. R = {NowRow(a, new, D) : a \in K} /\ N = {RowOf(b) : b \in M}
  <2>1. RowsIn(fs, d) = {NowRow(a, new, D) : a \in K} /\ RowsIn(nf, d) = {RowOf(b) : b \in M}
    BY BeforePush
  <2> QED
    BY <2>1
<1>2. /\ fs \cup fq = {NowRow(o, new, D) : o \in Staying(old, D, P, ids)}
                        \cup {RowOf(n) : n \in Arrived(old, new, D, P)}
      /\ \A r \in fq : r.pid \in ids \ Ids(old)
  BY DEF FilesRight
<1>3. d \in Ids(old) /\ d \in Ids(new) /\ d # 0
  BY AnnouncedIds, GivenTypes
<1>4. ASSUME NEW a \in K, NEW b \in Nodes(new), Same(a, b)
      PROVE  [NowRow(a, new, D) EXCEPT !.fid = to[NowRow(a, new, D)]] = RowOf(b)
  <2>1. to[NowRow(a, new, D)] = b.fid
    BY <1>4, PushedNumbers
  <2>2. NowSize(a, new, D) = b.size
    BY <1>4, AllDone
  <2>3. a.pid = b.pid /\ a.dir = b.dir /\ a.name = b.name
    BY <1>4 DEF Same
  <2>4. NowRow(a, new, D) = Row(a.pid, a.fid, a.dir, NowSize(a, new, D), a.name)
    BY DEF NowRow
  <2>5. [NowRow(a, new, D) EXCEPT !.fid = b.fid] = Row(a.pid, b.fid, a.dir, NowSize(a, new, D), a.name)
    BY <2>4, RowMoved
  <2> QED
    BY <2>1, <2>2, <2>3, <2>5 DEF RowOf
<1>5. moved = {RowOf(b) : b \in {c \in In(new, d) : \E a \in Nodes(old) : Same(a, c)}}
  <2> DEFINE L == {c \in In(new, d) : \E a \in Nodes(old) : Same(a, c)}
  <2>1. ASSUME NEW r \in R
        PROVE  [r EXCEPT !.fid = to[r]] \in {RowOf(b) : b \in L}
    <3>1. PICK a \in K : r = NowRow(a, new, D)
      BY <1>1
    <3>2. PICK b \in Nodes(new) : Same(a, b)
      OBVIOUS
    <3>3. b \in L
      BY <3>2 DEF In, Same
    <3>4. [r EXCEPT !.fid = to[r]] = RowOf(b)
      BY <3>1, <3>2, <1>4
    <3> QED
      BY <3>3, <3>4
  <2>2. ASSUME NEW b \in L
        PROVE  RowOf(b) \in moved
    <3>1. PICK a \in Nodes(old) : Same(a, b)
      OBVIOUS
    <3>2. a \in K /\ b \in Nodes(new)
      BY <3>1 DEF In, Same
    <3>3. NowRow(a, new, D) \in R
      BY <3>2, <1>1
    <3>4. [NowRow(a, new, D) EXCEPT !.fid = to[NowRow(a, new, D)]] = RowOf(b)
      BY <3>1, <3>2, <1>4
    <3> QED
      BY <3>3, <3>4
  <2> QED
    BY <2>1, <2>2
<1>6. N \cup moved = {RowOf(b) : b \in In(new, d)}
  BY <1>1, <1>5
<1>7. Arrived(old, new, D, Q) = Arrived(old, new, D, P) \cup In(new, d)
  BY DEF Arrived, In
<1>8. Staying(old, D, Q, ids) = {o \in Staying(old, D, P, ids) : o.pid # d}
  BY DEF Staying
<1>9. \A n \in Arrived(old, new, D, P) : n.pid # d
  BY <1>3 DEF Arrived
<1>10. (fs \ R) \cup fq = {NowRow(o, new, D) : o \in Staying(old, D, Q, ids)}
                            \cup {RowOf(n) : n \in Arrived(old, new, D, P)}
  <2>1. (fs \ R) \cup fq = {r \in fs \cup fq : r.pid # d}
    BY <1>2, <1>3 DEF RowsIn
  <2>2. \A o : NowRow(o, new, D).pid = o.pid
    BY NowRowFields
  <2>3. \A n : RowOf(n).pid = n.pid
    BY RowOfFields
  <2> HIDE DEF R, Q
  <2>4. ASSUME NEW r \in (fs \ R) \cup fq
        PROVE  r \in {NowRow(o, new, D) : o \in Staying(old, D, Q, ids)}
                       \cup {RowOf(n) : n \in Arrived(old, new, D, P)}
    BY <1>2, <1>8, <2>1, <2>2
  <2>5. ASSUME NEW o \in Staying(old, D, Q, ids)
        PROVE  NowRow(o, new, D) \in (fs \ R) \cup fq
    BY <1>2, <1>8, <2>1, <2>2
  <2>6. ASSUME NEW n \in Arrived(old, new, D, P)
        PROVE  RowOf(n) \in (fs \ R) \cup fq
    BY <1>2, <1>9, <2>1, <2>3
  <2> QED
    BY <2>4, <2>5, <2>6
<1>11. FilesRight((fs \ R) \cup N \cup moved, fq, ids, old, new, D, Q)
  <2>1. ((fs \ R) \cup N \cup moved) \cup fq = ((fs \ R) \cup fq) \cup (N \cup moved)
    OBVIOUS
  <2> HIDE DEF R, N, moved, Q
  <2>2. ((fs \ R) \cup N \cup moved) \cup fq = {NowRow(o, new, D) : o \in Staying(old, D, Q, ids)}
                                                \cup {RowOf(n) : n \in Arrived(old, new, D, Q)}
    BY <2>1, <1>6, <1>7, <1>10
  <2> QED
    BY <2>2, <1>2 DEF FilesRight
<1>12. NewRight(nf \ N, old, new, D, Q)
  <2>1. nf = {RowOf(n) : n \in Waiting(old, new, D, P)}
    BY DEF NewRight
  <2>2. Waiting(old, new, D, Q) = {n \in Waiting(old, new, D, P) : n.pid # d}
    BY DEF Waiting
  <2>3. \A n : RowOf(n).pid = n.pid
    BY RowOfFields
  <2>4. nf \ N = {r \in nf : r.pid # d}
    BY DEF RowsIn
  <2> HIDE DEF N, Q
  <2> QED
    BY <2>1, <2>2, <2>3, <2>4 DEF NewRight
<1> QED
  BY <1>11, <1>12

(* And the rows of paths.                                                  *)
LEMMA PathRowMoved ==
  ASSUME NEW p \in PathRowType, NEW x \in Nat
  PROVE  /\ [p EXCEPT !.fid = x] \in PathRowType
         /\ [p EXCEPT !.fid = x].path = p.path /\ [p EXCEPT !.fid = x].parent = p.parent
         /\ [p EXCEPT !.fid = x].fid = x /\ [p EXCEPT !.fid = x].items = p.items
         /\ [p EXCEPT !.fid = x].size = p.size
  BY DEF PathRowType

LEMMA PathsPush ==
  ASSUME NEW old, NEW new, NEW w, Given(old, new, w), NEW D, D \subseteq ToSet(w), NEW P,
         NEW d \in Announced(w), \A l \in Nodes(w) : l.pid = d => l \in D, d \notin P,
         NEW E, NEW ps, PathsRight(ps, old, new, E, P), NEW ids, d \in ids,
         NEW fs, NEW fq, FilesRight(fs, fq, ids, old, new, D, P),
         NEW nf, NewRight(nf, old, new, D, P)
  PROVE  PathsRight(Renumbered(ps, To(fs, nf, d)), old, new, E, P \cup {d})
<1> DEFINE to == To(fs, nf, d)
           R == RowsIn(fs, d)
           qs == Renumbered(ps, to)
           K == {a \in In(old, d) : \E b \in Nodes(new) : Same(a, b)}
           M == {b \in In(new, d) : \A o \in Nodes(old) : ~Same(o, b)}
<1>1. R = {NowRow(o, new, D) : o \in K}
  <2>1. R = {NowRow(o, new, D) : o \in K} /\ RowsIn(nf, d) = {RowOf(b) : b \in M}
    BY BeforePush, SMTT(40)
  <2> QED
    BY <2>1
<1>2. DOMAIN to = R
  BY DEF To
<1>3. /\ DOMAIN ps = PathIds(old, new, E) /\ PathTypes(ps) /\ PathNames(ps, old, new)
      /\ OldDirs(ps, old, new, E, P) /\ NewDirs(ps, old, new, E)
  BY DEF PathsRight
<1>4. d \in Ids(old) /\ d # 0
  BY AnnouncedIds, GivenTypes
<1>5. /\ DOMAIN qs = DOMAIN ps
      /\ \A id \in DOMAIN ps : (\A r \in R : r.dir # id) => qs[id] = ps[id]
  BY <1>2 DEF Renumbered
<1>6. ASSUME NEW o \in In(old, d), NEW n \in Nodes(new), Same(o, n), n.dir # 0
      PROVE  /\ n.dir \in DOMAIN ps
             /\ (qs[n.dir] = ps[n.dir] /\ n.fid = o.fid) \/ qs[n.dir] = [ps[n.dir] EXCEPT !.fid = n.fid]
  <2> DEFINE r0 == NowRow(o, new, D)
  <2>1. r0 \in R /\ to[r0] = n.fid
    BY <1>6, PushedNumbers
  <2>2. r0.dir = n.dir /\ r0.fid = o.fid
    BY <1>6, NowRowFields DEF Same
  <2>3. ASSUME NEW r \in R, r.dir = n.dir
        PROVE  r = r0
    <3>1. PICK a \in K : r = NowRow(a, new, D)
      BY <1>1
    <3>2. a.dir = o.dir /\ o.dir # 0
      BY <3>1, <2>3, <1>6, NowRowFields DEF Same
    <3>3. a \in Nodes(old) /\ o \in Nodes(old)
      BY DEF In
    <3>4. a = o
      BY <3>2, <3>3, Keys DEF Given
    <3> QED
      BY <3>1, <3>4
  <2>4. (CHOOSE r \in DOMAIN to : r.dir = n.dir) = r0
    BY <2>1, <2>2, <2>3, <1>2
  <2>5. (\E r \in DOMAIN to : r.dir = n.dir /\ to[r] # r.fid) <=> n.fid # o.fid
    BY <2>1, <2>2, <2>3, <1>2
  <2>6. n.dir \in DOMAIN ps
    <3>1. o \in Nodes(old)
      BY DEF In
    <3> QED
      BY <3>1, <1>6, OldDirIds
  <2>7. qs[n.dir] = IF n.fid # o.fid THEN [ps[n.dir] EXCEPT !.fid = n.fid] ELSE ps[n.dir]
    <3> HIDE DEF to, r0
    <3> QED
      BY <2>1, <2>4, <2>5, <2>6 DEF Renumbered
  <2> QED
    BY <2>6, <2>7
<1>7. ASSUME NEW id \in DOMAIN ps, \A o \in K : o.dir # id
      PROVE  qs[id] = ps[id]
  BY <1>1, <1>5, <1>7, NowRowFields
<1> HIDE DEF qs, to, R
<1>8. ASSUME NEW id \in DOMAIN ps
      PROVE  qs[id] \in PathRowType /\ qs[id].path = ps[id].path
  <2>1. ps[id] \in PathRowType /\ id # 0
    <3>1. id \in Ids(old) \cup Ids(new)
      BY OldDirIds
    <3> QED
      BY <3>1, <1>3, GivenTypes DEF PathTypes
  <2>2. CASE \E o \in K : o.dir = id
    <3>1. PICK o \in K : o.dir = id
      BY <2>2
    <3>2. PICK n \in Nodes(new) : Same(o, n)
      OBVIOUS
    <3>3. n.dir = id /\ n.fid \in Nat
      BY <3>1, <3>2, GivenTypes, NodeTypes DEF Same
    <3>4. qs[id] = ps[id] \/ qs[id] = [ps[id] EXCEPT !.fid = n.fid]
      BY <3>1, <3>2, <3>3, <2>1, <1>6
    <3>5. CASE qs[id] = [ps[id] EXCEPT !.fid = n.fid]
      <4>1. [ps[id] EXCEPT !.fid = n.fid] \in PathRowType /\ [ps[id] EXCEPT !.fid = n.fid].path = ps[id].path
        BY <3>3, <2>1, PathRowMoved
      <4> QED
        BY <4>1, <3>5
    <3> QED
      BY <3>4, <3>5, <2>1
  <2>3. CASE \A o \in K : o.dir # id
    BY <2>1, <2>3, <1>7
  <2> QED
    BY <2>2, <2>3
<1>9. PathTypes(qs) /\ PathNames(qs, old, new)
  <2>1. qs = [id \in DOMAIN qs |-> qs[id]]
    BY DEF Renumbered, qs
  <2> QED
    BY <2>1, <1>3, <1>5, <1>8 DEF PathTypes, PathNames
<1>10. OldDirs(qs, old, new, E, P \cup {d})
  <2>1. SUFFICES ASSUME NEW o \in Nodes(old), NEW n \in Nodes(new), Same(o, n), n.dir # 0
                 PROVE  OldRow(qs[n.dir], o, n, E, P \cup {d})
    BY DEF OldDirs
  <2>2. OldRow(ps[n.dir], o, n, E, P) /\ n.dir \in DOMAIN ps
    BY <2>1, <1>3, OldDirIds DEF OldDirs
  <2>3. CASE n.pid = d
    <3>1. o \in In(old, d)
      BY <2>1, <2>3 DEF In, Same
    <3>2. (qs[n.dir] = ps[n.dir] /\ n.fid = o.fid) \/ qs[n.dir] = [ps[n.dir] EXCEPT !.fid = n.fid]
      BY <3>1, <2>1, <1>6
    <3>3. ps[n.dir] \in PathRowType /\ n.fid \in Nat
      BY <2>2, <1>3, GivenTypes, NodeTypes DEF PathTypes
    <3>4. CASE qs[n.dir] = [ps[n.dir] EXCEPT !.fid = n.fid]
      <4>1. /\ qs[n.dir].parent = ps[n.dir].parent /\ qs[n.dir].fid = n.fid
            /\ qs[n.dir].items = ps[n.dir].items /\ qs[n.dir].size = ps[n.dir].size
        BY <3>3, <3>4, PathRowMoved
      <4> QED
        BY <4>1, <2>2, <2>3 DEF OldRow
    <3>5. CASE qs[n.dir] = ps[n.dir] /\ n.fid = o.fid
      BY <3>5, <2>2, <2>3 DEF OldRow
    <3> QED
      BY <3>2, <3>4, <3>5
  <2>4. CASE n.pid # d
    <3>1. \A a \in K : a.dir # n.dir
      <4>1. SUFFICES ASSUME NEW a \in K, a.dir = n.dir PROVE FALSE
        OBVIOUS
      <4>2. a \in Nodes(old) /\ a.pid = d
        BY DEF In
      <4>3. a = o
        BY <4>1, <4>2, <2>1, Keys DEF Given, Same
      <4> QED
        BY <4>2, <4>3, <2>1, <2>4 DEF Same
    <3>2. qs[n.dir] = ps[n.dir]
      BY <3>1, <2>2, <1>7
    <3> QED
      BY <3>2, <2>2, <2>4 DEF OldRow
  <2> QED
    BY <2>3, <2>4
<1>11. NewDirs(qs, old, new, E)
  <2>1. SUFFICES ASSUME NEW n \in Nodes(new), n.dir # 0, n.dir \notin Ids(old), WasAdded(n, E)
                 PROVE  n.dir \in DOMAIN qs /\ NewRow(qs[n.dir], n)
    BY DEF NewDirs
  <2>2. n.dir \in DOMAIN ps /\ NewRow(ps[n.dir], n)
    BY <2>1, <1>3 DEF NewDirs
  <2>3. \A a \in K : a.dir # n.dir
    <3>1. SUFFICES ASSUME NEW a \in K, a.dir = n.dir PROVE FALSE
      OBVIOUS
    <3>2. a \in Nodes(old)
      BY DEF In
    <3> QED
      BY <3>1, <3>2, <2>1, Keys DEF Given
  <2> QED
    BY <2>2, <2>3, <1>5, <1>7
<1>12. PathsRight(qs, old, new, E, P \cup {d})
  BY <1>3, <1>5, <1>9, <1>10, <1>11 DEF PathsRight
<1> QED
  BY <1>12 DEF qs, to

-----------------------------------------------------------------------------
(* The rows of files, line by line.                                        *)
LEMMA NowRowSame ==
  ASSUME NEW old, NEW new, NEW w, Given(old, new, w), NEW D, NEW E, NEW o \in Nodes(old),
         \A b \in Nodes(new) : Same(o, b) => (WasResized(o, b, E) <=> WasResized(o, b, D))
  PROVE  NowRow(o, new, E) = NowRow(o, new, D)
<1>1. NowSize(o, new, E) = NowSize(o, new, D)
  <2>1. CASE \E n \in Nodes(new) : Same(o, n)
    <3>1. PICK n \in Nodes(new) : Same(o, n)
      BY <2>1
    <3>2. NowSize(o, new, E) = IF WasResized(o, n, E) THEN n.size ELSE o.size
      BY <3>1, NowSizeIs
    <3>3. NowSize(o, new, D) = IF WasResized(o, n, D) THEN n.size ELSE o.size
      BY <3>1, NowSizeIs
    <3> QED
      BY <3>1, <3>2, <3>3
  <2>2. CASE \A n \in Nodes(new) : ~Same(o, n)
    BY <2>2 DEF NowSize
  <2> QED
    BY <2>1, <2>2
<1> QED
  BY <1>1 DEF NowRow

(* Lines that change no row of files.                                      *)
LEMMA FilesSame ==
  ASSUME NEW old, NEW new, NEW w, Given(old, new, w), NEW D, NEW E, NEW P, NEW ids,
         NEW fs, NEW fq, FilesRight(fs, fq, ids, old, new, D, P),
         NEW nf, NewRight(nf, old, new, D, P),
         \A o \in Nodes(old) : o.pid \in ids => (WasDeleted(o, E) <=> WasDeleted(o, D)),
         \A o \in Nodes(old), n \in Nodes(new) : Same(o, n) /\ n.pid \in ids =>
            (WasResized(o, n, E) <=> WasResized(o, n, D)),
         \A n \in Nodes(new) : n.pid # 0 => (WasAdded(n, E) <=> WasAdded(n, D))
  PROVE  FilesRight(fs, fq, ids, old, new, E, P) /\ NewRight(nf, old, new, E, P)
<1>1. Staying(old, E, P, ids) = Staying(old, D, P, ids)
  BY DEF Staying
<1>2. Arrived(old, new, E, P) = Arrived(old, new, D, P)
  BY DEF Arrived
<1>3. Waiting(old, new, E, P) = Waiting(old, new, D, P)
  <2>1. 0 \notin Ids(old)
    BY GivenTypes
  <2> QED
    BY <2>1 DEF Waiting
<1>4. \A o \in Staying(old, D, P, ids) : NowRow(o, new, E) = NowRow(o, new, D)
  <2>1. SUFFICES ASSUME NEW o \in Staying(old, D, P, ids)
                 PROVE  NowRow(o, new, E) = NowRow(o, new, D)
    OBVIOUS
  <2>2. o \in Nodes(old) /\ o.pid \in ids
    BY DEF Staying
  <2>3. \A b \in Nodes(new) : Same(o, b) => (WasResized(o, b, E) <=> WasResized(o, b, D))
    BY <2>2 DEF Same
  <2> QED
    BY <2>2, <2>3, NowRowSame
<1>5. {NowRow(o, new, E) : o \in Staying(old, D, P, ids)} = {NowRow(o, new, D) : o \in Staying(old, D, P, ids)}
  BY <1>4
<1>6. FilesRight(fs, fq, ids, old, new, E, P)
  BY <1>1, <1>2, <1>5 DEF FilesRight
<1>7. NewRight(nf, old, new, E, P)
  BY <1>3 DEF NewRight
<1> QED
  BY <1>6, <1>7

(* A path is added: no old entry is in the directory.                      *)
LEMMA FilesAddPath ==
  ASSUME NEW old, NEW new, NEW w, Given(old, new, w), NEW D, NEW P, NEW ids,
         NEW fs, NEW fq, FilesRight(fs, fq, ids, old, new, D, P),
         NEW nf, NewRight(nf, old, new, D, P),
         NEW k \in PathLines(new), k.id \notin Ids(old)
  PROVE  /\ FilesRight(fs, fq, ids \cup {k.id}, old, new, With(D, Mark("+", k)), P)
         /\ NewRight(nf, old, new, With(D, Mark("+", k)), P)
<1> DEFINE E == With(D, Mark("+", k))
<1>a. k \in PathsWith({""}) /\ E = With(D, Mark("+", k))
  BY GivenTypes
<1>b. k.id \in Ids(new) /\ k.id # 0
  <2>1. k.id \in Ids(new)
    BY DEF Ids
  <2> QED
    BY <2>1, GivenTypes
<1> HIDE DEF E
<1>1. \A a \in NodesWith({""}) : WasAdded(a, E) <=> WasAdded(a, D)
  BY <1>a, AfterPathLine
<1>2. \A a \in NodesWith({""}) : WasDeleted(a, E) <=> WasDeleted(a, D)
  BY <1>a, AfterPathLine
<1>3. \A a, b : WasResized(a, b, E) <=> WasResized(a, b, D)
  BY <1>a, AfterPathLine
<1>4. FilesRight(fs, fq, ids, old, new, E, P) /\ NewRight(nf, old, new, E, P)
  BY <1>1, <1>2, <1>3, GivenTypes, FilesSame
<1>5. \A o \in Nodes(old) : o.pid # k.id
  BY <1>b, Keys DEF Given
<1>6. Staying(old, E, P, ids \cup {k.id}) = Staying(old, E, P, ids)
  BY <1>5 DEF Staying
<1>7. FilesRight(fs, fq, ids \cup {k.id}, old, new, E, P)
  BY <1>4, <1>6 DEF FilesRight
<1> QED
  BY <1>4, <1>7, <1>a

(* A path is deleted, and the rows of its directory with it.               *)
LEMMA FilesDeletePath ==
  ASSUME NEW old, NEW new, NEW w, Given(old, new, w), NEW D, NEW P, P \subseteq Ids(new), NEW ids,
         NEW fs, NEW fq, FilesRight(fs, fq, ids, old, new, D, P),
         NEW nf, NewRight(nf, old, new, D, P),
         NEW k \in PathLines(old), k.id \notin Ids(new)
  PROVE  /\ FilesRight({r \in fs : r.pid # k.id}, fq, ids \ {k.id}, old, new, With(D, Mark("-", k)), P)
         /\ NewRight(nf, old, new, With(D, Mark("-", k)), P)
<1> DEFINE E == With(D, Mark("-", k))
           gs == {r \in fs : r.pid # k.id}
<1>a. k \in PathsWith({""}) /\ E = With(D, Mark("-", k))
  BY GivenTypes
<1>b. k.id \in Ids(old) /\ k.id # 0
  <2>1. k.id \in Ids(old)
    BY DEF Ids
  <2> QED
    BY <2>1, GivenTypes
<1> HIDE DEF E
<1>1. \A a \in NodesWith({""}) : WasAdded(a, E) <=> WasAdded(a, D)
  BY <1>a, AfterPathLine
<1>2. \A a \in NodesWith({""}) : WasDeleted(a, E) <=> WasDeleted(a, D)
  BY <1>a, AfterPathLine
<1>3. \A a, b : WasResized(a, b, E) <=> WasResized(a, b, D)
  BY <1>a, AfterPathLine
<1>4. FilesRight(fs, fq, ids, old, new, E, P) /\ NewRight(nf, old, new, E, P)
  BY <1>1, <1>2, <1>3, GivenTypes, FilesSame
<1>5. /\ fs \cup fq = {NowRow(o, new, E) : o \in Staying(old, E, P, ids)}
                        \cup {RowOf(n) : n \in Arrived(old, new, E, P)}
      /\ \A r \in fq : r.pid \in ids \ Ids(old)
  BY <1>4 DEF FilesRight
<1>6. Staying(old, E, P, ids \ {k.id}) = {o \in Staying(old, E, P, ids) : o.pid # k.id}
  BY DEF Staying
<1>7. \A n \in Arrived(old, new, E, P) : n.pid # k.id
  <2>1. \A n \in Nodes(new) : n.pid = 0 \/ n.pid \in Ids(new)
    BY Keys DEF Given
  <2> QED
    BY <2>1, <1>b DEF Arrived
<1>8. gs \cup fq = {r \in fs \cup fq : r.pid # k.id}
  BY <1>5, <1>b
<1>9. \A o : NowRow(o, new, E).pid = o.pid
  BY NowRowFields
<1>10. \A n : RowOf(n).pid = n.pid
  BY RowOfFields
<1> HIDE DEF gs
<1>11. gs \cup fq = {NowRow(o, new, E) : o \in Staying(old, E, P, ids \ {k.id})}
                      \cup {RowOf(n) : n \in Arrived(old, new, E, P)}
  <2>1. ASSUME NEW r \in gs \cup fq
        PROVE  r \in {NowRow(o, new, E) : o \in Staying(old, E, P, ids \ {k.id})}
                       \cup {RowOf(n) : n \in Arrived(old, new, E, P)}
    BY <1>5, <1>6, <1>8, <1>9
  <2>2. ASSUME NEW o \in Staying(old, E, P, ids \ {k.id})
        PROVE  NowRow(o, new, E) \in gs \cup fq
    BY <1>5, <1>6, <1>8, <1>9
  <2>3. ASSUME NEW n \in Arrived(old, new, E, P)
        PROVE  RowOf(n) \in gs \cup fq
    BY <1>5, <1>7, <1>8, <1>10
  <2> QED
    BY <2>1, <2>2, <2>3
<1>12. \A r \in fq : r.pid \in (ids \ {k.id}) \ Ids(old)
  BY <1>5, <1>b
<1>13. FilesRight(gs, fq, ids \ {k.id}, old, new, E, P)
  BY <1>11, <1>12 DEF FilesRight
<1> QED
  BY <1>13, <1>4, <1>a DEF gs

LEMMA FilesModifyPath ==
  ASSUME NEW old, NEW new, NEW w, Given(old, new, w), NEW D, NEW P, NEW ids,
         NEW fs, NEW fq, FilesRight(fs, fq, ids, old, new, D, P),
         NEW nf, NewRight(nf, old, new, D, P), NEW k \in PathLines(new)
  PROVE  /\ FilesRight(fs, fq, ids, old, new, With(D, Mark("*", k)), P)
         /\ NewRight(nf, old, new, With(D, Mark("*", k)), P)
<1> DEFINE E == With(D, Mark("*", k))
<1>a. k \in PathsWith({""}) /\ E = With(D, Mark("*", k))
  BY GivenTypes
<1> HIDE DEF E
<1>1. \A a \in NodesWith({""}) : WasAdded(a, E) <=> WasAdded(a, D)
  BY <1>a, AfterPathLine
<1>2. \A a \in NodesWith({""}) : WasDeleted(a, E) <=> WasDeleted(a, D)
  BY <1>a, AfterPathLine
<1>3. \A a, b : WasResized(a, b, E) <=> WasResized(a, b, D)
  BY <1>a, AfterPathLine
<1>4. FilesRight(fs, fq, ids, old, new, E, P) /\ NewRight(nf, old, new, E, P)
  BY <1>1, <1>2, <1>3, GivenTypes, FilesSame
<1> QED
  BY <1>4, <1>a

(* An entry is added: to a new directory at once, to an old one later.     *)
Collected(gs, gq, fs, fq, r) == gs \cup gq = (fs \cup fq) \cup {r} /\ gq \subseteq fq \cup {r}

LEMMA FilesAddEntry ==
  ASSUME NEW old, NEW new, NEW w, Given(old, new, w), NEW D, NEW P, NEW ids,
         NEW fs, NEW fq, FilesRight(fs, fq, ids, old, new, D, P),
         NEW nf, NewRight(nf, old, new, D, P),
         NEW n \in Nodes(new), n.pid \notin P,
         NEW gs, NEW gq
  PROVE  /\ n.pid = 0 => /\ FilesRight(fs, fq, ids, old, new, With(D, Mark("+", n)), P)
                         /\ NewRight(nf, old, new, With(D, Mark("+", n)), P)
         /\ n.pid \in Ids(old) => /\ FilesRight(fs, fq, ids, old, new, With(D, Mark("+", n)), P)
                                  /\ NewRight(nf \cup {RowOf(n)}, old, new, With(D, Mark("+", n)), P)
         /\ n.pid \in ids \ Ids(old) /\ n.pid # 0 /\ Collected(gs, gq, fs, fq, RowOf(n)) =>
              /\ FilesRight(gs, gq, ids, old, new, With(D, Mark("+", n)), P)
              /\ NewRight(nf, old, new, With(D, Mark("+", n)), P)
<1> DEFINE E == With(D, Mark("+", n))
<1>a. n \in NodesWith({""}) /\ E = With(D, Mark("+", n))
  BY GivenTypes
<1>b. 0 \notin Ids(old)
  BY GivenTypes
<1>0. \A a \in Nodes(old) \cup Nodes(new) : a \in NodesWith({""})
  BY GivenTypes
<1> HIDE DEF E
<1>1. \A a \in NodesWith({""}) : WasAdded(a, E) <=> WasAdded(a, D) \/ a = n
  <2>1. \A a \in NodesWith({""}) : WasAdded(a, With(D, Mark("+", n))) <=> WasAdded(a, D) \/ (a = n /\ "+" = "+")
    BY <1>a, AfterNodeLine
  <2> QED
    BY <2>1, <1>a
<1>2. \A a \in NodesWith({""}) : WasDeleted(a, E) <=> WasDeleted(a, D)
  <2>1. \A a \in NodesWith({""}) : WasDeleted(a, With(D, Mark("+", n))) <=> WasDeleted(a, D) \/ (a = n /\ "+" = "-")
    BY <1>a, AfterNodeLine
  <2> QED
    BY <2>1, <1>a
<1>3. \A a, b : WasResized(a, b, E) <=> WasResized(a, b, D)
  BY <1>a, AfterNodeLine
<1>4. /\ fs \cup fq = {NowRow(o, new, D) : o \in Staying(old, D, P, ids)}
                        \cup {RowOf(m) : m \in Arrived(old, new, D, P)}
      /\ \A r \in fq : r.pid \in ids \ Ids(old)
      /\ nf = {RowOf(m) : m \in Waiting(old, new, D, P)}
  BY DEF FilesRight, NewRight
<1>5. Staying(old, E, P, ids) = Staying(old, D, P, ids)
  BY <1>0, <1>2 DEF Staying
<1>6. {NowRow(o, new, E) : o \in Staying(old, D, P, ids)} = {NowRow(o, new, D) : o \in Staying(old, D, P, ids)}
  <2>1. \A o \in Staying(old, D, P, ids) : NowRow(o, new, E) = NowRow(o, new, D)
    <3>1. Staying(old, D, P, ids) \subseteq Nodes(old)
      BY DEF Staying
    <3> QED
      BY <3>1, <1>3, NowRowSame
  <2> QED
    BY <2>1
<1>7. Waiting(old, new, E, P) = Waiting(old, new, D, P) \cup (IF n.pid \in Ids(old) THEN {n} ELSE {})
  BY <1>0, <1>1 DEF Waiting
<1>8. /\ n.pid = 0 \/ n.pid \in Ids(old) => Arrived(old, new, E, P) = Arrived(old, new, D, P)
      /\ n.pid # 0 /\ n.pid \notin Ids(old) => Arrived(old, new, E, P) = Arrived(old, new, D, P) \cup {n}
  <2>1. \A a \in Nodes(new) : WasAdded(a, E) <=> WasAdded(a, D) \/ a = n
    BY <1>0, <1>1
  <2>2. n.pid = 0 \/ n.pid \in Ids(old) => Arrived(old, new, E, P) = Arrived(old, new, D, P)
    BY <2>1 DEF Arrived
  <2>3. n.pid # 0 /\ n.pid \notin Ids(old) => Arrived(old, new, E, P) = Arrived(old, new, D, P) \cup {n}
    BY <2>1 DEF Arrived
  <2> QED
    BY <2>2, <2>3
<1>9. CASE n.pid = 0 \/ n.pid \in Ids(old)
  <2>1. Arrived(old, new, E, P) = Arrived(old, new, D, P)
    BY <1>8, <1>9
  <2>2. FilesRight(fs, fq, ids, old, new, E, P)
    BY <2>1, <1>4, <1>5, <1>6 DEF FilesRight
  <2>3. n.pid = 0 => NewRight(nf, old, new, E, P)
    BY <1>4, <1>7, <1>b DEF NewRight
  <2>4. n.pid \in Ids(old) => NewRight(nf \cup {RowOf(n)}, old, new, E, P)
    <3>1. n.pid \in Ids(old) => Waiting(old, new, E, P) = Waiting(old, new, D, P) \cup {n}
      BY <1>7
    <3> QED
      BY <3>1, <1>4 DEF NewRight
  <2> QED
    BY <2>2, <2>3, <2>4, <1>9, <1>a, <1>b
<1>10. CASE /\ n.pid \in ids \ Ids(old) /\ n.pid # 0
            /\ Collected(gs, gq, fs, fq, RowOf(n))
  <2>1. Arrived(old, new, E, P) = Arrived(old, new, D, P) \cup {n}
    BY <1>8, <1>10
  <2>2. gs \cup gq = {NowRow(o, new, E) : o \in Staying(old, E, P, ids)}
                       \cup {RowOf(m) : m \in Arrived(old, new, E, P)}
    BY <2>1, <1>4, <1>5, <1>6, <1>10 DEF Collected
  <2>3. \A r \in gq : r.pid \in ids \ Ids(old)
    BY <1>4, <1>10, RowOfFields DEF Collected
  <2>4. NewRight(nf, old, new, E, P)
    BY <1>4, <1>7, <1>10 DEF NewRight
  <2> QED
    BY <2>2, <2>3, <2>4, <1>10, <1>a, <1>b DEF FilesRight
<1> QED
  BY <1>9, <1>10, <1>a, <1>b

(* The rows of files with the numbers of an old entry that has not been    *)
(* deleted, in a directory that has not been pushed: only its own.         *)
LEMMA RowOfEntry ==
  ASSUME NEW old, NEW new, NEW w, Given(old, new, w), NEW D, NEW P, NEW ids,
         NEW fs, NEW fq, FilesRight(fs, fq, ids, old, new, D, P),
         NEW o \in Nodes(old), o.pid # 0, o.pid \in ids, o.pid \notin P, ~WasDeleted(o, D)
  PROVE  /\ NowRow(o, new, D) \in fs
         /\ \A r \in fs : r.pid = o.pid /\ r.fid = o.fid <=> r = NowRow(o, new, D)
<1>1. /\ fs \cup fq = {NowRow(a, new, D) : a \in Staying(old, D, P, ids)}
                        \cup {RowOf(m) : m \in Arrived(old, new, D, P)}
      /\ \A r \in fq : r.pid \in ids \ Ids(old)
  BY DEF FilesRight
<1>2. o.pid \in Ids(old)
  BY Keys DEF Given
<1>3. o \in Staying(old, D, P, ids)
  BY DEF Staying
<1>4. NowRow(o, new, D).pid = o.pid /\ NowRow(o, new, D).fid = o.fid
  BY NowRowFields
<1>5. NowRow(o, new, D) \in fs
  BY <1>1, <1>2, <1>3, <1>4
<1>6. ASSUME NEW r \in fs, r.pid = o.pid, r.fid = o.fid
      PROVE  r = NowRow(o, new, D)
  <2>1. CASE \E a \in Staying(old, D, P, ids) : r = NowRow(a, new, D)
    <3>1. PICK a \in Staying(old, D, P, ids) : r = NowRow(a, new, D)
      BY <2>1
    <3>2. a \in Nodes(old)
      BY DEF Staying
    <3>3. a.pid = o.pid /\ a.fid = o.fid
      BY <3>1, <1>6, NowRowFields
    <3>4. a = o
      BY <3>2, <3>3, Keys DEF Given
    <3> QED
      BY <3>1, <3>4
  <2>2. CASE \E m \in Arrived(old, new, D, P) : r = RowOf(m)
    <3>1. PICK m \in Arrived(old, new, D, P) : r = RowOf(m)
      BY <2>2
    <3>2. m.pid = o.pid
      BY <3>1, <1>6, RowOfFields
    <3> QED
      BY <3>2, <1>2 DEF Arrived
  <2> QED
    BY <2>1, <2>2, <1>1
<1> QED
  BY <1>4, <1>5, <1>6

LEMMA FilesDeleteEntry ==
  ASSUME NEW old, NEW new, NEW w, Given(old, new, w), NEW D, NEW P, NEW ids,
         NEW fs, NEW fq, FilesRight(fs, fq, ids, old, new, D, P),
         NEW nf, NewRight(nf, old, new, D, P),
         NEW o \in Nodes(old), o.pid # 0, o.pid \in ids, o.pid \notin P, ~WasDeleted(o, D)
  PROVE  /\ FilesRight({r \in fs : ~(r.pid = o.pid /\ r.fid = o.fid)}, fq, ids,
                       old, new, With(D, Mark("-", o)), P)
         /\ NewRight(nf, old, new, With(D, Mark("-", o)), P)
<1> DEFINE E == With(D, Mark("-", o))
           gs == {r \in fs : ~(r.pid = o.pid /\ r.fid = o.fid)}
           r0 == NowRow(o, new, D)
<1>a. o \in NodesWith({""}) /\ E = With(D, Mark("-", o))
  BY GivenTypes
<1>0. \A a \in Nodes(old) \cup Nodes(new) : a \in NodesWith({""})
  BY GivenTypes
<1>b. gs = fs \ {r0}
  BY RowOfEntry
<1> HIDE DEF E, gs
<1>1. \A a \in NodesWith({""}) : WasAdded(a, E) <=> WasAdded(a, D)
  <2>1. \A a \in NodesWith({""}) : WasAdded(a, With(D, Mark("-", o))) <=> WasAdded(a, D) \/ (a = o /\ "-" = "+")
    BY <1>a, AfterNodeLine
  <2> QED
    BY <2>1, <1>a
<1>2. \A a \in NodesWith({""}) : WasDeleted(a, E) <=> WasDeleted(a, D) \/ a = o
  <2>1. \A a \in NodesWith({""}) : WasDeleted(a, With(D, Mark("-", o))) <=> WasDeleted(a, D) \/ (a = o /\ "-" = "-")
    BY <1>a, AfterNodeLine
  <2> QED
    BY <2>1, <1>a
<1>3. \A a, b : WasResized(a, b, E) <=> WasResized(a, b, D)
  BY <1>a, AfterNodeLine
<1>4. /\ fs \cup fq = {NowRow(a, new, D) : a \in Staying(old, D, P, ids)}
                        \cup {RowOf(m) : m \in Arrived(old, new, D, P)}
      /\ \A r \in fq : r.pid \in ids \ Ids(old)
  BY DEF FilesRight
<1>5. Staying(old, E, P, ids) = Staying(old, D, P, ids) \ {o} /\ o \in Staying(old, D, P, ids)
  <2>1. \A a \in Nodes(old) : WasDeleted(a, E) <=> WasDeleted(a, D) \/ a = o
    BY <1>0, <1>2
  <2> QED
    BY <2>1 DEF Staying
<1>6. \A a \in Staying(old, D, P, ids) : NowRow(a, new, E) = NowRow(a, new, D)
  <2>1. Staying(old, D, P, ids) \subseteq Nodes(old)
    BY DEF Staying
  <2> QED
    BY <2>1, <1>3, NowRowSame
<1>7. \A a \in Staying(old, D, P, ids) : NowRow(a, new, D) = r0 => a = o
  <2>1. SUFFICES ASSUME NEW a \in Staying(old, D, P, ids), NowRow(a, new, D) = r0
                 PROVE  a = o
    OBVIOUS
  <2>2. a.pid = o.pid /\ a.fid = o.fid
    BY <2>1, NowRowFields
  <2>3. a \in Nodes(old)
    BY DEF Staying
  <2> QED
    BY <2>2, <2>3, Keys DEF Given
<1>8. o.pid \in Ids(old)
  BY Keys DEF Given
<1>9. \A m \in Arrived(old, new, D, P) : RowOf(m) # r0
  <2>1. SUFFICES ASSUME NEW m \in Arrived(old, new, D, P), RowOf(m) = r0
                 PROVE  FALSE
    OBVIOUS
  <2>2. m.pid = o.pid
    BY <2>1, RowOfFields, NowRowFields
  <2> QED
    BY <2>2, <1>8 DEF Arrived
<1>10. r0 \notin fq
  BY <1>4, <1>8, NowRowFields
<1>11. Arrived(old, new, E, P) = Arrived(old, new, D, P)
  BY <1>0, <1>1 DEF Arrived
<1>12. gs \cup fq = {NowRow(a, new, E) : a \in Staying(old, E, P, ids)}
                      \cup {RowOf(m) : m \in Arrived(old, new, E, P)}
  <2> HIDE DEF r0
  <2>1. gs \cup fq = (fs \cup fq) \ {r0}
    BY <1>b, <1>10
  <2>2. \A a \in Staying(old, E, P, ids) : /\ NowRow(a, new, E) = NowRow(a, new, D)
                                           /\ NowRow(a, new, D) # r0
                                           /\ a \in Staying(old, D, P, ids)
    BY <1>5, <1>6, <1>7
  <2>3. ASSUME NEW r \in gs \cup fq
        PROVE  r \in {NowRow(a, new, E) : a \in Staying(old, E, P, ids)}
                       \cup {RowOf(m) : m \in Arrived(old, new, D, P)}
    <3>1. CASE \E a \in Staying(old, D, P, ids) : r = NowRow(a, new, D)
      <4>1. PICK a \in Staying(old, D, P, ids) : r = NowRow(a, new, D)
        BY <3>1
      <4>2. a # o
        BY <4>1, <2>1 DEF r0
      <4> QED
        BY <4>1, <4>2, <1>5, <2>2
    <3>2. CASE \E m \in Arrived(old, new, D, P) : r = RowOf(m)
      BY <3>2
    <3> QED
      BY <3>1, <3>2, <2>1, <1>4
  <2>4. ASSUME NEW a \in Staying(old, E, P, ids)
        PROVE  NowRow(a, new, E) \in gs \cup fq
    BY <2>1, <2>2, <1>4
  <2>5. ASSUME NEW m \in Arrived(old, new, D, P)
        PROVE  RowOf(m) \in gs \cup fq
    BY <2>1, <1>4, <1>9
  <2>6. gs \cup fq = {NowRow(a, new, E) : a \in Staying(old, E, P, ids)}
                       \cup {RowOf(m) : m \in Arrived(old, new, D, P)}
    BY <2>3, <2>4, <2>5
  <2> QED
    BY <2>6, <1>11
<1>13. FilesRight(gs, fq, ids, old, new, E, P)
  BY <1>12, <1>4 DEF FilesRight
<1>14. NewRight(nf, old, new, E, P)
  <2>1. Waiting(old, new, E, P) = Waiting(old, new, D, P)
    BY <1>0, <1>1 DEF Waiting
  <2> QED
    BY <2>1 DEF NewRight
<1> QED
  BY <1>13, <1>14, <1>a DEF gs

LEMMA FilesModifyEntry ==
  ASSUME NEW old, NEW new, NEW w, Given(old, new, w), NEW D, D \subseteq ToSet(w), NEW P, NEW ids, 0 \notin ids,
         NEW fs, NEW fq, FilesRight(fs, fq, ids, old, new, D, P),
         NEW nf, NewRight(nf, old, new, D, P),
         NEW o \in Nodes(old), NEW n \in Nodes(new), Same(o, n), n.pid \notin P
  PROVE  /\ n.pid # 0 /\ n.pid \in ids =>
              FilesRight(WithSize(fs, Told(o, n)), fq, ids, old, new, With(D, Told(o, n)), P)
         /\ n.pid = 0 => FilesRight(fs, fq, ids, old, new, With(D, Told(o, n)), P)
         /\ NewRight(nf, old, new, With(D, Told(o, n)), P)
<1> DEFINE E == With(D, Told(o, n))
           up(r) == IF r.pid = n.pid /\ r.fid = o.fid THEN [r EXCEPT !.size = n.size] ELSE r
           gs == {up(r) : r \in fs}
           r0 == NowRow(o, new, D)
<1>a. E = With(D, Told(o, n)) /\ o.pid = n.pid
  BY DEF Same
<1>0. \A a \in Nodes(old) \cup Nodes(new) : a \in NodesWith({""})
  BY GivenTypes
<1> HIDE DEF E
<1>1. \A a \in NodesWith({""}) : WasAdded(a, E) <=> WasAdded(a, D)
  BY <1>a, AfterTold
<1>2. \A a \in NodesWith({""}) : WasDeleted(a, E) <=> WasDeleted(a, D)
  BY <1>a, AfterTold
<1>3. \A a \in Nodes(old), b \in Nodes(new) : Same(a, b) =>
        (WasResized(a, b, E) <=> WasResized(a, b, D) \/ b = n)
  BY <1>a, ResizedAfterTold
<1>4. /\ fs \cup fq = {NowRow(a, new, D) : a \in Staying(old, D, P, ids)}
                        \cup {RowOf(m) : m \in Arrived(old, new, D, P)}
      /\ \A r \in fq : r.pid \in ids \ Ids(old)
  BY DEF FilesRight
<1>5. /\ Staying(old, E, P, ids) = Staying(old, D, P, ids)
      /\ Arrived(old, new, E, P) = Arrived(old, new, D, P)
      /\ Waiting(old, new, E, P) = Waiting(old, new, D, P)
  BY <1>0, <1>1, <1>2 DEF Staying, Arrived, Waiting
<1>6. NewRight(nf, old, new, E, P)
  BY <1>5 DEF NewRight
<1>7. ASSUME NEW a \in Nodes(old), a # o
      PROVE  NowRow(a, new, E) = NowRow(a, new, D)
  <2>1. \A b \in Nodes(new) : Same(a, b) => b # n
    BY <1>7, Counterparts
  <2>2. \A b \in Nodes(new) : Same(a, b) => (WasResized(a, b, E) <=> WasResized(a, b, D))
    BY <2>1, <1>3
  <2> QED
    BY <2>2, NowRowSame
<1>8. ASSUME n.pid = 0
      PROVE  FilesRight(fs, fq, ids, old, new, E, P)
  <2>1. \A a \in Staying(old, D, P, ids) : NowRow(a, new, E) = NowRow(a, new, D)
    BY <1>7, <1>8, <1>a DEF Staying
  <2>2. {NowRow(a, new, E) : a \in Staying(old, D, P, ids)} = {NowRow(a, new, D) : a \in Staying(old, D, P, ids)}
    BY <2>1
  <2> QED
    BY <2>2, <1>4, <1>5 DEF FilesRight
<1>9. ASSUME n.pid # 0, n.pid \in ids
      PROVE  FilesRight(gs, fq, ids, old, new, E, P)
  <2>1. ~WasDeleted(o, D)
    <3>1. SUFFICES ASSUME Mark("-", o) \in D PROVE FALSE
      BY DEF WasDeleted
    <3>2. Mark("-", o) \in ToSet(w)
      BY <3>1
    <3> QED
      BY <3>2, DeletedMeans
  <2>2. /\ r0 \in fs
        /\ \A r \in fs : r.pid = o.pid /\ r.fid = o.fid <=> r = r0
    BY <2>1, <1>9, <1>a, RowOfEntry
  <2>3. up(r0) = NowRow(o, new, E)
    <3>1. WasResized(o, n, E)
      BY <1>3
    <3>2. NowSize(o, new, E) = n.size
      BY <3>1, NowSizeIs
    <3>3. r0 = Row(o.pid, o.fid, o.dir, NowSize(o, new, D), o.name)
      BY DEF NowRow
    <3>4. [r0 EXCEPT !.size = n.size] = Row(o.pid, o.fid, o.dir, n.size, o.name)
      BY <3>3, RowResized
    <3>5. up(r0) = [r0 EXCEPT !.size = n.size]
      BY <2>2, <1>a
    <3> QED
      BY <3>2, <3>4, <3>5 DEF NowRow
  <2>4. \A r \in fs : r # r0 => up(r) = r
    BY <2>2, <1>a
  <2>5. gs = (fs \ {r0}) \cup {NowRow(o, new, E)}
    <3> HIDE DEF up, r0
    <3> QED
      BY <2>2, <2>3, <2>4
  <2>6. o \in Staying(old, D, P, ids) /\ o.pid \in Ids(old)
    BY <2>1, <1>9, <1>a, Keys DEF Staying, Given
  <2>7. r0 \notin fq
    BY <1>4, <2>6, NowRowFields
  <2>8. \A m \in Arrived(old, new, D, P) : RowOf(m) # r0
    <3>1. SUFFICES ASSUME NEW m \in Arrived(old, new, D, P), RowOf(m) = r0
                   PROVE  FALSE
      OBVIOUS
    <3>2. m.pid = o.pid
      BY <3>1, RowOfFields, NowRowFields
    <3> QED
      BY <3>2, <2>6, <1>a DEF Arrived
  <2>9. \A a \in Staying(old, D, P, ids) : a # o => /\ NowRow(a, new, D) # r0
                                                   /\ NowRow(a, new, E) = NowRow(a, new, D)
    <3>1. SUFFICES ASSUME NEW a \in Staying(old, D, P, ids), a # o
                   PROVE  /\ NowRow(a, new, D) # r0
                          /\ NowRow(a, new, E) = NowRow(a, new, D)
      OBVIOUS
    <3>2. a \in Nodes(old)
      BY DEF Staying
    <3>3. ~(a.pid = o.pid /\ a.fid = o.fid)
      BY <3>1, <3>2, <1>9, <1>a, Keys DEF Given
    <3>4. NowRow(a, new, D) # r0
      BY <3>3, NowRowFields
    <3> QED
      BY <3>1, <3>2, <3>4, <1>7
  <2> HIDE DEF r0, gs, up
  <2>10. gs \cup fq = ((fs \cup fq) \ {r0}) \cup {NowRow(o, new, E)}
    BY <2>5, <2>7
  <2>11. ASSUME NEW r \in gs \cup fq
         PROVE  r \in {NowRow(a, new, E) : a \in Staying(old, D, P, ids)}
                        \cup {RowOf(m) : m \in Arrived(old, new, D, P)}
    <3>1. CASE r = NowRow(o, new, E)
      BY <3>1, <2>6
    <3>2. CASE r # r0 /\ \E a \in Staying(old, D, P, ids) : r = NowRow(a, new, D)
      <4>1. PICK a \in Staying(old, D, P, ids) : r = NowRow(a, new, D)
        BY <3>2
      <4>2. a # o
        BY <4>1, <3>2 DEF r0
      <4> QED
        BY <4>1, <4>2, <2>9
    <3>3. CASE \E m \in Arrived(old, new, D, P) : r = RowOf(m)
      BY <3>3
    <3> QED
      BY <3>1, <3>2, <3>3, <2>10, <1>4
  <2>12. ASSUME NEW a \in Staying(old, D, P, ids)
         PROVE  NowRow(a, new, E) \in gs \cup fq
    BY <2>9, <2>10, <1>4
  <2>13. ASSUME NEW m \in Arrived(old, new, D, P)
         PROVE  RowOf(m) \in gs \cup fq
    BY <2>8, <2>10, <1>4
  <2>14. gs \cup fq = {NowRow(a, new, E) : a \in Staying(old, D, P, ids)}
                        \cup {RowOf(m) : m \in Arrived(old, new, D, P)}
    BY <2>11, <2>12, <2>13
  <2> QED
    BY <2>14, <1>4, <1>5 DEF FilesRight
<1>10. WithSize(fs, Told(o, n)) = gs
  BY ToldFields DEF WithSize, gs, up
<1> HIDE DEF gs, up
<1> QED
  BY <1>6, <1>8, <1>9, <1>10, <1>a

(* Directory d may be pushed: all lines about its entries are in D.        *)
Pushable(d, db, fq, old, new, w, D, E, P) ==
  /\ Given(old, new, w) /\ D \subseteq ToSet(w)
  /\ d \in Announced(w) /\ d \notin P /\ \A l \in Nodes(w) : l.pid = d => l \in D
  /\ db.ok = TRUE /\ PathsRight(db.paths, old, new, E, P)
  /\ FilesRight(db.files, fq, DOMAIN db.paths, old, new, D, P)
  /\ NewRight(db.newfiles, old, new, D, P)

LEMMA PushRight ==
  ASSUME NEW d, NEW db, NEW fq, NEW old, NEW new, NEW w, NEW D, NEW E, NEW P,
         Pushable(d, db, fq, old, new, w, D, E, P)
  PROVE  /\ Push(d, db).ok
         /\ PathsRight(Push(d, db).paths, old, new, E, P \cup {d})
         /\ DOMAIN Push(d, db).paths = DOMAIN db.paths
         /\ FilesRight(Push(d, db).files, fq, DOMAIN db.paths, old, new, D, P \cup {d})
         /\ NewRight(Push(d, db).newfiles, old, new, D, P \cup {d})
<1> DEFINE R == RowsIn(db.files, d)
           N == RowsIn(db.newfiles, d)
           to == To(db.files, db.newfiles, d)
<1>0. /\ Given(old, new, w) /\ D \subseteq ToSet(w)
      /\ d \in Announced(w) /\ d \notin P /\ \A l \in Nodes(w) : l.pid = d => l \in D
      /\ db.ok = TRUE /\ PathsRight(db.paths, old, new, E, P)
      /\ FilesRight(db.files, fq, DOMAIN db.paths, old, new, D, P)
      /\ NewRight(db.newfiles, old, new, D, P)
  BY DEF Pushable
<1>1. /\ Push(d, db).ok = (/\ db.ok
                           /\ ~(\E a, b \in N, r \in R : a # b /\ a.fid = b.fid /\ to[r] > a.fid)
                           /\ (N # {} => d \in DOMAIN db.paths))
      /\ Push(d, db).paths = Renumbered(db.paths, to)
      /\ Push(d, db).files = (db.files \ R) \cup N \cup {[r EXCEPT !.fid = to[r]] : r \in R}
      /\ Push(d, db).newfiles = db.newfiles \ N
  BY PushIs
<1>2. d \in DOMAIN db.paths
  BY <1>0, AnnouncedIds, OldDirIds
<1>3. \A a, b \in N : a.fid = b.fid => a = b
  BY <1>0, <1>2, PushGoes
<1>4. Push(d, db).ok
  BY <1>0, <1>1, <1>2, <1>3
<1>5. PathsRight(Renumbered(db.paths, to), old, new, E, P \cup {d})
  BY <1>0, <1>2, PathsPush
<1>6. /\ FilesRight((db.files \ R) \cup N \cup {[r EXCEPT !.fid = to[r]] : r \in R}, fq, DOMAIN db.paths,
                    old, new, D, P \cup {d})
      /\ NewRight(db.newfiles \ N, old, new, D, P \cup {d})
  BY <1>0, <1>2, FilesPush
<1>7. DOMAIN Renumbered(db.paths, to) = DOMAIN db.paths
  BY DEF Renumbered
<1> QED
  BY <1>1, <1>4, <1>5, <1>6, <1>7

-----------------------------------------------------------------------------
(* The order of the lines, and paths_buffer.                               *)
LEMMA TurnOf ==
  ASSUME NEW old, NEW new, NEW w, Given(old, new, w), NEW i \in 1..Len(w),
         NEW D, D = {w[j] : j \in 1..(i - 1)}
  PROVE  Turn(w, D, w[i]) /\ {w[j] : j \in 1..i} = With(D, w[i])
<1> DEFINE l == w[i]
<1>1. /\ w \in Seq(LinesWith({"+", "-", "*"})) /\ InOrder(w)
      /\ \A j, k \in DOMAIN w : w[j] = w[k] => j = k
  BY DEF Given, IsPatch, IsInjective
<1>2. DOMAIN w = 1..Len(w) /\ Len(w) \in Nat
  BY <1>1
<1>3. \A m \in ToSet(w) : \E j \in 1..Len(w) : w[j] = m
  BY <1>1, LinesOf
<1>4. D \subseteq ToSet(w) /\ l \in ToSet(w)
  BY <1>1, <1>2, LinesOf
<1>5. \A j \in 1..Len(w) : w[j] \in D <=> j < i
  BY <1>1, <1>2
<1>6. l \notin D
  BY <1>5
<1>7. {w[j] : j \in 1..i} = With(D, l)
  <2>1. 1..i = (1..(i - 1)) \cup {i}
    OBVIOUS
  <2> QED
    BY <2>1 DEF With
<1>8. ASSUME l.kind = "node", NEW k \in PathLines(w), k.act # "-", k.id \in {l.pid, l.dir}
      PROVE  k \in D
  <2>1. PICK j \in 1..Len(w) : w[j] = k
    BY <1>3 DEF PathLines
  <2>2. k.kind = "path"
    BY DEF PathLines
  <2>3. j < i
    BY <2>1, <2>2, <1>1, <1>2, <1>8 DEF InOrder
  <2> QED
    BY <2>1, <2>3, <1>5
<1>9. ASSUME l.kind = "node", l.pid # 0, NEW m \in Nodes(w), m.act # "-", m.dir = l.pid
      PROVE  m \notin With(D, l)
  <2>1. PICK j \in 1..Len(w) : w[j] = m
    BY <1>3 DEF Nodes
  <2>2. m.kind = "node"
    BY DEF Nodes
  <2>3. i < j
    BY <2>1, <2>2, <1>1, <1>2, <1>9 DEF InOrder
  <2>4. w[j] \notin D /\ w[j] # l
    BY <2>3, <1>1, <1>2, <1>5
  <2> QED
    BY <2>1, <2>4 DEF With
<1>10. ASSUME l.kind = "node", l.act # "-", NEW m \in Nodes(w), m.pid # 0, m.pid = l.dir
       PROVE  m \in D
  <2>1. PICK j \in 1..Len(w) : w[j] = m
    BY <1>3 DEF Nodes
  <2>2. m.kind = "node"
    BY DEF Nodes
  <2>3. j < i
    BY <2>1, <2>2, <1>1, <1>2, <1>10 DEF InOrder
  <2> QED
    BY <2>1, <2>3, <1>5
<1> QED
  BY <1>4, <1>6, <1>7, <1>8, <1>9, <1>10 DEF Turn

(* A directory has one line that opens it and one that ends it.            *)
LEMMA OnePath ==
  ASSUME NEW old, NEW new, NEW w, Given(old, new, w),
         NEW l \in PathLines(w), l.act # "-"
  PROVE  /\ \E k \in PathLines(new) : /\ l.id = k.id /\ l.id # 0
                                      /\ \/ k.id \notin Ids(old) /\ l = Mark("+", k)
                                         \/ k.id \in Announced(w) /\ l = Mark("*", k)
         /\ \A m \in PathLines(w) : m.act # "-" /\ m.id = l.id => m = l
<1> DEFINE Opens(a) == \E k \in PathLines(new) : /\ a.id = k.id /\ a.id # 0
                                                 /\ \/ k.id \notin Ids(old) /\ a = Mark("+", k)
                                                    \/ k.id \in Announced(w) /\ a = Mark("*", k)
<1>0. /\ \A a \in Nodes(old) \cup Nodes(new) : a \in NodesWith({""})
      /\ \A a \in PathLines(old) \cup PathLines(new) : a \in PathsWith({""})
  BY GivenTypes
<1>1. ASSUME NEW a \in PathLines(w), a.act # "-"
      PROVE  Opens(a)
  <2>1. IsLine(old, new, w, a) /\ a.kind = "path"
    BY LineIs DEF PathLines
  <2>2. \A c : \A k \in Nodes(old) \cup Nodes(new) : a # Mark(c, k)
    <3>1. \A c : \A k \in Nodes(old) \cup Nodes(new) : Mark(c, k).kind = "node"
      BY <1>0, NodeMark
    <3> QED
      BY <3>1, <2>1
  <2>3. \A p, q : a # Told(p, q)
    BY <2>1, ToldFields
  <2>4. ASSUME NEW k \in PathLines(old), a = Mark("-", k)
        PROVE  FALSE
    <3>1. k \in PathsWith({""})
      BY <1>0
    <3>2. Mark("-", k).act = "-"
      BY <3>1, PathMark
    <3> QED
      BY <3>2, <2>4, <1>1
  <2>5. \/ \E k \in PathLines(new) : k.id \notin Ids(old) /\ a = Mark("+", k)
        \/ \E k \in PathLines(new) : k.id \in Announced(w) /\ a = Mark("*", k)
    BY <2>1, <2>2, <2>3, <2>4 DEF IsLine
  <2>6. PICK k \in PathLines(new) : \/ k.id \notin Ids(old) /\ a = Mark("+", k)
                                    \/ k.id \in Announced(w) /\ a = Mark("*", k)
    BY <2>5
  <2>7. a.id = k.id
    <3>1. k \in PathsWith({""})
      BY <1>0
    <3>2. Mark("+", k).id = k.id /\ Mark("*", k).id = k.id
      BY <3>1, PathMark
    <3> QED
      BY <3>2, <2>6
  <2>8. k.id # 0
    BY GivenTypes DEF Ids
  <2> QED
    BY <2>6, <2>7, <2>8
<1>2. ASSUME NEW m \in PathLines(w), m.act # "-", m.id = l.id
      PROVE  m = l
  <2>1. PICK k1 \in PathLines(new) : /\ l.id = k1.id
                                     /\ \/ k1.id \notin Ids(old) /\ l = Mark("+", k1)
                                        \/ k1.id \in Announced(w) /\ l = Mark("*", k1)
    BY <1>1
  <2>2. PICK k2 \in PathLines(new) : /\ m.id = k2.id
                                     /\ \/ k2.id \notin Ids(old) /\ m = Mark("+", k2)
                                        \/ k2.id \in Announced(w) /\ m = Mark("*", k2)
    BY <1>1, <1>2
  <2>3. k1 = k2
    <3>1. Proper(new)
      BY DEF Given
    <3>2. k1.id = k2.id
      BY <2>1, <2>2, <1>2
    <3> QED
      BY <3>1, <3>2, Keys
  <2>4. Announced(w) \subseteq Ids(old)
    BY AnnouncedIds
  <2> QED
    BY <2>1, <2>2, <2>3, <2>4
<1>3. Opens(l)
  BY <1>1
<1> QED
  BY <1>2, <1>3

LEMMA OneEnd ==
  ASSUME NEW old, NEW new, NEW w, Given(old, new, w),
         NEW l \in Nodes(w), l.act # "-"
  PROVE  /\ \E n \in Nodes(new) :
              /\ l.dir = n.dir /\ l.pid = n.pid
              /\ \/ (\A o \in Nodes(old) : ~Same(o, n)) /\ l = Mark("+", n)
                 \/ \E o \in Nodes(old) : Same(o, n) /\ l = Told(o, n)
         /\ \A m \in Nodes(w) : m.act # "-" /\ m.dir = l.dir /\ m.dir # 0 => m = l
<1> DEFINE Ends(a, n) == /\ a.dir = n.dir /\ a.pid = n.pid
                         /\ \/ (\A o \in Nodes(old) : ~Same(o, n)) /\ a = Mark("+", n)
                            \/ \E o \in Nodes(old) : Same(o, n) /\ a = Told(o, n)
<1>0. /\ \A a \in Nodes(old) \cup Nodes(new) : a \in NodesWith({""})
      /\ \A a \in PathLines(old) \cup PathLines(new) : a \in PathsWith({""})
  BY GivenTypes
<1>1. ASSUME NEW a \in Nodes(w), a.act # "-"
      PROVE  \E n \in Nodes(new) : Ends(a, n)
  <2>1. IsLine(old, new, w, a) /\ a.kind = "node"
    BY LineIs DEF Nodes
  <2>2. \A c : \A k \in PathLines(old) \cup PathLines(new) : a # Mark(c, k)
    <3>1. \A c : \A k \in PathLines(old) \cup PathLines(new) : Mark(c, k).kind = "path"
      BY <1>0, PathMark
    <3> QED
      BY <3>1, <2>1
  <2>3. ASSUME NEW k \in Nodes(old), a = Mark("-", k)
        PROVE  FALSE
    <3>1. k \in NodesWith({""})
      BY <1>0
    <3>2. Mark("-", k).act = "-"
      BY <3>1, NodeMark
    <3> QED
      BY <3>2, <2>3, <1>1
  <2>4. \/ \E n \in Nodes(new) : (\A o \in Nodes(old) : ~Same(o, n)) /\ a = Mark("+", n)
        \/ \E n \in Nodes(new), o \in Nodes(old) : Same(o, n) /\ a = Told(o, n)
    BY <2>1, <2>2, <2>3 DEF IsLine
  <2>5. CASE \E n \in Nodes(new) : (\A o \in Nodes(old) : ~Same(o, n)) /\ a = Mark("+", n)
    <3>1. PICK n \in Nodes(new) : (\A o \in Nodes(old) : ~Same(o, n)) /\ a = Mark("+", n)
      BY <2>5
    <3>2. a.dir = n.dir /\ a.pid = n.pid
      BY <3>1, <1>0, NodeMark
    <3> QED
      BY <3>1, <3>2
  <2>6. CASE \E n \in Nodes(new), o \in Nodes(old) : Same(o, n) /\ a = Told(o, n)
    <3>1. PICK n \in Nodes(new), o \in Nodes(old) : Same(o, n) /\ a = Told(o, n)
      BY <2>6
    <3>2. a.dir = n.dir /\ a.pid = n.pid
      BY <3>1, ToldFields
    <3> QED
      BY <3>1, <3>2
  <2> QED
    BY <2>4, <2>5, <2>6
<1>2. ASSUME NEW m \in Nodes(w), m.act # "-", m.dir = l.dir, m.dir # 0
      PROVE  m = l
  <2>1. PICK n1 \in Nodes(new) : Ends(l, n1)
    BY <1>1
  <2>2. PICK n2 \in Nodes(new) : Ends(m, n2)
    BY <1>1, <1>2
  <2>3. n1 = n2
    BY <2>1, <2>2, <1>2, Keys DEF Given
  <2>4. \A o1, o2 \in Nodes(old) : Same(o1, n1) /\ Same(o2, n1) => o1 = o2
    BY Counterparts
  <2> QED
    BY <2>1, <2>2, <2>3, <2>4
<1>3. \E n \in Nodes(new) : Ends(l, n)
  BY <1>1
<1> QED
  BY <1>2, <1>3

LEMMA OpenedWith ==
  ASSUME NEW D, NEW l, NEW d
  PROVE  /\ Opened(d, With(D, l)) <=> Opened(d, D) \/ (l.kind = "path" /\ l.act # "-" /\ l.id = d)
         /\ Ended(d, With(D, l)) <=> Ended(d, D) \/ (l.kind = "node" /\ l.act # "-" /\ l.dir = d)
<1>1. Opened(d, With(D, l)) <=> Opened(d, D) \/ (l.kind = "path" /\ l.act # "-" /\ l.id = d)
  BY DEF Opened, With
<1>2. Ended(d, With(D, l)) <=> Ended(d, D) \/ (l.kind = "node" /\ l.act # "-" /\ l.dir = d)
  BY DEF Ended, With
<1> QED
  BY <1>1, <1>2

(* A line that deletes changes nothing in paths_buffer.                    *)
LEMMA BufferDelete ==
  ASSUME NEW w, NEW D, NEW l, l.act = "-", NEW b, NEW rest, rest # <<>>, NEW left,
         BufferRight(b, rest, w, D)
  PROVE  /\ BufferRight(b, left, w, With(D, l))
         /\ Pushed(b, w, With(D, l)) = Pushed(b, w, D)
<1>1. \A d : (Opened(d, With(D, l)) <=> Opened(d, D)) /\ (Ended(d, With(D, l)) <=> Ended(d, D))
  BY OpenedWith
<1>2. \A m \in With(D, l) : m.act # "-" => m \in D
  BY DEF With
<1> QED
  BY <1>1, <1>2 DEF BufferRight, Pushed

(* A directory is opened.                                                  *)
LEMMA PushedOpen ==
  ASSUME NEW old, NEW new, NEW w, Given(old, new, w), NEW D, NEW l, Turn(w, D, l),
         l.kind = "path", l.act # "-", NEW b, NEW v
  PROVE  Pushed(Put(b, l.id, v), w, With(D, l)) = Pushed(b, w, D)
<1> DEFINE c == Put(b, l.id, v)
           E == With(D, l)
<1>1. /\ l \in PathLines(w) /\ l \notin D /\ D \subseteq ToSet(w)
  BY DEF Turn, PathLines
<1>2. ~Opened(l.id, D)
  <2>1. SUFFICES ASSUME NEW m \in D, m.kind = "path", m.act # "-", m.id = l.id
                 PROVE  FALSE
    BY DEF Opened
  <2>2. m \in PathLines(w)
    BY <2>1, <1>1 DEF PathLines
  <2> QED
    BY <2>1, <2>2, <1>1, OnePath
<1>3. \A d : Opened(d, E) <=> Opened(d, D) \/ l.id = d
  BY OpenedWith
<1>5. DOMAIN c = DOMAIN b \cup {l.id}
  BY DEF Put
<1> HIDE DEF c
<1>9. Pushed(c, w, E) = Pushed(b, w, D)
  BY <1>2, <1>3, <1>5 DEF Pushed
<1> QED
  BY <1>9 DEF c

LEMMA BufferOpen ==
  ASSUME NEW w, NEW D, NEW l, l.kind = "path", l.act # "-", NEW b, NEW rest, rest # <<>>, NEW left,
         BufferRight(b, rest, w, D), NEW v, v = (l.id \in Announced(w))
  PROVE  BufferRight(Put(b, l.id, v), left, w, With(D, l))
<1> DEFINE c == Put(b, l.id, v)
           E == With(D, l)
<1>3. \A d : Opened(d, E) <=> Opened(d, D) \/ l.id = d
  BY OpenedWith
<1>4. \A d : Ended(d, E) <=> Ended(d, D)
  BY OpenedWith
<1>5. /\ DOMAIN c = DOMAIN b \cup {l.id}
      /\ c[l.id] = (l.id \in Announced(w))
      /\ \A d \in DOMAIN b : d # l.id => c[d] = b[d]
  BY DEF Put
<1> HIDE DEF c
<1>6. \A d \in DOMAIN c : Opened(d, E) /\ c[d] = (d \in Announced(w))
  BY <1>3, <1>5 DEF BufferRight
<1>7. ASSUME NEW m \in E, m.kind = "path", m.act # "-"
      PROVE  m.id \in DOMAIN c \/ Ended(m.id, E)
  BY <1>4, <1>5, <1>7 DEF BufferRight, With
<1>8. BufferRight(c, left, w, E)
  BY <1>6, <1>7 DEF BufferRight
<1> QED
  BY <1>8 DEF c

(* What paths_buffer says of a line's directories when it is its turn.     *)
LEMMA BufferSays ==
  ASSUME NEW old, NEW new, NEW w, Given(old, new, w), NEW D, NEW l, Turn(w, D, l),
         l.kind = "node", l.pid # 0, NEW b, NEW rest, rest # <<>>, BufferRight(b, rest, w, D)
  PROVE  /\ l.pid \notin Pushed(b, w, D)
         /\ \A k \in PathLines(w) : k.act # "-" /\ k.id = l.pid =>
              l.pid \in DOMAIN b /\ b[l.pid] = (l.pid \in Announced(w))
<1>1. ~Ended(l.pid, D)
  <2>1. SUFFICES ASSUME NEW m \in D, m.kind = "node", m.act # "-", m.dir = l.pid
                 PROVE  FALSE
    BY DEF Ended
  <2>2. m \in Nodes(w) /\ m \in With(D, l)
    BY <2>1 DEF Nodes, Turn, With
  <2> QED
    BY <2>1, <2>2 DEF Turn
<1>2. \A m \in D : m.kind = "path" /\ m.act # "-" /\ m.id = l.pid => l.pid \in DOMAIN b
  BY <1>1 DEF BufferRight
<1>3. l.pid \notin Pushed(b, w, D)
  BY <1>2 DEF Pushed, Opened
<1>4. ASSUME NEW k \in PathLines(w), k.act # "-", k.id = l.pid
      PROVE  l.pid \in DOMAIN b
  <2>1. k \in D /\ k.kind = "path"
    BY <1>4 DEF Turn, PathLines
  <2> QED
    BY <2>1, <1>4, <1>2
<1>5. \A d \in DOMAIN b : b[d] = (d \in Announced(w))
  BY DEF BufferRight
<1> QED
  BY <1>3, <1>4, <1>5

(* A directory is ended, and pushed if it was announced.                   *)
LEMMA BufferEnd ==
  ASSUME NEW old, NEW new, NEW w, Given(old, new, w), NEW D, NEW l, Turn(w, D, l),
         l.kind = "node", l.act # "-", NEW b, NEW rest, rest # <<>>, NEW left,
         BufferRight(b, rest, w, D)
  PROVE  LET c == Restrict(b, DOMAIN b \ {l.dir}) P == Pushed(b, w, D) IN
         /\ BufferRight(c, left, w, With(D, l))
         /\ l.dir \in DOMAIN b /\ b[l.dir] =>
              /\ l.dir \in Announced(w) /\ l.dir \notin P
              /\ Pushed(c, w, With(D, l)) = P \cup {l.dir}
         /\ ~(l.dir \in DOMAIN b /\ b[l.dir]) => Pushed(c, w, With(D, l)) = P
<1> DEFINE c == Restrict(b, DOMAIN b \ {l.dir})
           E == With(D, l)
<1>1. \A d : Opened(d, E) <=> Opened(d, D)
  BY OpenedWith
<1>2. \A d : Ended(d, E) <=> Ended(d, D) \/ l.dir = d
  BY OpenedWith
<1>3. DOMAIN c = DOMAIN b \ {l.dir} /\ \A d \in DOMAIN c : c[d] = b[d]
  BY DEF Restrict
<1>4. \A d \in DOMAIN b : Opened(d, D) /\ b[d] = (d \in Announced(w))
  BY DEF BufferRight
<1> HIDE DEF c
<1>5. ASSUME NEW m \in E, m.kind = "path", m.act # "-"
      PROVE  m.id \in DOMAIN c \/ Ended(m.id, E)
  <2>1. m \in D
    BY <1>5 DEF With
  <2>2. m.id \in DOMAIN b \/ Ended(m.id, D)
    BY <2>1, <1>5 DEF BufferRight
  <2> QED
    BY <2>2, <1>2, <1>3
<1>6. BufferRight(c, left, w, E)
  BY <1>1, <1>3, <1>4, <1>5 DEF BufferRight
<1>7. Pushed(c, w, E) = Pushed(b, w, D) \cup {p \in Announced(w) : p \in DOMAIN b /\ p = l.dir}
  BY <1>1, <1>3, <1>4 DEF Pushed
<1>8. l.dir \in DOMAIN b => b[l.dir] = (l.dir \in Announced(w))
  BY <1>4
<1>9. ASSUME l.dir \in DOMAIN b, b[l.dir]
      PROVE  /\ l.dir \in Announced(w) /\ l.dir \notin Pushed(b, w, D)
             /\ Pushed(c, w, E) = Pushed(b, w, D) \cup {l.dir}
  BY <1>7, <1>8, <1>9 DEF Pushed
<1>10. ASSUME ~(l.dir \in DOMAIN b /\ b[l.dir])
       PROVE  Pushed(c, w, E) = Pushed(b, w, D)
  BY <1>7, <1>8, <1>10
<1> QED
  BY <1>6, <1>9, <1>10 DEF c

-----------------------------------------------------------------------------
(* One line is applied.                                                    *)
LEMMA DeletedPath ==
  ASSUME NEW old, NEW new, NEW w, Given(old, new, w), NEW l \in PathLines(w), l.act = "-"
  PROVE  \E k \in PathLines(old) : k.id \notin Ids(new) /\ l = Mark("-", k)
<1>0. /\ \A a \in Nodes(old) \cup Nodes(new) : a \in NodesWith({""})
      /\ \A a \in PathLines(old) \cup PathLines(new) : a \in PathsWith({""})
  BY GivenTypes
<1>1. IsLine(old, new, w, l) /\ l.kind = "path"
  BY LineIs DEF PathLines
<1>2. ASSUME NEW k \in Nodes(old) \cup Nodes(new), NEW c, l = Mark(c, k)
      PROVE  FALSE
  <2>1. k \in NodesWith({""})
    BY <1>0
  <2>2. Mark(c, k).kind = "node"
    BY <2>1, NodeMark
  <2> QED
    BY <2>2, <1>1, <1>2
<1>3. \A p, q : l # Told(p, q)
  BY <1>1, ToldFields
<1>4. ASSUME NEW k \in PathLines(new), NEW c, c # "-", l = Mark(c, k)
      PROVE  FALSE
  <2>1. Mark(c, k).act = c
    BY <1>0, PathMark
  <2> QED
    BY <2>1, <1>4
<1>5. \A k \in Nodes(old) \cup Nodes(new) : l # Mark("+", k) /\ l # Mark("-", k)
  BY <1>2
<1>6. \A k \in PathLines(new) : l # Mark("+", k) /\ l # Mark("*", k)
  BY <1>4
<1> QED
  BY <1>1, <1>3, <1>5, <1>6 DEF IsLine

LEMMA DeletedNode ==
  ASSUME NEW old, NEW new, NEW w, Given(old, new, w), NEW l \in Nodes(w), l.act = "-"
  PROVE  \E o \in Nodes(old) : o.pid \in Ids(new) /\ l = Mark("-", o)
<1>0. /\ \A a \in Nodes(old) \cup Nodes(new) : a \in NodesWith({""})
      /\ \A a \in PathLines(old) \cup PathLines(new) : a \in PathsWith({""})
  BY GivenTypes
<1>1. IsLine(old, new, w, l) /\ l.kind = "node"
  BY LineIs DEF Nodes
<1>2. ASSUME NEW k \in PathLines(old) \cup PathLines(new), NEW c, l = Mark(c, k)
      PROVE  FALSE
  <2>1. Mark(c, k).kind = "path"
    BY <1>0, PathMark
  <2> QED
    BY <2>1, <1>1, <1>2
<1>3. \A p, q : l # Told(p, q)
  BY ToldFields
<1>4. ASSUME NEW k \in Nodes(new), l = Mark("+", k)
      PROVE  FALSE
  <2>1. k \in NodesWith({""})
    BY <1>0
  <2>2. Mark("+", k).act = "+"
    BY <2>1, NodeMark
  <2> QED
    BY <2>2, <1>4
<1>5. \A k \in PathLines(old) \cup PathLines(new) : l # Mark("+", k) /\ l # Mark("-", k) /\ l # Mark("*", k)
  BY <1>2
<1> QED
  BY <1>1, <1>3, <1>4, <1>5 DEF IsLine

LEMMA LineAddPath ==
  ASSUME NEW old, NEW new, NEW w, Given(old, new, w), NEW D, NEW l, Turn(w, D, l),
         l.kind = "path", l.act = "+",
         NEW ps, NEW fs, NEW fq, NEW nf, NEW b, NEW rest, rest # <<>>, NEW left,
         StateRight(ps, fs, fq, nf, b, rest, old, new, w, D)
  PROVE  /\ l.id \notin DOMAIN ps /\ \A id \in DOMAIN ps : ps[id].path # l.path
         /\ StateRight(Put(ps, l.id, PathRow(l.path)), fs, fq, nf, Put(b, l.id, FALSE), left,
                       old, new, w, With(D, l))
<1> DEFINE P == Pushed(b, w, D)
           E == With(D, l)
<1>1. l \in PathLines(w) /\ l \notin D
  BY DEF Turn, PathLines
<1>2. PICK k \in PathLines(new) : /\ l.id = k.id /\ l.id # 0
                                  /\ \/ k.id \notin Ids(old) /\ l = Mark("+", k)
                                     \/ k.id \in Announced(w) /\ l = Mark("*", k)
  BY <1>1, OnePath
<1>3. k \in PathsWith({""})
  BY GivenTypes
<1>4. Mark("*", k).act = "*" /\ Mark("+", k).path = k.path
  BY <1>3, PathMark
<1>5. k.id \notin Ids(old) /\ l = Mark("+", k) /\ l.path = k.path
  BY <1>2, <1>4
<1>6. ~WasAdded(k, D)
  BY <1>1, <1>5 DEF WasAdded
<1>7. /\ PathsRight(ps, old, new, D, P) /\ FilesRight(fs, fq, DOMAIN ps, old, new, D, P)
      /\ NewRight(nf, old, new, D, P) /\ BufferRight(b, rest, w, D)
  BY DEF StateRight
<1>8. /\ k.id \notin DOMAIN ps /\ \A id \in DOMAIN ps : ps[id].path # k.path
      /\ PathsRight(Put(ps, k.id, PathRow(k.path)), old, new, With(D, Mark("+", k)), P)
  BY <1>5, <1>6, <1>7, PathsAddPath
<1>9. /\ FilesRight(fs, fq, DOMAIN ps \cup {k.id}, old, new, With(D, Mark("+", k)), P)
      /\ NewRight(nf, old, new, With(D, Mark("+", k)), P)
  BY <1>5, <1>7, FilesAddPath
<1>10. DOMAIN Put(ps, k.id, PathRow(k.path)) = DOMAIN ps \cup {k.id}
  BY DEF Put
<1>11. FALSE = (l.id \in Announced(w))
  BY <1>2, <1>5, AnnouncedIds
<1>13. BufferRight(Put(b, l.id, FALSE), left, w, E) /\ Pushed(Put(b, l.id, FALSE), w, E) = P
  <2> DEFINE v == FALSE
  <2>1. v = (l.id \in Announced(w))
    BY <1>11
  <2> HIDE DEF v
  <2>3. l.act # "-" /\ BufferRight(b, rest, w, D)
    BY <1>7
  <2>4. BufferRight(Put(b, l.id, v), left, w, With(D, l))
    BY <2>1, <2>3, BufferOpen
  <2>5. Pushed(Put(b, l.id, v), w, With(D, l)) = Pushed(b, w, D)
    BY <2>3, PushedOpen
  <2>2. BufferRight(Put(b, l.id, v), left, w, E) /\ Pushed(Put(b, l.id, v), w, E) = P
    BY <2>4, <2>5
  <2> QED
    BY <2>2 DEF v
<1> QED
  BY <1>2, <1>5, <1>8, <1>9, <1>10, <1>13 DEF StateRight

LEMMA LineDeletePath ==
  ASSUME NEW old, NEW new, NEW w, Given(old, new, w), NEW D, NEW l, Turn(w, D, l),
         l.kind = "path", l.act = "-",
         NEW ps, NEW fs, NEW fq, NEW nf, NEW b, NEW rest, rest # <<>>, NEW left,
         StateRight(ps, fs, fq, nf, b, rest, old, new, w, D)
  PROVE  StateRight(Restrict(ps, DOMAIN ps \ {l.id}), {r \in fs : r.pid # l.id}, fq, nf, b, left,
                    old, new, w, With(D, l))
<1> DEFINE P == Pushed(b, w, D)
           E == With(D, l)
<1>1. l \in PathLines(w)
  BY DEF Turn, PathLines
<1>2. PICK k \in PathLines(old) : k.id \notin Ids(new) /\ l = Mark("-", k)
  BY <1>1, DeletedPath
<1>3. k \in PathsWith({""})
  BY GivenTypes
<1>4. l.id = k.id
  BY <1>2, <1>3, PathMark
<1>5. P \subseteq Ids(new)
  BY AnnouncedIds DEF Pushed
<1>7. /\ PathsRight(ps, old, new, D, P) /\ FilesRight(fs, fq, DOMAIN ps, old, new, D, P)
      /\ NewRight(nf, old, new, D, P) /\ BufferRight(b, rest, w, D)
  BY DEF StateRight
<1>8. PathsRight(Restrict(ps, DOMAIN ps \ {k.id}), old, new, With(D, Mark("-", k)), P)
  BY <1>2, <1>7, PathsDeletePath
<1>9. /\ FilesRight({r \in fs : r.pid # k.id}, fq, DOMAIN ps \ {k.id}, old, new, With(D, Mark("-", k)), P)
      /\ NewRight(nf, old, new, With(D, Mark("-", k)), P)
  BY <1>2, <1>5, <1>7, FilesDeletePath
<1>10. DOMAIN Restrict(ps, DOMAIN ps \ {k.id}) = DOMAIN ps \ {k.id}
  BY DEF Restrict
<1>11. BufferRight(b, left, w, E) /\ Pushed(b, w, E) = P
  BY <1>7, BufferDelete
<1> QED
  BY <1>2, <1>4, <1>8, <1>9, <1>10, <1>11 DEF StateRight

LEMMA LineModifyPath ==
  ASSUME NEW old, NEW new, NEW w, Given(old, new, w), NEW D, NEW l, Turn(w, D, l),
         l.kind = "path", l.act = "*",
         NEW ps, NEW fs, NEW fq, NEW nf, NEW b, NEW rest, rest # <<>>, NEW left,
         StateRight(ps, fs, fq, nf, b, rest, old, new, w, D)
  PROVE  StateRight(ps, fs, fq, nf, Put(b, l.id, TRUE), left, old, new, w, With(D, l))
<1> DEFINE P == Pushed(b, w, D)
           E == With(D, l)
<1>1. l \in PathLines(w)
  BY DEF Turn, PathLines
<1>2. PICK k \in PathLines(new) : /\ l.id = k.id /\ l.id # 0
                                  /\ \/ k.id \notin Ids(old) /\ l = Mark("+", k)
                                     \/ k.id \in Announced(w) /\ l = Mark("*", k)
  BY <1>1, OnePath
<1>3. k \in PathsWith({""})
  BY GivenTypes
<1>4. Mark("+", k).act = "+"
  BY <1>3, PathMark
<1>5. k.id \in Announced(w) /\ l = Mark("*", k)
  BY <1>2, <1>4
<1>7. /\ PathsRight(ps, old, new, D, P) /\ FilesRight(fs, fq, DOMAIN ps, old, new, D, P)
      /\ NewRight(nf, old, new, D, P) /\ BufferRight(b, rest, w, D)
  BY DEF StateRight
<1>8. PathsRight(ps, old, new, With(D, Mark("*", k)), P)
  BY <1>7, PathsModifyPath
<1>9. /\ FilesRight(fs, fq, DOMAIN ps, old, new, With(D, Mark("*", k)), P)
      /\ NewRight(nf, old, new, With(D, Mark("*", k)), P)
  BY <1>7, FilesModifyPath
<1>11. TRUE = (l.id \in Announced(w))
  BY <1>2, <1>5
<1>13. BufferRight(Put(b, l.id, TRUE), left, w, E) /\ Pushed(Put(b, l.id, TRUE), w, E) = P
  <2> DEFINE v == TRUE
  <2>1. v = (l.id \in Announced(w))
    BY <1>11
  <2> HIDE DEF v
  <2>3. l.act # "-" /\ BufferRight(b, rest, w, D)
    BY <1>7
  <2>4. BufferRight(Put(b, l.id, v), left, w, With(D, l))
    BY <2>1, <2>3, BufferOpen
  <2>5. Pushed(Put(b, l.id, v), w, With(D, l)) = Pushed(b, w, D)
    BY <2>3, PushedOpen
  <2>2. BufferRight(Put(b, l.id, v), left, w, E) /\ Pushed(Put(b, l.id, v), w, E) = P
    BY <2>4, <2>5
  <2> QED
    BY <2>2 DEF v
<1> QED
  BY <1>5, <1>8, <1>9, <1>13 DEF StateRight

LEMMA LineDeleteEntry ==
  ASSUME NEW old, NEW new, NEW w, Given(old, new, w), NEW D, NEW l, Turn(w, D, l),
         l.kind = "node", l.act = "-",
         NEW ps, NEW fs, NEW fq, NEW nf, NEW b, NEW rest, rest # <<>>, NEW left,
         StateRight(ps, fs, fq, nf, b, rest, old, new, w, D)
  PROVE  /\ StateRight(ps, {r \in fs : ~(r.pid = l.pid /\ r.fid = l.fid)}, fq, nf, b, left,
                       old, new, w, With(D, l))
         /\ OneRow(fs, l)
<1> DEFINE P == Pushed(b, w, D)
           E == With(D, l)
<1>1. l \in Nodes(w) /\ l \notin D
  BY DEF Turn, Nodes
<1>2. PICK o \in Nodes(old) : o.pid \in Ids(new) /\ l = Mark("-", o)
  BY <1>1, DeletedNode
<1>3. o \in NodesWith({""})
  BY GivenTypes
<1>4. l.pid = o.pid /\ l.fid = o.fid /\ l.dir = o.dir /\ l.name = o.name
  BY <1>2, <1>3, NodeMark
<1>5. o.pid # 0 /\ o.pid \in Ids(old) \cap Ids(new)
  <2>1. o.pid # 0
    BY <1>2, GivenTypes
  <2>2. o.pid \in Ids(old)
    BY <2>1, Keys DEF Given
  <2> QED
    BY <2>1, <2>2, <1>2
<1>7. /\ PathsRight(ps, old, new, D, P) /\ FilesRight(fs, fq, DOMAIN ps, old, new, D, P)
      /\ NewRight(nf, old, new, D, P) /\ BufferRight(b, rest, w, D)
  BY DEF StateRight
<1>8. o.pid \in DOMAIN ps
  BY <1>5, <1>7, OldDirIds
<1>9. o.pid \notin P
  BY <1>4, <1>5, <1>7, BufferSays
<1>10. ~WasDeleted(o, D)
  BY <1>1, <1>2 DEF WasDeleted
<1>11. PathsRight(ps, old, new, With(D, Mark("-", o)), P)
  BY <1>7, PathsDeleteEntry
<1>12. /\ FilesRight({r \in fs : ~(r.pid = o.pid /\ r.fid = o.fid)}, fq, DOMAIN ps,
                     old, new, With(D, Mark("-", o)), P)
       /\ NewRight(nf, old, new, With(D, Mark("-", o)), P)
  BY <1>5, <1>7, <1>8, <1>9, <1>10, FilesDeleteEntry
<1>13. BufferRight(b, left, w, E) /\ Pushed(b, w, E) = P
  BY <1>7, BufferDelete
<1>14. StateRight(ps, {r \in fs : ~(r.pid = l.pid /\ r.fid = l.fid)}, fq, nf, b, left,
                  old, new, w, With(D, l))
  BY <1>2, <1>4, <1>11, <1>12, <1>13 DEF StateRight
<1>15. /\ NowRow(o, new, D) \in fs
       /\ \A r \in fs : r.pid = o.pid /\ r.fid = o.fid <=> r = NowRow(o, new, D)
  BY <1>5, <1>7, <1>8, <1>9, <1>10, RowOfEntry
<1>16. NowRow(o, new, D).name = o.name /\ NowRow(o, new, D).dir = o.dir
  BY NowRowFields
<1> QED
  BY <1>4, <1>14, <1>15, <1>16 DEF OneRow

(* A directory's last line: its row of paths is brought up to date, and if *)
(* it was announced it is pushed.                                          *)
LEMMA UpdatedIs ==
  ASSUME NEW l
  PROVE  /\ Updated(l).ok = TRUE /\ Updated(l).paths = WithDir(paths, l)
         /\ Updated(l).files = files /\ Updated(l).newfiles = newfiles
  BY DEF Updated, Database

(* What holds before it, but for the row of paths.                         *)
Ending(l, old, new, w, D) ==
  /\ Given(old, new, w) /\ Turn(w, D, l) /\ l.kind = "node" /\ l.act # "-" /\ doc # <<>>
  /\ PathsRight(WithDir(paths, l), old, new, With(D, l), Pushed(buffer, w, D))
  /\ FilesRight(files, fquery, DOMAIN paths, old, new, D, Pushed(buffer, w, D))
  /\ NewRight(newfiles, old, new, D, Pushed(buffer, w, D)) /\ BufferRight(buffer, doc, w, D)
(* And after it, but for the row of files.                                 *)
End(db, c, left, l, old, new, w, D) ==
  /\ db.ok
  /\ PathsRight(db.paths, old, new, With(D, l), Pushed(c, w, With(D, l)))
  /\ DOMAIN db.paths = DOMAIN paths
  /\ FilesRight(db.files, fquery, DOMAIN paths, old, new, D, Pushed(c, w, With(D, l)))
  /\ NewRight(db.newfiles, old, new, D, Pushed(c, w, With(D, l)))
  /\ BufferRight(c, left, w, With(D, l))
  /\ l.pid \notin Pushed(c, w, With(D, l))

LEMMA EndRight ==
  ASSUME NEW l, NEW old, NEW new, NEW w, NEW D, Ending(l, old, new, w, D),
         NEW c, c = Restrict(buffer, DOMAIN buffer \ {l.dir}), NEW db, db = CloseDir(l), NEW left
  PROVE  End(db, c, left, l, old, new, w, D)
<1> DEFINE P == Pushed(buffer, w, D)
           Q == Pushed(c, w, With(D, l))
<1>0. /\ Given(old, new, w) /\ Turn(w, D, l) /\ l.kind = "node" /\ l.act # "-" /\ doc # <<>>
      /\ PathsRight(WithDir(paths, l), old, new, With(D, l), P)
      /\ FilesRight(files, fquery, DOMAIN paths, old, new, D, P)
      /\ NewRight(newfiles, old, new, D, P) /\ BufferRight(buffer, doc, w, D)
  BY DEF Ending
<1> DEFINE E == With(D, l)
           u == Updated(l)
<1>1. DOMAIN WithDir(paths, l) = DOMAIN paths
  BY DEF WithDir
<1>2. /\ Updated(l).ok = TRUE /\ Updated(l).paths = WithDir(paths, l)
      /\ Updated(l).files = files /\ Updated(l).newfiles = newfiles
  BY UpdatedIs
<1>3. /\ BufferRight(c, left, w, E)
      /\ l.dir \in DOMAIN buffer /\ buffer[l.dir] =>
           l.dir \in Announced(w) /\ l.dir \notin P /\ Q = P \cup {l.dir}
      /\ ~(l.dir \in DOMAIN buffer /\ buffer[l.dir]) => Q = P
  BY <1>0, BufferEnd
<1>4. l.pid \notin Q
  <2>1. Q \subseteq Announced(w)
    BY DEF Pushed
  <2>2. CASE l.pid = 0
    BY <2>1, <2>2, <1>0, AnnouncedIds, GivenTypes
  <2>3. CASE l.pid # 0
    <3>1. l.pid \notin P
      BY <1>0, <2>3, BufferSays
    <3>2. l \in Nodes(w) /\ l \in With(D, l)
      BY <1>0 DEF Turn, Nodes, With
    <3>3. l.pid # l.dir
      BY <1>0, <3>2, <2>3 DEF Turn
    <3> QED
      BY <3>1, <3>3, <1>3
  <2> QED
    BY <2>2, <2>3
<1>5. CASE Modified(l.dir)
  <2>1. /\ l.dir \in Announced(w) /\ l.dir \notin P /\ Q = P \cup {l.dir}
    BY <1>5, <1>3 DEF Modified
  <2>2. db = Push(l.dir, Updated(l))
    BY <1>5 DEF CloseDir
  <2>3. l.dir # 0
    BY <2>1, <1>0, AnnouncedIds, GivenTypes
  <2>4. \A k \in Nodes(w) : k.pid = l.dir => k \in D
    BY <1>0, <2>3 DEF Turn
  <2>5. D \subseteq ToSet(w)
    BY <1>0 DEF Turn
  <2>6. /\ u.ok = TRUE /\ PathsRight(u.paths, old, new, E, P)
        /\ FilesRight(u.files, fquery, DOMAIN u.paths, old, new, D, P)
        /\ NewRight(u.newfiles, old, new, D, P)
        /\ DOMAIN u.paths = DOMAIN paths
    BY <1>0, <1>1, <1>2
  <2> HIDE DEF u, E
  <2>8. Pushable(l.dir, u, fquery, old, new, w, D, E, P)
    BY <1>0, <2>1, <2>4, <2>5, <2>6 DEF Pushable
  <2>7. /\ Push(l.dir, u).ok
        /\ PathsRight(Push(l.dir, u).paths, old, new, E, P \cup {l.dir})
        /\ DOMAIN Push(l.dir, u).paths = DOMAIN u.paths
        /\ FilesRight(Push(l.dir, u).files, fquery, DOMAIN u.paths, old, new, D, P \cup {l.dir})
        /\ NewRight(Push(l.dir, u).newfiles, old, new, D, P \cup {l.dir})
    BY <2>8, PushRight
  <2> USE DEF u, E
  <2> QED
    BY <1>3, <1>4, <2>1, <2>2, <2>6, <2>7 DEF End
<1>6. CASE ~Modified(l.dir)
  <2>1. Q = P
    BY <1>6, <1>3 DEF Modified
  <2>2. db = Updated(l)
    BY <1>6 DEF CloseDir
  <2> QED
    BY <1>0, <1>1, <1>2, <1>3, <1>4, <2>1, <2>2 DEF End
<1> QED
  BY <1>5, <1>6

(* The rows of a new directory are there when a line is about it.          *)
LEMMA NewDirThere ==
  ASSUME NEW old, NEW new, NEW w, Given(old, new, w), NEW D, NEW l, Turn(w, D, l),
         l.kind = "node", NEW d \in {l.pid, l.dir}, d \in Ids(new), d \notin Ids(old),
         NEW ps, NEW P, PathsRight(ps, old, new, D, P)
  PROVE  /\ d \in DOMAIN ps
         /\ \E k \in PathLines(w) : k.act # "-" /\ k.id = d
<1>1. PICK k \in PathLines(new) : k.id = d
  BY DEF Ids
<1>2. k \in PathsWith({""})
  BY GivenTypes
<1>3. /\ Mark("+", k).kind = "path" /\ Mark("+", k).act = "+" /\ Mark("+", k).id = k.id
  BY <1>2, PathMark
<1>4. Mark("+", k) \in PathLines(w)
  BY <1>1, <1>3, LineThere DEF PathLines
<1>5. Mark("+", k) \in D
  BY <1>1, <1>3, <1>4 DEF Turn
<1>6. d \in PathIds(old, new, D)
  BY <1>1, <1>5 DEF PathIds, WasAdded
<1> QED
  BY <1>1, <1>3, <1>4, <1>6 DEF PathsRight

(* What a line "+" of a node is.                                           *)
LEMMA AddedNode ==
  ASSUME NEW old, NEW new, NEW w, Given(old, new, w), NEW l \in Nodes(w), l.act = "+"
  PROVE  \E n \in Nodes(new) : /\ \A o \in Nodes(old) : ~Same(o, n)
                               /\ l = Mark("+", n) /\ (n.dir # 0 => n.dir \in Ids(new) \ Ids(old))
<1>1. PICK n \in Nodes(new) :
        /\ l.dir = n.dir /\ l.pid = n.pid
        /\ \/ (\A o \in Nodes(old) : ~Same(o, n)) /\ l = Mark("+", n)
           \/ \E o \in Nodes(old) : Same(o, n) /\ l = Told(o, n)
  BY OneEnd
<1>2. (\A o \in Nodes(old) : ~Same(o, n)) /\ l = Mark("+", n)
  BY <1>1, ToldFields
<1>3. n.dir # 0 => n.dir \in Ids(new)
  BY Keys DEF Given
<1>4. n.dir # 0 => n.dir \notin Ids(old)
  <2>1. SUFFICES ASSUME n.dir # 0, n.dir \in Ids(old) PROVE FALSE
    OBVIOUS
  <2>2. PICK o \in Nodes(old) : o.dir = n.dir
    BY <2>1, Keys DEF Given
  <2>3. Same(o, n)
    BY <2>1, <2>2 DEF Given, IsPatch, Continues
  <2> QED
    BY <2>3, <1>2
<1> QED
  BY <1>2, <1>3, <1>4

LEMMA ChangedNode ==
  ASSUME NEW old, NEW new, NEW w, Given(old, new, w), NEW l \in Nodes(w), l.act = "*"
  PROVE  \E o \in Nodes(old), n \in Nodes(new) : Same(o, n) /\ l = Told(o, n)
<1>1. PICK n \in Nodes(new) :
        /\ l.dir = n.dir /\ l.pid = n.pid
        /\ \/ (\A o \in Nodes(old) : ~Same(o, n)) /\ l = Mark("+", n)
           \/ \E o \in Nodes(old) : Same(o, n) /\ l = Told(o, n)
  BY OneEnd
<1>2. n \in NodesWith({""})
  BY GivenTypes
<1>3. Mark("+", n).act = "+"
  BY <1>2, NodeMark
<1> QED
  BY <1>1, <1>3

LEMMA LineAddEntry ==
  ASSUME NEW old, NEW new, NEW w, Given(old, new, w), NEW D, NEW l, Turn(w, D, l),
         l.kind = "node", l.act = "+", l.pid # 0, doc # <<>>, NEW left,
         StateRight(paths, files, fquery, newfiles, buffer, doc, old, new, w, D),
         NEW c, c = Restrict(buffer, DOMAIN buffer \ {l.dir}), NEW db, db = CloseDir(l),
         NEW gs, NEW gq
  PROVE  /\ db.ok /\ l.pid \in DOMAIN buffer /\ buffer[l.pid] \in BOOLEAN
         /\ ~buffer[l.pid] => Flushable(fquery \cup {RowOf(l)})
         /\ buffer[l.pid] => StateRight(db.paths, db.files, fquery, db.newfiles \cup {RowOf(l)}, c, left,
                                        old, new, w, With(D, l))
         /\ ~buffer[l.pid] /\ Collected(gs, gq, db.files, fquery, RowOf(l)) =>
              StateRight(db.paths, gs, gq, db.newfiles, c, left, old, new, w, With(D, l))
<1> DEFINE P == Pushed(buffer, w, D)
           E == With(D, l)
           Q == Pushed(c, w, With(D, l))
<1>1. l \in Nodes(w)
  BY DEF Turn, Nodes
<1>2. PICK n \in Nodes(new) : /\ \A o \in Nodes(old) : ~Same(o, n)
                              /\ l = Mark("+", n) /\ (n.dir # 0 => n.dir \in Ids(new) \ Ids(old))
  BY <1>1, AddedNode
<1>3. n \in NodesWith({""})
  BY GivenTypes
<1>4. /\ l.pid = n.pid /\ l.fid = n.fid /\ l.dir = n.dir /\ l.name = n.name /\ l.size = n.size
  BY <1>2, <1>3, NodeMark
<1>5. RowOf(l) = RowOf(n)
  BY <1>4 DEF RowOf
<1>7. /\ PathsRight(paths, old, new, D, P) /\ FilesRight(files, fquery, DOMAIN paths, old, new, D, P)
      /\ NewRight(newfiles, old, new, D, P) /\ BufferRight(buffer, doc, w, D)
  BY DEF StateRight
<1>8. n.pid \in Ids(new)
  BY <1>4, Keys DEF Given
<1>9. n.dir # 0 => n.dir \in DOMAIN paths
  BY <1>2, <1>4, <1>7, NewDirThere
<1>10. PathsRight(WithDir(paths, l), old, new, E, P)
  BY <1>2, <1>7, <1>9, PathsAddEntry
<1>11a. Ending(l, old, new, w, D)
  BY <1>7, <1>10 DEF Ending
<1>11b. End(db, c, left, l, old, new, w, D)
  BY <1>11a, EndRight
<1>11. /\ db.ok
       /\ PathsRight(db.paths, old, new, E, Q)
       /\ DOMAIN db.paths = DOMAIN paths
       /\ FilesRight(db.files, fquery, DOMAIN paths, old, new, D, Q)
       /\ NewRight(db.newfiles, old, new, D, Q)
       /\ BufferRight(c, left, w, E)
       /\ l.pid \notin Q
  BY <1>11b DEF End
<1>12. CASE n.pid \in Ids(old)
  <2>1. l.pid \in Announced(w)
    BY <1>1, <1>4, <1>12 DEF Given, IsPatch
  <2>2. \E k \in PathLines(w) : k.act # "-" /\ k.id = l.pid
    BY <2>1 DEF Announced
  <2>3. l.pid \in DOMAIN buffer /\ buffer[l.pid] = (l.pid \in Announced(w))
    BY <1>7, <2>2, BufferSays
  <2>4. buffer[l.pid] = TRUE
    BY <2>1, <2>3
  <2>5. /\ FilesRight(db.files, fquery, DOMAIN paths, old, new, E, Q)
        /\ NewRight(db.newfiles \cup {RowOf(n)}, old, new, E, Q)
    BY <1>2, <1>4, <1>11, <1>12, FilesAddEntry
  <2>6. StateRight(db.paths, db.files, fquery, db.newfiles \cup {RowOf(l)}, c, left, old, new, w, E)
    BY <1>5, <1>11, <2>5 DEF StateRight
  <2> QED
    BY <1>11, <2>3, <2>4, <2>6
<1>13. CASE n.pid \notin Ids(old)
  <2>1. l.pid \notin Announced(w)
    BY <1>4, <1>13, AnnouncedIds
  <2>2. /\ l.pid \in DOMAIN paths
        /\ \E k \in PathLines(w) : k.act # "-" /\ k.id = l.pid
    BY <1>4, <1>7, <1>8, <1>13, NewDirThere
  <2>3. l.pid \in DOMAIN buffer /\ buffer[l.pid] = (l.pid \in Announced(w))
    BY <1>7, <2>2, BufferSays
  <2>4. buffer[l.pid] = FALSE
    <3>1. (l.pid \in Announced(w)) = FALSE
      BY <2>1
    <3> QED
      BY <2>3, <3>1
  <2>5. \A r \in fquery : r.pid \in DOMAIN paths
    BY <1>7 DEF FilesRight
  <2>6. RowOf(l).pid = l.pid
    BY RowOfFields
  <2>7. Flushable(fquery \cup {RowOf(l)})
    BY <2>2, <2>5, <2>6 DEF Flushable
  <2>8. ASSUME Collected(gs, gq, db.files, fquery, RowOf(l))
        PROVE  StateRight(db.paths, gs, gq, db.newfiles, c, left, old, new, w, E)
    <3>1. n.pid \in DOMAIN paths \ Ids(old) /\ n.pid # 0 /\ n.pid \notin Q
      BY <1>4, <1>11, <1>13, <2>2
    <3>2. Collected(gs, gq, db.files, fquery, RowOf(n))
      BY <2>8, <1>5
    <3>3. /\ FilesRight(gs, gq, DOMAIN paths, old, new, With(D, Mark("+", n)), Q)
          /\ NewRight(db.newfiles, old, new, With(D, Mark("+", n)), Q)
      BY <1>11, <3>1, <3>2, FilesAddEntry
    <3> QED
      BY <1>2, <1>11, <3>3 DEF StateRight
  <2> QED
    BY <1>11, <2>3, <2>4, <2>7, <2>8
<1> QED
  BY <1>12, <1>13

LEMMA LineModifyEntry ==
  ASSUME NEW old, NEW new, NEW w, Given(old, new, w), NEW D, NEW l, Turn(w, D, l),
         l.kind = "node", l.act = "*", l.pid # 0, doc # <<>>, NEW left,
         StateRight(paths, files, fquery, newfiles, buffer, doc, old, new, w, D),
         NEW c, c = Restrict(buffer, DOMAIN buffer \ {l.dir}), NEW db, db = CloseDir(l)
  PROVE  /\ db.ok
         /\ StateRight(db.paths, WithSize(db.files, l), fquery, db.newfiles, c, left, old, new, w, With(D, l))
         /\ OneRow(files, l)
<1> DEFINE P == Pushed(buffer, w, D)
           E == With(D, l)
           Q == Pushed(c, w, With(D, l))
<1>1. l \in Nodes(w) /\ D \subseteq ToSet(w)
  BY DEF Turn, Nodes
<1>2. PICK o \in Nodes(old), n \in Nodes(new) : Same(o, n) /\ l = Told(o, n)
  BY <1>1, ChangedNode
<1>4. l.pid = n.pid /\ l.fid = o.fid /\ l.dir = n.dir /\ l.name = n.name /\ l.size = n.size
  BY <1>2, ToldFields
<1>5. o.pid = n.pid /\ o.name = n.name /\ o.dir = n.dir
  BY <1>2 DEF Same
<1>7. /\ PathsRight(paths, old, new, D, P) /\ FilesRight(files, fquery, DOMAIN paths, old, new, D, P)
      /\ NewRight(newfiles, old, new, D, P) /\ BufferRight(buffer, doc, w, D)
  BY DEF StateRight
<1>8. n.pid \in Ids(new) /\ o.pid \in Ids(old)
  BY <1>4, <1>5, Keys DEF Given
<1>9. n.pid \in DOMAIN paths /\ 0 \notin DOMAIN paths
  BY <1>5, <1>7, <1>8, OldDirIds, GivenTypes
<1>10. n.pid \notin P
  BY <1>4, <1>7, BufferSays
<1>11. PathsRight(WithDir(paths, l), old, new, E, P)
  BY <1>2, <1>7, <1>10, PathsModifyEntry
<1>12a. Ending(l, old, new, w, D)
  BY <1>7, <1>11 DEF Ending
<1>12b. End(db, c, left, l, old, new, w, D)
  BY <1>12a, EndRight
<1>12. /\ db.ok
       /\ PathsRight(db.paths, old, new, E, Q)
       /\ DOMAIN db.paths = DOMAIN paths
       /\ FilesRight(db.files, fquery, DOMAIN paths, old, new, D, Q)
       /\ NewRight(db.newfiles, old, new, D, Q)
       /\ BufferRight(c, left, w, E)
       /\ l.pid \notin Q
  BY <1>12b DEF End
<1>14. /\ FilesRight(WithSize(db.files, Told(o, n)), fquery, DOMAIN paths, old, new, With(D, Told(o, n)), Q)
       /\ NewRight(db.newfiles, old, new, With(D, Told(o, n)), Q)
  BY <1>1, <1>2, <1>4, <1>9, <1>12, FilesModifyEntry
<1>15. StateRight(db.paths, WithSize(db.files, l), fquery, db.newfiles, c, left, old, new, w, E)
  BY <1>2, <1>12, <1>14 DEF StateRight
<1>16. ~WasDeleted(o, D)
  BY <1>1, <1>2, DeletedMeans DEF WasDeleted
<1>17. /\ NowRow(o, new, D) \in files
       /\ \A r \in files : r.pid = o.pid /\ r.fid = o.fid <=> r = NowRow(o, new, D)
  BY <1>4, <1>5, <1>7, <1>9, <1>10, <1>16, RowOfEntry
<1>18. NowRow(o, new, D).name = o.name /\ NowRow(o, new, D).dir = o.dir
  BY NowRowFields
<1>19. OneRow(files, l)
  BY <1>4, <1>5, <1>17, <1>18 DEF OneRow
<1> QED
  BY <1>12, <1>15, <1>19

LEMMA LineCloseRoot ==
  ASSUME NEW old, NEW new, NEW w, Given(old, new, w), NEW D, NEW l, Turn(w, D, l),
         l.kind = "node", l.act = "+" \/ l.act = "*", l.pid = 0, doc # <<>>, NEW left,
         StateRight(paths, files, fquery, newfiles, buffer, doc, old, new, w, D),
         NEW c, c = Restrict(buffer, DOMAIN buffer \ {l.dir}), NEW db, db = CloseDir(l)
  PROVE  /\ db.ok
         /\ StateRight(db.paths, db.files, fquery, db.newfiles, c, left, old, new, w, With(D, l))
<1> DEFINE P == Pushed(buffer, w, D)
           E == With(D, l)
           Q == Pushed(c, w, With(D, l))
<1>1. l \in Nodes(w) /\ D \subseteq ToSet(w)
  BY DEF Turn, Nodes
<1>2. /\ PathsRight(paths, old, new, D, P) /\ FilesRight(files, fquery, DOMAIN paths, old, new, D, P)
      /\ NewRight(newfiles, old, new, D, P) /\ BufferRight(buffer, doc, w, D)
  BY DEF StateRight
<1>3. 0 \notin P /\ 0 \notin DOMAIN paths
  BY <1>2, AnnouncedIds, OldDirIds, GivenTypes DEF Pushed
<1>4. CASE l.act = "+"
  <2>1. PICK n \in Nodes(new) : /\ \A o \in Nodes(old) : ~Same(o, n)
                                /\ l = Mark("+", n) /\ (n.dir # 0 => n.dir \in Ids(new) \ Ids(old))
    BY <1>1, <1>4, AddedNode
  <2>2. n \in NodesWith({""})
    BY GivenTypes
  <2>3. n.pid = 0 /\ l.dir = n.dir
    BY <2>1, <2>2, NodeMark
  <2>4. n.dir # 0 => n.dir \in DOMAIN paths
    BY <2>1, <2>3, <1>2, NewDirThere
  <2>5. PathsRight(WithDir(paths, l), old, new, E, P)
    BY <2>1, <2>4, <1>2, PathsAddEntry
  <2>6a. Ending(l, old, new, w, D)
    BY <1>2, <1>4, <2>5 DEF Ending
  <2>6b. End(db, c, left, l, old, new, w, D)
    BY <2>6a, EndRight
  <2>6. /\ db.ok
        /\ PathsRight(db.paths, old, new, E, Q)
        /\ DOMAIN db.paths = DOMAIN paths
        /\ FilesRight(db.files, fquery, DOMAIN paths, old, new, D, Q)
        /\ NewRight(db.newfiles, old, new, D, Q)
        /\ BufferRight(c, left, w, E)
        /\ l.pid \notin Q
    BY <2>6b DEF End
  <2>7. /\ FilesRight(db.files, fquery, DOMAIN paths, old, new, With(D, Mark("+", n)), Q)
        /\ NewRight(db.newfiles, old, new, With(D, Mark("+", n)), Q)
    BY <2>3, <2>6, FilesAddEntry
  <2> QED
    BY <2>1, <2>6, <2>7 DEF StateRight
<1>5. CASE l.act = "*"
  <2>1. PICK o \in Nodes(old), n \in Nodes(new) : Same(o, n) /\ l = Told(o, n)
    BY <1>1, <1>5, ChangedNode
  <2>3. n.pid = 0
    BY <2>1, ToldFields
  <2>5. PathsRight(WithDir(paths, l), old, new, E, P)
    BY <2>1, <2>3, <1>2, <1>3, PathsModifyEntry
  <2>6a. Ending(l, old, new, w, D)
    BY <1>2, <1>5, <2>5 DEF Ending
  <2>6b. End(db, c, left, l, old, new, w, D)
    BY <2>6a, EndRight
  <2>6. /\ db.ok
        /\ PathsRight(db.paths, old, new, E, Q)
        /\ DOMAIN db.paths = DOMAIN paths
        /\ FilesRight(db.files, fquery, DOMAIN paths, old, new, D, Q)
        /\ NewRight(db.newfiles, old, new, D, Q)
        /\ BufferRight(c, left, w, E)
        /\ l.pid \notin Q
    BY <2>6b DEF End
  <2>7. /\ FilesRight(db.files, fquery, DOMAIN paths, old, new, With(D, Told(o, n)), Q)
        /\ NewRight(db.newfiles, old, new, With(D, Told(o, n)), Q)
    BY <1>1, <1>3, <2>1, <2>3, <2>6, FilesModifyEntry
  <2> QED
    BY <2>1, <2>6, <2>7 DEF StateRight
<1> QED
  BY <1>4, <1>5

-----------------------------------------------------------------------------
(* One line after another.                                                 *)
LEMMA NextLine ==
  ASSUME NEW old, NEW new, NEW w, Given(old, new, w), NEW rest, Suffix(rest, w), rest # <<>>
  PROVE  /\ Turn(w, Done(w, rest), Head(rest))
         /\ Suffix(Tail(rest), w)
         /\ Done(w, Tail(rest)) = With(Done(w, rest), Head(rest))
<1> DEFINE S == LinesWith({"+", "-", "*"})
           i == Len(w) - Len(rest) + 1
<1>1. w \in Seq(S) /\ rest \in Seq(S) /\ Len(rest) <= Len(w)
  BY DEF Given, IsPatch, Suffix
<1>2. \A k \in 1..Len(rest) : rest[k] = w[Len(w) - Len(rest) + k]
  BY DEF Suffix
<1> HIDE DEF S
<1>3. Len(w) \in Nat /\ Len(rest) \in Nat /\ Len(rest) > 0
  BY <1>1
<1>4. /\ Tail(rest) \in Seq(S) /\ Len(Tail(rest)) = Len(rest) - 1 /\ Head(rest) = rest[1]
      /\ \A k \in 1..(Len(rest) - 1) : Tail(rest)[k] = rest[k + 1]
  BY <1>1, <1>3
<1>5. i \in 1..Len(w) /\ Head(rest) = w[i]
  BY <1>1, <1>2, <1>3, <1>4
<1>6. Done(w, rest) = {w[k] : k \in 1..(i - 1)}
  BY <1>3 DEF Done
<1>7. Done(w, Tail(rest)) = {w[k] : k \in 1..i}
  BY <1>3, <1>4 DEF Done
<1>8. Suffix(Tail(rest), w)
  <2>1. \A k \in 1..(Len(rest) - 1) : Tail(rest)[k] = w[Len(w) - (Len(rest) - 1) + k]
    BY <1>2, <1>3, <1>4
  <2> QED
    BY <2>1, <1>1, <1>3, <1>4 DEF Suffix, S
<1> HIDE DEF i
<1>9. Turn(w, Done(w, rest), w[i]) /\ {w[k] : k \in 1..i} = With(Done(w, rest), w[i])
  BY <1>5, <1>6, TurnOf
<1> QED
  BY <1>5, <1>7, <1>8, <1>9

LEMMA Nothing ==
  /\ ToSet(<<>>) = {} /\ PathLines(<<>>) = {} /\ Nodes(<<>>) = {} /\ Ids(<<>>) = {}
  /\ \A d : In(<<>>, d) = {}
<1>1. ToSet(<<>>) = {}
  BY DEF ToSet
<1> QED
  BY <1>1 DEF PathLines, Nodes, Ids, In

LEMMA SameLength ==
  ASSUME NEW a \in Nat, NEW b \in Nat, 1..a = 1..b
  PROVE  a = b
<1>1. a <= b
  <2>1. CASE a = 0
    BY <2>1
  <2>2. CASE a # 0
    <3>1. a \in 1..a
      BY <2>2
    <3>2. a \in 1..b
      BY <3>1
    <3> QED
      BY <3>2
  <2> QED
    BY <2>1, <2>2
<1>2. b <= a
  <2>1. CASE b = 0
    BY <2>1
  <2>2. CASE b # 0
    <3>1. b \in 1..b
      BY <2>2
    <3>2. b \in 1..a
      BY <3>1
    <3> QED
      BY <3>2
  <2> QED
    BY <2>1, <2>2
<1> QED
  BY <1>1, <1>2

(* A full listing is a patch against nothing.                              *)
LEMMA ListingPatch ==
  ASSUME NEW s, Proper(s)
  PROVE  Given(<<>>, s, AsAdded(s))
<1> DEFINE w == AsAdded(s)
           T == LinesWith({"+", "-", "*"})
<1>0. s \in Seq(LinesWith({""}))
  BY DEF Proper
<1>1. /\ s \in Seq(LinesWith({""})) /\ InOrder(s)
      /\ \A i, j \in DOMAIN s : s[i] = s[j] => i = j
  BY DEF Proper, IsInjective
<1>2. /\ DOMAIN s = 1..Len(s) /\ Len(s) \in Nat
      /\ \A i \in 1..Len(s) : s[i] \in PathsWith({""}) \/ s[i] \in NodesWith({""})
      /\ \A i \in 1..Len(s) : s[i] \in ToSet(s)
      /\ \A l \in ToSet(s) : \E i \in 1..Len(s) : s[i] = l
  <2>1. DOMAIN s = 1..Len(s) /\ Len(s) \in Nat
    BY <1>0, LenProperties
  <2>2. \A i \in 1..Len(s) : s[i] \in PathsWith({""}) \/ s[i] \in NodesWith({""})
    <3>1. \A i \in 1..Len(s) : s[i] \in LinesWith({""})
      BY <1>0, ElementOfSeq
    <3> QED
      BY <3>1 DEF LinesWith
  <2>3. /\ \A i \in 1..Len(s) : s[i] \in ToSet(s)
        /\ \A l \in ToSet(s) : \E i \in 1..Len(s) : s[i] = l
    BY <1>0, LinesOf
  <2> QED
    BY <2>1, <2>2, <2>3
<1>n. DOMAIN s = 1..Len(s) /\ Len(s) \in Nat
  BY <1>2
<1>3. /\ DOMAIN w = 1..Len(s) /\ \A i \in 1..Len(s) : w[i] = Mark("+", s[i])
      /\ w = [i \in 1..Len(s) |-> Mark("+", s[i])]
  BY <1>2 DEF AsAdded
<1> HIDE DEF w
<1>4. \A l \in PathsWith({""}) : Mark("+", l) \in T /\ Mark("+", l).kind = "path" /\ l.kind = "path" /\ l.act = ""
  BY DEF Mark, PathsWith, LinesWith
<1>5. \A l \in NodesWith({""}) : Mark("+", l) \in T /\ Mark("+", l).kind = "node" /\ l.kind = "node" /\ l.act = ""
  BY DEF Mark, NodesWith, LinesWith
<1> HIDE DEF T
<1>6. w \in Seq(T) /\ Len(w) = Len(s)
  <2>1. \A i \in 1..Len(s) : Mark("+", s[i]) \in T
    BY <1>2, <1>4, <1>5
  <2>2. w \in [1..Len(s) -> T]
    BY <2>1, <1>3
  <2>3. w \in Seq(T)
    BY <2>2, <1>2, SeqDef
  <2>4. Len(w) \in Nat /\ DOMAIN w = 1..Len(w)
    BY <2>3
  <2>5. 1..Len(w) = 1..Len(s)
    BY <2>4, <1>3
  <2> QED
    BY <2>3, <2>4, <2>5, <1>n, SameLength
<1>7. ASSUME NEW i \in 1..Len(s), NEW j \in 1..Len(s), w[i] = w[j]
      PROVE  i = j
  <2>1. Mark("+", s[i]) = Mark("+", s[j])
    BY <1>3, <1>7
  <2>2. s[i] = s[j]
    <3>1. CASE s[i] \in PathsWith({""}) /\ s[j] \in PathsWith({""})
      BY <2>1, <3>1, SamePath
    <3>2. CASE s[i] \in NodesWith({""}) /\ s[j] \in NodesWith({""})
      BY <2>1, <3>2, SameNode
    <3> QED
      BY <2>1, <3>1, <3>2, <1>2, <1>4, <1>5
  <2> QED
    BY <2>2, <1>1, <1>2
<1>8. \A l \in ToSet(w) : \E k \in ToSet(s) : l = Mark("+", k)
  <2>1. \A l \in ToSet(w) : \E i \in 1..Len(w) : w[i] = l
    BY <1>6, LinesOf
  <2> QED
    BY <2>1, <1>2, <1>3, <1>6
<1>9. \A k \in ToSet(s) : Mark("+", k) \in ToSet(w)
  <2>1. \A i \in 1..Len(w) : w[i] \in ToSet(w)
    BY <1>6, LinesOf
  <2> QED
    BY <2>1, <1>2, <1>3, <1>6
<1>10. /\ ToSet(s) = PathLines(s) \cup Nodes(s)
       /\ PathLines(s) \subseteq PathsWith({""}) /\ Nodes(s) \subseteq NodesWith({""})
  <2>1. ASSUME NEW l \in ToSet(s)
        PROVE  l.kind = "path" \/ l.kind = "node"
    <3>1. l \in PathsWith({""}) \/ l \in NodesWith({""})
      BY <1>2
    <3> QED
      BY <3>1, <1>4, <1>5
  <2> QED
    BY <2>1, ProperTypes DEF PathLines, Nodes
<1>11. ASSUME NEW l \in ToSet(w)
       PROVE  l.act = "+"
  <2>1. PICK k \in ToSet(s) : l = Mark("+", k)
    BY <1>8
  <2>2. CASE k \in PathsWith({""})
    BY <2>1, <2>2, PathMark
  <2>3. CASE k \in NodesWith({""})
    BY <2>1, <2>3, NodeMark
  <2> QED
    BY <2>2, <2>3, <1>10
<1>12. Announced(w) = {}
  BY <1>11 DEF Announced, PathLines
<1>13. ToSet(w) = Difference(<<>>, s, {})
  <2>1. Marked("+", {l \in PathLines(s) : l.id \notin Ids(<<>>)}) = Marked("+", PathLines(s))
    BY Nothing DEF Marked
  <2>2. Marked("+", {n \in Nodes(s) : \A o \in Nodes(<<>>) : ~Same(o, n)}) = Marked("+", Nodes(s))
    BY Nothing DEF Marked
  <2>3. /\ Marked("-", {l \in PathLines(<<>>) : l.id \notin Ids(s)}) = {}
        /\ Marked("*", {l \in PathLines(s) : l.id \in {}}) = {}
        /\ Marked("-", {o \in Nodes(<<>>) : o.pid \in Ids(s) /\ \A n \in Nodes(s) : ~Same(o, n)}) = {}
    BY Nothing DEF Marked
  <2>4. {Told(p[1], p[2]) : p \in {q \in Nodes(<<>>) \X Nodes(s) : Resizes(q)}} = {}
    BY Nothing
  <2>5. Difference(<<>>, s, {}) = Marked("+", PathLines(s)) \cup Marked("+", Nodes(s))
    BY <2>1, <2>2, <2>3, <2>4 DEF Difference
  <2>6. \A l \in ToSet(w) : l \in Marked("+", PathLines(s)) \cup Marked("+", Nodes(s))
    BY <1>8, <1>10 DEF Marked
  <2>7. \A l \in Marked("+", PathLines(s)) \cup Marked("+", Nodes(s)) : l \in ToSet(w)
    BY <1>9, <1>10 DEF Marked
  <2> QED
    BY <2>5, <2>6, <2>7
<1>14. InOrder(w)
  <2>1. ASSUME NEW i \in 1..Len(s), NEW j \in 1..Len(s),
               w[i].kind = "path", w[j].kind = "node", w[i].id \in {w[j].pid, w[j].dir}
        PROVE  i < j
    <3>1. s[i] \in PathsWith({""}) /\ s[j] \in NodesWith({""})
      BY <2>1, <1>2, <1>3, <1>4, <1>5
    <3>4. w[i].id = s[i].id
      BY <3>1, <1>3, PathMark
    <3>2. w[i].id = s[i].id /\ w[j].pid = s[j].pid /\ w[j].dir = s[j].dir
      BY <3>1, <3>4, <1>3, NodeMark
    <3>3. s[i].kind = "path" /\ s[i].act # "-" /\ s[j].kind = "node" /\ s[i].id \in {s[j].pid, s[j].dir}
      BY <3>1, <3>2, <2>1, <1>4, <1>5
    <3> QED
      BY <3>3, <1>1, <1>2 DEF InOrder
  <2>2. ASSUME NEW i \in 1..Len(s), NEW j \in 1..Len(s),
               w[i].kind = "node", w[i].pid # 0, w[j].kind = "node", w[i].pid = w[j].dir
        PROVE  i < j
    <3>1. s[i] \in NodesWith({""}) /\ s[j] \in NodesWith({""})
      BY <2>2, <1>2, <1>3, <1>4, <1>5
    <3>2. w[i].pid = s[i].pid /\ w[j].dir = s[j].dir
      <4>1. w[i] = Mark("+", s[i]) /\ w[j] = Mark("+", s[j])
        BY <1>3
      <4>2. Mark("+", s[i]).pid = s[i].pid /\ Mark("+", s[j]).dir = s[j].dir
        BY <3>1, NodeMark
      <4> QED
        BY <4>1, <4>2
    <3>3. s[i].kind = "node" /\ s[i].pid # 0 /\ s[j].kind = "node" /\ s[j].act # "-" /\ s[i].pid = s[j].dir
      BY <3>1, <3>2, <2>2, <1>5
    <3> QED
      BY <3>3, <1>1, <1>2 DEF InOrder
  <2> QED
    BY <2>1, <2>2, <1>3 DEF InOrder
<1>15. Continues(<<>>, s)
  BY Nothing DEF Continues
<1>16. IsPatch(w, <<>>, s)
  <2>1. IsInjective(w)
    BY <1>3, <1>7 DEF IsInjective
  <2>2. \A l \in Nodes(w) : l.act # "*" /\ l.pid \in Ids(<<>>) => l.pid \in Announced(w)
    BY Nothing
  <2> QED
    BY <2>1, <2>2, <1>6, <1>12, <1>13, <1>14, <1>15 DEF IsPatch, T
<1>17. Proper(<<>>)
  <2>1. <<>> \in Seq(LinesWith({""})) /\ IsInjective(<<>>) /\ InOrder(<<>>)
    BY DEF IsInjective, InOrder
  <2>2. {n.dir : n \in Nodes(<<>>)} \ {0} = Ids(<<>>) /\ {n.pid : n \in Nodes(<<>>)} \ {0} \subseteq Ids(<<>>)
    BY Nothing
  <2> QED
    BY <2>1, <2>2, Nothing DEF Proper
<1> QED
  BY <1>16, <1>17 DEF Given, w

-----------------------------------------------------------------------------
(* The rows a listing stands for.                                          *)
LEMMA PathsOfIs ==
  ASSUME NEW s, Proper(s)
  PROVE  /\ DOMAIN PathsOf(s) = Ids(s) /\ PathTypes(PathsOf(s))
         /\ \A l \in PathLines(s) : PathsOf(s)[l.id].path = l.path
         /\ \A n \in Nodes(s) : n.dir # 0 => NewRow(PathsOf(s)[n.dir], n)
<1> DEFINE node(id) == CHOOSE l \in Nodes(s) : l.dir = id
           line(id) == CHOOSE l \in PathLines(s) : l.id = id
           row(id) == [path |-> line(id).path, parent |-> node(id).pid, fid |-> node(id).fid,
                       items |-> node(id).items, size |-> node(id).size]
<1>1. /\ DOMAIN PathsOf(s) = Ids(s)
      /\ \A id \in Ids(s) : PathsOf(s)[id] = row(id)
  BY DEF PathsOf
<1>2. \A id \in Ids(s) : /\ line(id) \in PathLines(s) /\ line(id).id = id
                         /\ node(id) \in Nodes(s) /\ node(id).dir = id
  BY Keys
<1> HIDE DEF node, line
<1>3. PathTypes(PathsOf(s))
  <2>1. ASSUME NEW id \in Ids(s)
        PROVE  row(id) \in PathRowType
    <3>1. line(id) \in PathsWith({""}) /\ node(id) \in NodesWith({""})
      BY <1>2, ProperTypes
    <3>2. line(id).path \in Seq(Nat)
      BY <3>1 DEF PathsWith
    <3> QED
      BY <3>1, <3>2, NodeTypes DEF PathRowType
  <2> QED
    BY <1>1, <2>1 DEF PathTypes, PathsOf
<1>4. ASSUME NEW l \in PathLines(s)
      PROVE  PathsOf(s)[l.id].path = l.path
  <2>1. l.id \in Ids(s)
    BY DEF Ids
  <2>2. line(l.id) = l
    BY <2>1, <1>2, Keys
  <2> QED
    BY <2>1, <2>2, <1>1
<1>5. ASSUME NEW n \in Nodes(s), n.dir # 0
      PROVE  NewRow(PathsOf(s)[n.dir], n)
  <2>1. n.dir \in Ids(s)
    BY <1>5, Keys
  <2>2. node(n.dir) = n
    BY <2>1, <1>2, <1>5, Keys
  <2> QED
    BY <2>1, <2>2, <1>1 DEF NewRow
<1> QED
  BY <1>1, <1>3, <1>4, <1>5

(* Before the first line is applied.                                       *)
LEMMA FirstRight ==
  ASSUME NEW old, NEW new, NEW w, Given(old, new, w), NEW ps, ps = PathsOf(old)
  PROVE  StateRight(ps, FilesOf(old), {}, {}, <<>>, w, old, new, w, {})
<1>1. Pushed(<<>>, w, {}) = {}
  BY DEF Pushed, Opened
<1>2. /\ DOMAIN ps = Ids(old) /\ PathTypes(ps)
      /\ \A l \in PathLines(old) : ps[l.id].path = l.path
      /\ \A n \in Nodes(old) : n.dir # 0 => NewRow(ps[n.dir], n)
  BY PathsOfIs DEF Given
<1>3. /\ \A a : ~WasAdded(a, {}) /\ ~WasDeleted(a, {})
      /\ \A a, b : ~WasResized(a, b, {})
  BY DEF WasAdded, WasDeleted, WasResized
<1>4. PathIds(old, new, {}) = Ids(old)
  BY <1>3 DEF PathIds, Ids
<1>5. PathNames(ps, old, new)
  <2>1. ASSUME NEW l \in PathLines(new), l.id \in Ids(old)
        PROVE  ps[l.id].path = l.path
    <3>1. PICK o \in PathLines(old) : o.id = l.id
      BY <2>1 DEF Ids
    <3>2. o.path = l.path
      BY <3>1 DEF Given, IsPatch, Continues
    <3> QED
      BY <3>1, <3>2, <1>2
  <2> QED
    BY <2>1, <1>2 DEF PathNames
<1>6. OldDirs(ps, old, new, {}, {})
  <2>1. ASSUME NEW o \in Nodes(old), NEW n \in Nodes(new), Same(o, n), n.dir # 0
        PROVE  OldRow(ps[n.dir], o, n, {}, {})
    <3>1. o.dir = n.dir /\ o.pid = n.pid
      BY <2>1 DEF Same
    <3>2. NewRow(ps[n.dir], o)
      BY <3>1, <2>1, <1>2
    <3> QED
      BY <3>1, <3>2, <1>3 DEF NewRow, OldRow
  <2> QED
    BY <2>1 DEF OldDirs
<1>7. NewDirs(ps, old, new, {})
  BY <1>3 DEF NewDirs
<1>8. PathsRight(ps, old, new, {}, {})
  BY <1>2, <1>4, <1>5, <1>6, <1>7 DEF PathsRight
<1>9. \A o \in Nodes(old) : NowRow(o, new, {}) = RowOf(o)
  <2>1. \A o : NowSize(o, new, {}) = o.size
    BY <1>3 DEF NowSize
  <2> QED
    BY <2>1 DEF NowRow, RowOf
<1>10. Staying(old, {}, {}, Ids(old)) = {n \in Nodes(old) : n.pid # 0}
  <2>1. \A o \in Nodes(old) : o.pid \in Ids(old) <=> o.pid # 0
    BY Keys, GivenTypes DEF Given
  <2> QED
    BY <2>1, <1>3 DEF Staying
<1>11. Arrived(old, new, {}, {}) = {} /\ Waiting(old, new, {}, {}) = {}
  BY <1>3 DEF Arrived, Waiting
<1>12. FilesOf(old) = {NowRow(o, new, {}) : o \in Staying(old, {}, {}, Ids(old))}
  <2>1. {n \in Nodes(old) : n.pid # 0} \subseteq Nodes(old)
    OBVIOUS
  <2> QED
    BY <2>1, <1>9, <1>10 DEF FilesOf
<1>13. FilesRight(FilesOf(old), {}, DOMAIN ps, old, new, {}, {})
  BY <1>2, <1>11, <1>12 DEF FilesRight
<1>14. NewRight({}, old, new, {}, {})
  BY <1>11 DEF NewRight
<1>15. BufferRight(<<>>, w, w, {})
  BY DEF BufferRight
<1> QED
  BY <1>1, <1>8, <1>13, <1>14, <1>15 DEF StateRight

(* An entry that is in both listings, of a directory that has not been     *)
(* pushed, when all lines have been applied.                               *)
LEMMA LastRow ==
  ASSUME NEW old, NEW new, NEW w, Given(old, new, w),
         NEW o \in Nodes(old), NEW n \in Nodes(new), Same(o, n)
  PROVE  /\ WasResized(o, n, ToSet(w)) \/ (o.size = n.size /\ o.items = n.items)
         /\ n.pid \notin Announced(w) => NowRow(o, new, ToSet(w)) = RowOf(n)
<1>1. WasResized(o, n, ToSet(w)) \/ (o.size = n.size /\ o.items = n.items)
  BY LineThere DEF WasResized
<1>2. ASSUME n.pid \notin Announced(w)
      PROVE  NowRow(o, new, ToSet(w)) = RowOf(n)
  <2>1. NowSize(o, new, ToSet(w)) = n.size
    BY <1>1, NowSizeIs
  <2>2. o.fid = n.fid
    BY <1>2, KeptNumbers
  <2>3. o.pid = n.pid /\ o.name = n.name /\ o.dir = n.dir
    BY DEF Same
  <2> QED
    BY <2>1, <2>2, <2>3 DEF NowRow, RowOf
<1> QED
  BY <1>1, <1>2

(* When all lines have been applied and the announced directories pushed,  *)
(* the rows are what the new listing stands for.                           *)
LEMMA LastRight ==
  ASSUME NEW old, NEW new, NEW w, Given(old, new, w), NEW ps, NEW fs, NEW fq, NEW nf, NEW b, NEW rest,
         StateRight(ps, fs, fq, nf, b, rest, old, new, w, ToSet(w)), \A d \in DOMAIN b : ~b[d]
  PROVE  /\ ps = PathsOf(new) /\ fs \cup fq = FilesOf(new)
         /\ \A r \in fq : r.pid \in DOMAIN ps
<1> DEFINE D == ToSet(w)
           P == Pushed(b, w, ToSet(w))
           A == Announced(w)
<1>0. /\ PathsRight(ps, old, new, D, P) /\ FilesRight(fs, fq, DOMAIN ps, old, new, D, P)
      /\ BufferRight(b, rest, w, D)
  BY DEF StateRight
<1>1. P = A
  <2>1. ASSUME NEW p \in A
        PROVE  p \notin DOMAIN b /\ Opened(p, D)
    <3>1. PICK k \in PathLines(w) : k.act = "*" /\ k.id = p
      BY DEF Announced
    <3>2. Opened(p, D)
      BY <3>1 DEF Opened, PathLines
    <3>3. p \in DOMAIN b => b[p] = (p \in A)
      BY <1>0 DEF BufferRight
    <3>4. (p \in A) = TRUE
      OBVIOUS
    <3> QED
      BY <3>2, <3>3, <3>4
  <2> QED
    BY <2>1 DEF Pushed
<1> HIDE DEF D, P, A
<1>2. /\ \A k \in PathLines(new) : k.id \notin Ids(old) => WasAdded(k, D)
      /\ \A k \in PathLines(old) : k.id \notin Ids(new) => WasDeleted(k, D)
      /\ \A n \in Nodes(new) : (\A o \in Nodes(old) : ~Same(o, n)) => WasAdded(n, D)
      /\ \A o \in Nodes(old) : (o.pid \in Ids(new) /\ \A n \in Nodes(new) : ~Same(o, n)) => WasDeleted(o, D)
  BY LineThere DEF WasAdded, WasDeleted, D
<1>3. \A o \in Nodes(old), n \in Nodes(new) : Same(o, n) =>
        /\ WasResized(o, n, D) \/ (o.size = n.size /\ o.items = n.items)
        /\ n.pid \notin P => NowRow(o, new, D) = RowOf(n)
  BY <1>1, LastRow DEF D, A
<1>4. PathIds(old, new, D) = Ids(new)
  <2>1. \A id \in PathIds(old, new, D) : id \in Ids(new)
    BY <1>2 DEF PathIds, Ids
  <2>2. ASSUME NEW k \in PathLines(new)
        PROVE  k.id \in PathIds(old, new, D)
    <3>1. CASE k.id \in Ids(old)
      <4>1. PICK m \in PathLines(old) : m.id = k.id
        BY <3>1 DEF Ids
      <4>2. m.id \in Ids(new)
        BY <4>1 DEF Ids
      <4> QED
        BY <4>1, <4>2 DEF PathIds
    <3>2. CASE k.id \notin Ids(old)
      BY <3>2, <1>2 DEF PathIds
    <3> QED
      BY <3>1, <3>2
  <2> QED
    BY <2>1, <2>2 DEF Ids
<1>5. /\ DOMAIN PathsOf(new) = Ids(new) /\ PathTypes(PathsOf(new))
      /\ \A l \in PathLines(new) : PathsOf(new)[l.id].path = l.path
      /\ \A n \in Nodes(new) : n.dir # 0 => NewRow(PathsOf(new)[n.dir], n)
  BY PathsOfIs DEF Given
<1>6. /\ DOMAIN ps = Ids(new) /\ PathTypes(ps) /\ PathNames(ps, old, new)
      /\ OldDirs(ps, old, new, D, P) /\ NewDirs(ps, old, new, D)
  BY <1>0, <1>4 DEF PathsRight
<1>7. ASSUME NEW id \in Ids(new)
      PROVE  ps[id] = PathsOf(new)[id]
  <2>1. PICK l \in PathLines(new), n \in Nodes(new) : l.id = id /\ n.dir = id
    BY Keys DEF Given
  <2>2. n.dir # 0
    BY <2>1, GivenTypes
  <2>3. ps[id].path = l.path /\ PathsOf(new)[id].path = l.path
    BY <2>1, <1>5, <1>6 DEF PathNames
  <2>4. NewRow(ps[id], n)
    <3>1. CASE id \in Ids(old)
      <4>1. PICK o \in Nodes(old) : o.dir = id
        BY <3>1, Keys DEF Given
      <4>2. Same(o, n)
        BY <2>1, <2>2, <4>1 DEF Given, IsPatch, Continues
      <4>3. OldRow(ps[n.dir], o, n, D, P)
        BY <2>2, <4>2, <1>6 DEF OldDirs
      <4>4. n.pid \notin P => o.fid = n.fid
        BY <4>2, <1>1, KeptNumbers DEF A
      <4>5. WasResized(o, n, D) \/ (o.size = n.size /\ o.items = n.items)
        BY <4>2, <1>3
      <4> QED
        BY <4>3, <4>4, <4>5, <2>1 DEF OldRow, NewRow
    <3>2. CASE id \notin Ids(old)
      <4>1. \A o \in Nodes(old) : ~Same(o, n)
        BY <3>2, <2>1, <2>2, Keys DEF Given, Same
      <4> QED
        BY <4>1, <3>2, <2>1, <2>2, <1>2, <1>6 DEF NewDirs
    <3> QED
      BY <3>1, <3>2
  <2>5. NewRow(PathsOf(new)[id], n)
    BY <2>1, <2>2, <1>5
  <2>6. ps[id] \in PathRowType /\ PathsOf(new)[id] \in PathRowType
    BY <1>5, <1>6 DEF PathTypes
  <2>7. \A a, c \in PathRowType : (/\ a.path = c.path /\ a.parent = c.parent /\ a.fid = c.fid
                                   /\ a.items = c.items /\ a.size = c.size) => a = c
    BY DEF PathRowType
  <2> QED
    BY <2>3, <2>4, <2>5, <2>6, <2>7 DEF NewRow
<1>8. ps = PathsOf(new)
  <2>1. ps = [id \in Ids(new) |-> ps[id]]
    BY <1>6 DEF PathTypes
  <2>2. PathsOf(new) = [id \in Ids(new) |-> PathsOf(new)[id]]
    BY <1>5 DEF PathsOf
  <2> QED
    BY <2>1, <2>2, <1>7
<1>9. \A n \in Nodes(new) : n.pid # 0 <=> n.pid \in Ids(new)
  BY Keys, GivenTypes DEF Given
<1>10. ASSUME NEW r \in fs \cup fq
       PROVE  r \in FilesOf(new)
  <2>1. CASE \E o \in Staying(old, D, P, DOMAIN ps) : r = NowRow(o, new, D)
    <3>1. PICK o \in Staying(old, D, P, DOMAIN ps) : r = NowRow(o, new, D)
      BY <2>1
    <3>2. o \in Nodes(old) /\ o.pid \in Ids(new) /\ o.pid \notin P /\ ~WasDeleted(o, D)
      BY <3>1, <1>6 DEF Staying
    <3>3. PICK n \in Nodes(new) : Same(o, n)
      BY <3>2, <1>2
    <3>4. n.pid = o.pid
      BY <3>3 DEF Same
    <3>5. r = RowOf(n)
      BY <3>1, <3>2, <3>3, <3>4, <1>3
    <3> QED
      BY <3>2, <3>4, <3>5, <1>9 DEF FilesOf
  <2>2. CASE \E n \in Arrived(old, new, D, P) : r = RowOf(n)
    <3>1. PICK n \in Arrived(old, new, D, P) : r = RowOf(n)
      BY <2>2
    <3>2. n \in Nodes(new) /\ n.pid # 0
      BY <1>1, AnnouncedIds, GivenTypes DEF Arrived, A
    <3> QED
      BY <3>1, <3>2 DEF FilesOf
  <2> QED
    BY <2>1, <2>2, <1>0 DEF FilesRight
<1>11. ASSUME NEW n \in Nodes(new), n.pid # 0
       PROVE  RowOf(n) \in fs \cup fq
  <2>1. CASE n.pid \in P \/ (n.pid \notin Ids(old) /\ WasAdded(n, D))
    <3>1. n \in Arrived(old, new, D, P)
      BY <2>1, <1>11 DEF Arrived
    <3> QED
      BY <3>1, <1>0 DEF FilesRight
  <2>2. CASE n.pid \notin P /\ \E o \in Nodes(old) : Same(o, n)
    <3>1. PICK o \in Nodes(old) : Same(o, n)
      BY <2>2
    <3>2. o.pid = n.pid
      BY <3>1 DEF Same
    <3>3. ~WasDeleted(o, D)
      BY <3>1, DeletedMeans DEF WasDeleted, D
    <3>4. o \in Staying(old, D, P, DOMAIN ps)
      BY <3>2, <3>3, <2>2, <1>6, <1>9, <1>11 DEF Staying
    <3>5. NowRow(o, new, D) = RowOf(n)
      BY <3>1, <2>2, <1>3
    <3> QED
      BY <3>4, <3>5, <1>0 DEF FilesRight
  <2>3. CASE n.pid \notin P /\ \A o \in Nodes(old) : ~Same(o, n)
    <3>1. WasAdded(n, D)
      BY <2>3, <1>2
    <3>2. n \in NodesWith({""})
      BY GivenTypes
    <3>5. Mark("+", n).kind = "node" /\ Mark("+", n).pid = n.pid /\ Mark("+", n).act = "+"
      BY <3>2, NodeMark
    <3>3. Mark("+", n) \in Nodes(w) /\ Mark("+", n).pid = n.pid /\ Mark("+", n).act # "*"
      BY <3>1, <3>5 DEF WasAdded, Nodes, D
    <3>4. n.pid \notin Ids(old)
      BY <3>3, <2>3, <1>1 DEF Given, IsPatch, A
    <3> QED
      BY <3>1, <3>4, <2>1
  <2> QED
    BY <2>1, <2>2, <2>3
<1>12. fs \cup fq = FilesOf(new)
  BY <1>10, <1>11 DEF FilesOf
<1>13. \A r \in fq : r.pid \in DOMAIN ps
  BY <1>0 DEF FilesRight
<1> QED
  BY <1>8, <1>12, <1>13

(* What rows and paths_buffer are made of.                                 *)
LEMMA TypesRight ==
  ASSUME NEW old, NEW new, NEW w, Given(old, new, w), NEW D, NEW ps, NEW fs, NEW fq, NEW nf, NEW b, NEW rest,
         StateRight(ps, fs, fq, nf, b, rest, old, new, w, D)
  PROVE  /\ \A id \in DOMAIN ps : /\ id \in Nat \ {0}
                                  /\ DOMAIN ps[id] = {"path", "parent", "fid", "items", "size"}
         /\ \A r \in fs \cup nf \cup fq : {r.pid, r.fid, r.dir, r.size, r.name} \subseteq Nat
         /\ \A d \in DOMAIN b : b[d] \in BOOLEAN
<1> DEFINE P == Pushed(b, w, D)
<1>1. /\ PathsRight(ps, old, new, D, P) /\ FilesRight(fs, fq, DOMAIN ps, old, new, D, P)
      /\ NewRight(nf, old, new, D, P) /\ BufferRight(b, rest, w, D)
  BY DEF StateRight
<1> HIDE DEF P
<1>2. ASSUME NEW id \in DOMAIN ps
      PROVE  /\ id \in Nat \ {0}
             /\ DOMAIN ps[id] = {"path", "parent", "fid", "items", "size"}
  <2>1. id \in Nat \ {0}
    BY <1>1, OldDirIds, GivenTypes
  <2>2. ps[id] \in PathRowType
    BY <1>1 DEF PathsRight, PathTypes
  <2>3. DOMAIN ps[id] = {"path", "parent", "fid", "items", "size"}
    BY <2>2 DEF PathRowType
  <2> QED
    BY <2>1, <2>3
<1> DEFINE Good(r) == {r.pid, r.fid, r.dir, r.size, r.name} \subseteq Nat
<1>3. ASSUME NEW n \in Nodes(new)
      PROVE  Good(RowOf(n))
  <2>1. n \in NodesWith({""})
    BY GivenTypes
  <2>2. n.pid \in Nat /\ n.fid \in Nat /\ n.dir \in Nat /\ n.size \in Nat /\ n.name \in Nat
    BY <2>1, NodeTypes
  <2> QED
    BY <2>2, RowOfFields
<1>4. ASSUME NEW o \in Nodes(old)
      PROVE  Good(NowRow(o, new, D))
  <2>1. NowSize(o, new, D) \in Nat
    <3>1. CASE \E n \in Nodes(new) : Same(o, n) /\ WasResized(o, n, D)
      <4>1. PICK n \in Nodes(new) : NowSize(o, new, D) = n.size
        BY <3>1 DEF NowSize
      <4> QED
        BY <4>1, GivenTypes, NodeTypes
    <3>2. CASE ~\E n \in Nodes(new) : Same(o, n) /\ WasResized(o, n, D)
      <4>1. NowSize(o, new, D) = o.size
        BY <3>2 DEF NowSize
      <4> QED
        BY <4>1, GivenTypes, NodeTypes
    <3> QED
      BY <3>1, <3>2
  <2>2. o \in NodesWith({""})
    BY GivenTypes
  <2>3. o.pid \in Nat /\ o.fid \in Nat /\ o.dir \in Nat /\ o.name \in Nat
    BY <2>2, NodeTypes
  <2> QED
    BY <2>1, <2>3, NowRowFields
<1> HIDE DEF Good
<1>5. \A r \in fs \cup fq : Good(r)
  BY <1>1, <1>3, <1>4 DEF FilesRight, Staying, Arrived
<1>6. \A r \in nf : Good(r)
  BY <1>1, <1>3 DEF NewRight, Waiting
<1>7. ASSUME NEW d \in DOMAIN b
      PROVE  b[d] \in BOOLEAN
  <2>1. b[d] = (d \in Announced(w))
    BY <1>1 DEF BufferRight
  <2>2. (d \in Announced(w)) = TRUE \/ (d \in Announced(w)) = FALSE
    OBVIOUS
  <2> QED
    BY <2>1, <2>2
<1> QED
  BY <1>2, <1>5, <1>6, <1>7 DEF Good

(* A directory whose size stayed the same is pushed when all lines have    *)
(* been applied.                                                           *)
LEMMA RestRight ==
  ASSUME NEW old, NEW new, NEW w, Given(old, new, w),
         StateRight(paths, files, fquery, newfiles, buffer, <<>>, old, new, w, ToSet(w)),
         NEW d \in DOMAIN buffer, buffer[d], NEW db, db = Push(d, Database),
         NEW c, c = Restrict(buffer, DOMAIN buffer \ {d})
  PROVE  /\ db.ok
         /\ StateRight(db.paths, db.files, fquery, db.newfiles, c, <<>>, old, new, w, ToSet(w))
<1> DEFINE D == ToSet(w)
           P == Pushed(buffer, w, D)
<1>1. /\ PathsRight(paths, old, new, D, P) /\ FilesRight(files, fquery, DOMAIN paths, old, new, D, P)
      /\ NewRight(newfiles, old, new, D, P) /\ BufferRight(buffer, <<>>, w, D)
  BY DEF StateRight
<1>2. d \in Announced(w) /\ Opened(d, D)
  BY <1>1 DEF BufferRight
<1>3. d \notin P
  BY DEF Pushed
<1>4. /\ Database.ok = TRUE /\ Database.paths = paths
      /\ Database.files = files /\ Database.newfiles = newfiles
  BY DEF Database
<1>5. \A l \in Nodes(w) : l \in D
  BY DEF Nodes
<1> HIDE DEF D
<1>6. Pushable(d, Database, fquery, old, new, w, D, D, P)
  BY <1>1, <1>2, <1>3, <1>4, <1>5 DEF Pushable, D
<1>7. /\ db.ok
      /\ PathsRight(db.paths, old, new, D, P \cup {d})
      /\ DOMAIN db.paths = DOMAIN paths
      /\ FilesRight(db.files, fquery, DOMAIN paths, old, new, D, P \cup {d})
      /\ NewRight(db.newfiles, old, new, D, P \cup {d})
  BY <1>4, <1>6, PushRight
<1>8. DOMAIN c = DOMAIN buffer \ {d} /\ \A e \in DOMAIN c : c[e] = buffer[e]
  BY DEF Restrict
<1>9. Pushed(c, w, D) = P \cup {d}
  BY <1>2, <1>8 DEF Pushed
<1>10. BufferRight(c, <<>>, w, D)
  BY <1>1, <1>2, <1>8 DEF BufferRight
<1> QED
  BY <1>7, <1>9, <1>10 DEF StateRight, D

LEMMA AllLines ==
  ASSUME NEW old, NEW new, NEW w, Given(old, new, w)
  PROVE  /\ Done(w, w) = {} /\ Done(w, <<>>) = ToSet(w) /\ Suffix(w, w)
<1>1. w \in Seq(LinesWith({"+", "-", "*"}))
  BY DEF Given, IsPatch
<1>2. Len(w) \in Nat /\ DOMAIN w = 1..Len(w)
  BY <1>1, LenProperties
<1>3. Done(w, w) = {}
  BY <1>2 DEF Done
<1>4. Done(w, <<>>) = ToSet(w)
  <2>1. Len(w) - Len(<<>>) = Len(w)
    BY <1>2
  <2> QED
    BY <2>1, <1>2 DEF Done, ToSet
<1>5. Suffix(w, w)
  BY <1>1, <1>2 DEF Suffix
<1> QED
  BY <1>3, <1>4, <1>5

-----------------------------------------------------------------------------
(* The steps.                                                              *)
LEMMA LineTurn ==
  ASSUME IInv, mode \in {"patch", "load"}, doc # <<>>
  PROVE  /\ Given(Old, fresh, What) /\ Turn(What, Done(What, doc), Line)
         /\ StateRight(paths, files, fquery, newfiles, buffer, doc, Old, fresh, What, Done(What, doc))
         /\ Suffix(doc, What)
<1>1. /\ Given(Old, fresh, What)
      /\ Suffix(doc, What)
      /\ StateRight(paths, files, fquery, newfiles, buffer, doc, Old, fresh, What, Done(What, doc))
  BY DEF IInv, Applied
<1>2. Turn(What, Done(What, doc), Head(doc))
  BY <1>1, NextLine
<1> QED
  BY <1>1, <1>2 DEF Line

LEMMA LineDone ==
  ASSUME IInv, NEW kind, NEW act, Applying(kind, act), mode' = mode,
         StateRight(paths', files', fquery', newfiles', buffer', Tail(doc), Old, fresh, What,
                    With(Done(What, doc), Line))
  PROVE  IInv'
<1>1. /\ mode \in {"patch", "load"} /\ doc # <<>> /\ doc' = Tail(doc)
      /\ saved' = saved /\ fresh' = fresh /\ patch' = patch
  BY DEF Applying
<1>2. Given(Old, fresh, What) /\ Suffix(doc, What)
  BY <1>1, LineTurn
<1>3. /\ Suffix(Tail(doc), What)
      /\ Done(What, Tail(doc)) = With(Done(What, doc), Head(doc))
  BY <1>1, <1>2, NextLine
<1>4. Applied(paths', files', fquery', newfiles', buffer', Tail(doc), Old, fresh, What)
  BY <1>3 DEF Applied, Line
<1>5. Old' = Old /\ What' = What
  BY <1>1 DEF Old, What
<1> QED
  BY <1>1, <1>2, <1>4, <1>5 DEF IInv

LEMMA AddPathKeeps ==
  ASSUME IInv, AddPath
  PROVE  IInv'
<1> DEFINE D == Done(What, doc)
<1>1. /\ Applying("path", "+")
      /\ Line.kind = "path" /\ Line.act = "+" /\ mode \in {"patch", "load"} /\ doc # <<>>
      /\ files' = files /\ newfiles' = newfiles /\ fquery' = fquery
      /\ paths' = Put(paths, Line.id, PathRow(Line.path)) /\ buffer' = Put(buffer, Line.id, FALSE)
  BY DEF AddPath, Applying
<1>2. /\ Given(Old, fresh, What) /\ Turn(What, D, Line)
      /\ StateRight(paths, files, fquery, newfiles, buffer, doc, Old, fresh, What, D)
  BY <1>1, LineTurn
<1>3. /\ Line.id \notin DOMAIN paths /\ \A id \in DOMAIN paths : paths[id].path # Line.path
      /\ StateRight(Put(paths, Line.id, PathRow(Line.path)), files, fquery, newfiles,
                    Put(buffer, Line.id, FALSE), Tail(doc), Old, fresh, What, With(D, Line))
  BY <1>1, <1>2, LineAddPath
<1>4. mode' = mode
  BY <1>3 DEF AddPath, Go
<1> QED
  BY <1>1, <1>3, <1>4, LineDone

LEMMA DeletePathKeeps ==
  ASSUME IInv, DeletePath
  PROVE  IInv'
<1> DEFINE D == Done(What, doc)
<1>1. /\ Applying("path", "-") /\ mode' = mode
      /\ Line.kind = "path" /\ Line.act = "-" /\ mode \in {"patch", "load"} /\ doc # <<>>
      /\ buffer' = buffer /\ newfiles' = newfiles /\ fquery' = fquery
      /\ paths' = Restrict(paths, DOMAIN paths \ {Line.id}) /\ files' = {r \in files : r.pid # Line.id}
  BY DEF DeletePath, Applying
<1>2. /\ Given(Old, fresh, What) /\ Turn(What, D, Line)
      /\ StateRight(paths, files, fquery, newfiles, buffer, doc, Old, fresh, What, D)
  BY <1>1, LineTurn
<1>3. StateRight(Restrict(paths, DOMAIN paths \ {Line.id}), {r \in files : r.pid # Line.id}, fquery,
                 newfiles, buffer, Tail(doc), Old, fresh, What, With(D, Line))
  BY <1>1, <1>2, LineDeletePath
<1> QED
  BY <1>1, <1>3, LineDone

LEMMA ModifyPathKeeps ==
  ASSUME IInv, ModifyPath
  PROVE  IInv'
<1> DEFINE D == Done(What, doc)
<1>1. /\ Applying("path", "*") /\ mode' = mode
      /\ Line.kind = "path" /\ Line.act = "*" /\ mode \in {"patch", "load"} /\ doc # <<>>
      /\ paths' = paths /\ files' = files /\ newfiles' = newfiles /\ fquery' = fquery
      /\ buffer' = Put(buffer, Line.id, TRUE)
  BY DEF ModifyPath, Applying, rows
<1>2. /\ Given(Old, fresh, What) /\ Turn(What, D, Line)
      /\ StateRight(paths, files, fquery, newfiles, buffer, doc, Old, fresh, What, D)
  BY <1>1, LineTurn
<1>3. StateRight(paths, files, fquery, newfiles, Put(buffer, Line.id, TRUE), Tail(doc),
                 Old, fresh, What, With(D, Line))
  BY <1>1, <1>2, LineModifyPath
<1> QED
  BY <1>1, <1>3, LineDone

LEMMA AddEntryKeeps ==
  ASSUME IInv, AddEntry
  PROVE  IInv'
<1> DEFINE D == Done(What, doc)
           db == CloseDir(Line)
           c == Restrict(buffer, DOMAIN buffer \ {Line.dir})
           known == Line.pid \in DOMAIN buffer
           collected == fquery \cup {LineRow}
           flush == known /\ ~buffer[Line.pid] /\ Cardinality(collected) > Batch
<1>1. /\ Applying("node", "+") /\ Line.pid # 0 /\ buffer' = c
      /\ Line.kind = "node" /\ Line.act = "+" /\ mode \in {"patch", "load"} /\ doc # <<>>
  BY DEF AddEntry, Applying, Closing
<1>2. /\ mode' = IF db.ok /\ known /\ (flush => Flushable(collected)) THEN mode ELSE "failed"
      /\ paths' = db.paths
      /\ newfiles' = IF known /\ buffer[Line.pid] THEN db.newfiles \cup {LineRow} ELSE db.newfiles
      /\ files' = IF flush THEN db.files \cup collected ELSE db.files
      /\ fquery' = IF flush THEN {} ELSE IF known /\ ~buffer[Line.pid] THEN collected ELSE fquery
  BY DEF AddEntry, Go
<1>3. /\ Given(Old, fresh, What) /\ Turn(What, D, Line)
      /\ StateRight(paths, files, fquery, newfiles, buffer, doc, Old, fresh, What, D)
  BY <1>1, LineTurn
<1> HIDE DEF D, db, c
<1>4. \A gs, gq :
        /\ db.ok /\ Line.pid \in DOMAIN buffer /\ buffer[Line.pid] \in BOOLEAN
        /\ ~buffer[Line.pid] => Flushable(fquery \cup {RowOf(Line)})
        /\ buffer[Line.pid] => StateRight(db.paths, db.files, fquery, db.newfiles \cup {RowOf(Line)}, c,
                                          Tail(doc), Old, fresh, What, With(D, Line))
        /\ ~buffer[Line.pid] /\ Collected(gs, gq, db.files, fquery, RowOf(Line)) =>
             StateRight(db.paths, gs, gq, db.newfiles, c, Tail(doc), Old, fresh, What, With(D, Line))
  BY <1>1, <1>3, LineAddEntry DEF db, c
<1>5. LineRow = RowOf(Line)
  BY DEF LineRow
<1>6. known /\ db.ok
  BY <1>4
<1>7. CASE buffer[Line.pid]
  <2>1. ~flush
    BY <1>7
  <2>2. /\ mode' = mode /\ paths' = db.paths /\ newfiles' = db.newfiles \cup {RowOf(Line)}
        /\ files' = db.files /\ fquery' = fquery
    BY <1>2, <1>5, <1>6, <1>7, <2>1
  <2>3. StateRight(db.paths, db.files, fquery, db.newfiles \cup {RowOf(Line)}, c,
                   Tail(doc), Old, fresh, What, With(D, Line))
    BY <1>4, <1>7
  <2> QED
    BY <1>1, <2>2, <2>3, LineDone DEF D
<1>8. CASE ~buffer[Line.pid]
  <2>1. Flushable(collected)
    BY <1>4, <1>5, <1>8
  <2>2. /\ mode' = mode /\ paths' = db.paths /\ newfiles' = db.newfiles
    BY <1>2, <1>6, <1>8, <2>1
  <2>3. Collected(files', fquery', db.files, fquery, RowOf(Line))
    <3>1. CASE flush
      BY <3>1, <1>2, <1>5 DEF Collected
    <3>2. CASE ~flush
      BY <3>2, <1>2, <1>5, <1>6, <1>8 DEF Collected
    <3> QED
      BY <3>1, <3>2
  <2>4. StateRight(db.paths, files', fquery', db.newfiles, c, Tail(doc), Old, fresh, What, With(D, Line))
    BY <1>4, <1>8, <2>3
  <2> QED
    BY <1>1, <2>2, <2>4, LineDone DEF D
<1> QED
  BY <1>7, <1>8

LEMMA DeleteEntryKeeps ==
  ASSUME IInv, DeleteEntry
  PROVE  IInv'
<1> DEFINE D == Done(What, doc)
<1>1. /\ Applying("node", "-") /\ mode' = mode
      /\ Line.kind = "node" /\ Line.act = "-" /\ mode \in {"patch", "load"} /\ doc # <<>>
      /\ paths' = paths /\ buffer' = buffer /\ newfiles' = newfiles /\ fquery' = fquery
      /\ files' = {r \in files : ~(r.pid = Line.pid /\ r.fid = Line.fid)}
  BY DEF DeleteEntry, Applying
<1>2. /\ Given(Old, fresh, What) /\ Turn(What, D, Line)
      /\ StateRight(paths, files, fquery, newfiles, buffer, doc, Old, fresh, What, D)
  BY <1>1, LineTurn
<1>3. StateRight(paths, {r \in files : ~(r.pid = Line.pid /\ r.fid = Line.fid)}, fquery,
                 newfiles, buffer, Tail(doc), Old, fresh, What, With(D, Line))
  BY <1>1, <1>2, LineDeleteEntry
<1> QED
  BY <1>1, <1>3, LineDone

LEMMA ModifyEntryKeeps ==
  ASSUME IInv, ModifyEntry
  PROVE  IInv'
<1> DEFINE D == Done(What, doc)
           db == CloseDir(Line)
           c == Restrict(buffer, DOMAIN buffer \ {Line.dir})
<1>1. /\ Applying("node", "*") /\ Line.pid # 0 /\ buffer' = c
      /\ Line.kind = "node" /\ Line.act = "*" /\ mode \in {"patch", "load"} /\ doc # <<>>
      /\ mode' = (IF db.ok THEN mode ELSE "failed") /\ paths' = db.paths /\ newfiles' = db.newfiles
      /\ files' = WithSize(db.files, Line) /\ fquery' = fquery
  BY DEF ModifyEntry, Applying, Closing, Go
<1>2. /\ Given(Old, fresh, What) /\ Turn(What, D, Line)
      /\ StateRight(paths, files, fquery, newfiles, buffer, doc, Old, fresh, What, D)
  BY <1>1, LineTurn
<1> HIDE DEF D, db, c
<1>3. /\ db.ok
      /\ StateRight(db.paths, WithSize(db.files, Line), fquery, db.newfiles, c, Tail(doc),
                    Old, fresh, What, With(D, Line))
  BY <1>1, <1>2, LineModifyEntry DEF db, c
<1> QED
  BY <1>1, <1>3, LineDone DEF D

LEMMA CloseRootKeeps ==
  ASSUME IInv, CloseRoot
  PROVE  IInv'
<1> DEFINE D == Done(What, doc)
           db == CloseDir(Line)
           c == Restrict(buffer, DOMAIN buffer \ {Line.dir})
<1>1. /\ Line.pid = 0 /\ buffer' = c
      /\ Line.kind = "node" /\ (Line.act = "+" \/ Line.act = "*")
      /\ mode \in {"patch", "load"} /\ doc # <<>>
      /\ mode' = (IF db.ok THEN mode ELSE "failed") /\ paths' = db.paths /\ newfiles' = db.newfiles
      /\ files' = db.files /\ fquery' = fquery
  BY DEF CloseRoot, Applying, Closing, Go
<1>2. /\ Given(Old, fresh, What) /\ Turn(What, D, Line)
      /\ StateRight(paths, files, fquery, newfiles, buffer, doc, Old, fresh, What, D)
  BY <1>1, LineTurn
<1> HIDE DEF D, db, c
<1>3. /\ db.ok
      /\ StateRight(db.paths, db.files, fquery, db.newfiles, c, Tail(doc),
                    Old, fresh, What, With(D, Line))
  BY <1>1, <1>2, LineCloseRoot DEF db, c
<1>4. CASE Applying("node", "+")
  BY <1>1, <1>3, <1>4, LineDone DEF D
<1>5. CASE Applying("node", "*")
  BY <1>1, <1>3, <1>5, LineDone DEF D
<1> QED
  BY <1>4, <1>5 DEF CloseRoot

LEMMA PushRestKeeps ==
  ASSUME IInv, NEW d \in DOMAIN buffer, PushRest(d)
  PROVE  IInv'
<1> DEFINE db == Push(d, Database)
           c == Restrict(buffer, DOMAIN buffer \ {d})
<1>1. /\ mode = "patch" /\ doc = <<>> /\ buffer[d] /\ buffer' = c
      /\ mode' = (IF db.ok THEN mode ELSE "failed")
      /\ paths' = db.paths /\ files' = db.files /\ newfiles' = db.newfiles /\ fquery' = fquery
      /\ saved' = saved /\ fresh' = fresh /\ patch' = patch /\ doc' = doc
  BY DEF PushRest, Go
<1>2. Given(Old, fresh, What) /\ Suffix(<<>>, What) /\ Done(What, <<>>) = ToSet(What)
  BY <1>1, AllLines DEF IInv, Applied
<1>3. StateRight(paths, files, fquery, newfiles, buffer, <<>>, Old, fresh, What, ToSet(What))
  BY <1>1, <1>2 DEF IInv, Applied
<1> HIDE DEF db, c
<1>4. /\ db.ok
      /\ StateRight(db.paths, db.files, fquery, db.newfiles, c, <<>>, Old, fresh, What, ToSet(What))
  BY <1>1, <1>2, <1>3, RestRight DEF db, c
<1>5. Applied(paths', files', fquery', newfiles', buffer', doc', Old, fresh, What)
  BY <1>1, <1>2, <1>4 DEF Applied
<1>6. Old' = Old /\ What' = What /\ mode' = mode
  BY <1>1, <1>4 DEF Old, What
<1> QED
  BY <1>1, <1>2, <1>5, <1>6 DEF IInv

(* What Finish finds.                                                      *)
LEMMA AtTheEnd ==
  ASSUME IInv, mode \in {"patch", "load"}, doc = <<>>, \A d \in DOMAIN buffer : ~buffer[d]
  PROVE  /\ paths = PathsOf(fresh) /\ files \cup fquery = FilesOf(fresh)
         /\ Flushable(fquery)
<1>1. Given(Old, fresh, What) /\ Done(What, <<>>) = ToSet(What)
  BY AllLines DEF IInv
<1>2. StateRight(paths, files, fquery, newfiles, buffer, <<>>, Old, fresh, What, ToSet(What))
  BY <1>1 DEF IInv, Applied
<1> QED
  BY <1>1, <1>2, LastRight DEF Flushable

LEMMA FinishKeeps ==
  ASSUME IInv, Finish
  PROVE  IInv'
<1>1. /\ mode \in {"patch", "load"} /\ doc = <<>> /\ \A d \in DOMAIN buffer : ~buffer[d]
      /\ mode' = (IF Flushable(fquery) THEN "idle" ELSE "failed")
      /\ files' = files \cup fquery /\ fquery' = {} /\ newfiles' = {} /\ buffer' = <<>>
      /\ saved' = fresh /\ doc' = doc /\ paths' = paths
  BY DEF Finish
<1>2. /\ paths = PathsOf(fresh) /\ files \cup fquery = FilesOf(fresh) /\ Flushable(fquery)
  BY <1>1, AtTheEnd
<1>3. mode' = "idle" /\ Proper(fresh)
  BY <1>1, <1>2 DEF IInv
<1> QED
  BY <1>1, <1>2, <1>3 DEF IInv, Resting

LEMMA AnyScanKeeps ==
  ASSUME IInv, AnyScan
  PROVE  IInv'
<1>1. /\ mode = "idle" /\ mode' \in {"scanned", "full"} /\ Proper(fresh')
      /\ mode' = "scanned" => IsPatch(patch', saved, fresh')
      /\ saved' = saved /\ doc' = doc /\ paths' = paths /\ files' = files
      /\ newfiles' = newfiles /\ fquery' = fquery /\ buffer' = buffer
  BY DEF AnyScan, rows
<1> QED
  BY <1>1 DEF IInv, Resting

LEMMA TakePatchKeeps ==
  ASSUME IInv, TakePatch
  PROVE  IInv'
<1>1. /\ mode = "scanned" /\ mode' = "patch" /\ doc' = patch
      /\ saved' = saved /\ fresh' = fresh /\ patch' = patch /\ paths' = paths /\ files' = files
      /\ newfiles' = newfiles /\ fquery' = fquery /\ buffer' = buffer
  BY DEF TakePatch, rows
<1>2. /\ Given(saved, fresh, patch) /\ Proper(saved) /\ Proper(fresh)
      /\ paths = PathsOf(saved) /\ files = FilesOf(saved) /\ newfiles = {} /\ fquery = {} /\ buffer = <<>>
  BY <1>1 DEF IInv, Given, Resting
<1>3. StateRight(paths, FilesOf(saved), {}, {}, <<>>, patch, saved, fresh, patch, {})
  BY <1>2, FirstRight
<1>4. Applied(paths, FilesOf(saved), {}, {}, <<>>, patch, saved, fresh, patch)
  BY <1>2, <1>3, AllLines DEF Applied
<1>5. Old' = saved /\ What' = patch
  BY <1>1 DEF Old, What
<1> QED
  BY <1>1, <1>2, <1>4, <1>5 DEF IInv

LEMMA TakeListingKeeps ==
  ASSUME IInv, TakeListing
  PROVE  IInv'
<1> DEFINE w == AsAdded(fresh)
<1>1. /\ mode \in {"scanned", "full"} /\ mode' = "load" /\ doc' = w /\ paths' = <<>> /\ files' = {}
      /\ saved' = saved /\ fresh' = fresh /\ patch' = patch
      /\ newfiles' = newfiles /\ fquery' = fquery /\ buffer' = buffer
  BY DEF TakeListing
<1>2. /\ Proper(saved) /\ Proper(fresh) /\ newfiles = {} /\ fquery = {} /\ buffer = <<>>
  BY <1>1 DEF IInv, Resting
<1> HIDE DEF w
<1>3. Given(<<>>, fresh, w)
  BY <1>2, ListingPatch DEF w
<1>4. <<>> = PathsOf(<<>>) /\ FilesOf(<<>>) = {}
  BY Nothing DEF PathsOf, FilesOf
<1>5. StateRight(<<>>, {}, {}, {}, <<>>, w, <<>>, fresh, w, {})
  BY <1>3, <1>4, FirstRight
<1>6. Applied(<<>>, {}, {}, {}, <<>>, w, <<>>, fresh, w)
  BY <1>3, <1>5, AllLines DEF Applied
<1>7. Old' = <<>> /\ What' = w
  BY <1>1 DEF Old, What, w
<1> QED
  BY <1>1, <1>2, <1>3, <1>6, <1>7 DEF IInv

-----------------------------------------------------------------------------
(* The invariant is inductive.                                             *)
LEMMA InitIInv ==
  ASSUME RowsInit
  PROVE  IInv
  BY DEF RowsInit, IInv, Resting

LEMMA NextIInv ==
  ASSUME IInv, [RowsNext]_rowsVars
  PROVE  IInv'
<1>1. CASE Apply
  BY <1>1, AddPathKeeps, DeletePathKeeps, ModifyPathKeeps, AddEntryKeeps, DeleteEntryKeeps,
     ModifyEntryKeeps, CloseRootKeeps DEF Apply
<1>2. CASE \E d \in DOMAIN buffer : PushRest(d)
  BY <1>2, PushRestKeeps
<1>3. CASE UNCHANGED rowsVars
  BY <1>3 DEF rowsVars, rows, IInv, Resting, Old, What
<1> QED
  BY <1>1, <1>2, <1>3, AnyScanKeeps, TakePatchKeeps, TakeListingKeeps, FinishKeeps DEF RowsNext, Update

LEMMA Always ==
  RowsSpec => []IInv
<1>1. RowsInit => IInv
  BY InitIInv
<1>2. IInv /\ [RowsNext]_rowsVars => IInv'
  BY NextIInv
<1> QED
  BY <1>1, <1>2, PTL DEF RowsSpec

(* The rows and paths_buffer have their types at all times, also between   *)
(* the lines of a patch (bin/spider.py scan_line_patch).                   *)
THEOREM TypesKept ==
  RowsSpec => []TypeOK
<1>1. ASSUME IInv
      PROVE  TypeOK
  <2>1. CASE mode \in {"idle", "scanned", "full"}
    <3>1. /\ Proper(saved) /\ paths = PathsOf(saved) /\ files = FilesOf(saved)
          /\ newfiles = {} /\ fquery = {} /\ buffer = <<>>
      BY <1>1, <2>1 DEF IInv, Resting
    <3>2. \A id \in DOMAIN paths : id \in Nat \ {0} /\ paths[id] \in PathRowType
      BY <3>1, PathsOfIs, ProperTypes DEF PathTypes
    <3>3. \A id \in DOMAIN paths : DOMAIN paths[id] = {"path", "parent", "fid", "items", "size"}
      BY <3>2 DEF PathRowType
    <3>4. ASSUME NEW n \in Nodes(saved)
          PROVE  LET r == RowOf(n) IN {r.pid, r.fid, r.dir, r.size, r.name} \subseteq Nat
      <4>1. n \in NodesWith({""})
        BY <3>1, ProperTypes
      <4>2. n.pid \in Nat /\ n.fid \in Nat /\ n.dir \in Nat /\ n.size \in Nat /\ n.name \in Nat
        BY <4>1, NodeTypes
      <4> QED
        BY <4>2, RowOfFields
    <3>5. \A r \in files : {r.pid, r.fid, r.dir, r.size, r.name} \subseteq Nat
      BY <3>1, <3>4 DEF FilesOf
    <3> QED
      BY <2>1, <3>1, <3>2, <3>3, <3>5 DEF TypeOK
  <2>2. CASE mode \in {"patch", "load"}
    <3>1. /\ Given(Old, fresh, What)
          /\ StateRight(paths, files, fquery, newfiles, buffer, doc, Old, fresh, What, Done(What, doc))
      BY <1>1, <2>2 DEF IInv, Applied
    <3>2. /\ \A id \in DOMAIN paths : /\ id \in Nat \ {0}
                                       /\ DOMAIN paths[id] = {"path", "parent", "fid", "items", "size"}
          /\ \A r \in files \cup newfiles \cup fquery : {r.pid, r.fid, r.dir, r.size, r.name} \subseteq Nat
          /\ \A d \in DOMAIN buffer : buffer[d] \in BOOLEAN
      BY <3>1, TypesRight
    <3> QED
      BY <2>2, <3>2 DEF TypeOK
  <2> QED
    BY <1>1, <2>1, <2>2 DEF IInv
<1> QED
  BY <1>1, Always, PTL

(* After every scan the rows of paths and files are those of the listing   *)
(* in bin/save, whatever the patch was and in whatever order its lines     *)
(* came (misc/save/README, bin/spider.py scan_share).                      *)
THEOREM RowsInSync ==
  RowsSpec => []InSync
<1>1. IInv => InSync
  BY DEF IInv, Resting, InSync
<1> QED
  BY <1>1, Always, PTL

(* No line of a patch against the rows violates a constraint of the        *)
(* database, and a line that deletes or changes an entry finds exactly its *)
(* row (bin/spider.py scan_line_patch).                                    *)
THEOREM NoLineFails ==
  RowsSpec => []LinesApply
<1>1. ASSUME IInv, mode = "patch", doc # <<>>, Line.kind = "node", Line.act \in {"-", "*"}, Line.pid # 0
      PROVE  OneRow(files, Line)
  <2>1. /\ Given(Old, fresh, What) /\ Turn(What, Done(What, doc), Line)
        /\ StateRight(paths, files, fquery, newfiles, buffer, doc, Old, fresh, What, Done(What, doc))
    BY <1>1, LineTurn
  <2> DEFINE D == Done(What, doc)
  <2>2. CASE Line.act = "-"
    <3>1. /\ StateRight(paths, {r \in files : ~(r.pid = Line.pid /\ r.fid = Line.fid)}, fquery,
                        newfiles, buffer, Tail(doc), Old, fresh, What, With(D, Line))
          /\ OneRow(files, Line)
      BY <1>1, <2>1, <2>2, LineDeleteEntry
    <3> QED
      BY <3>1
  <2>3. CASE Line.act = "*"
    <3> DEFINE db == CloseDir(Line)
               c == Restrict(buffer, DOMAIN buffer \ {Line.dir})
    <3>1. /\ StateRight(db.paths, WithSize(db.files, Line), fquery, db.newfiles, c, Tail(doc),
                        Old, fresh, What, With(D, Line))
          /\ OneRow(files, Line)
      BY <1>1, <2>1, <2>3, LineModifyEntry
    <3> QED
      BY <3>1
  <2> QED
    BY <1>1, <2>2, <2>3
<1>2. IInv => LinesApply
  BY <1>1 DEF IInv, LinesApply
<1> QED
  BY <1>2, Always, PTL

-----------------------------------------------------------------------------
(* The numbers of some entries are 0, 1, 2, ... if below each number are   *)
(* all others.                                                             *)
LEMMA Downward ==
  ASSUME NEW E, IsFiniteSet(E), \A a \in E : a.fid \in Nat,
         \A a, b \in E : a.fid = b.fid => a = b,
         \A a \in E : 0..a.fid \subseteq {b.fid : b \in E}
  PROVE  {a.fid : a \in E} = 0..(Cardinality(E) - 1)
<1> DEFINE F == {a.fid : a \in E}
           h == [a \in E |-> a.fid]
           c == Cardinality(E)
<1>1. h \in Bijection(E, F)
  BY DEF Bijection, Injection, Surjection, IsInjective
<1>2. IsFiniteSet(F) /\ Cardinality(F) = c /\ c \in Nat
  BY <1>1, FS_Bijection, FS_CardinalityType DEF ExistsBijection
<1>3. IsFiniteSet(0..(c - 1)) /\ Cardinality(0..(c - 1)) = c
  BY <1>2, Below
<1>4. ASSUME NEW x \in F
      PROVE  x \in 0..(c - 1)
  <2>1. x \in Nat /\ 0..x \subseteq F
    OBVIOUS
  <2>2. IsFiniteSet(0..((x + 1) - 1)) /\ Cardinality(0..((x + 1) - 1)) = x + 1
    BY <2>1, Below
  <2>3. (x + 1) - 1 = x
    BY <2>1
  <2>4. 0..x \in SUBSET F /\ Cardinality(0..x) = x + 1
    BY <2>1, <2>2, <2>3
  <2> HIDE DEF F, h, c
  <2>5. Cardinality(0..x) <= Cardinality(F)
    BY <2>4, <1>2, FS_Subset
  <2> QED
    BY <2>4, <2>5, <2>1, <1>2
<1> HIDE DEF F, h, c
<1>5. F \in SUBSET (0..(c - 1))
  BY <1>4
<1>6. F = 0..(c - 1)
  BY <1>2, <1>3, <1>5, FS_Subset
<1> QED
  BY <1>6 DEF F, c

(* How many of the entries have a number in an interval.                   *)
LEMMA CountBetween ==
  ASSUME NEW E, IsFiniteSet(E), NEW n \in Nat, {r.fid : r \in E} = 0..(n - 1),
         \A a, b \in E : a.fid = b.fid => a = b,
         NEW i \in Nat, NEW j \in Nat, i <= j, j <= n
  PROVE  Cardinality({q \in E : i <= q.fid /\ q.fid < j}) = j - i
<1> DEFINE S == {q \in E : i <= q.fid /\ q.fid < j}
           h == [q \in S |-> q.fid - i]
           T == 0..((j - i) - 1)
<1>1. \A q \in E : q.fid \in Nat
  OBVIOUS
<1>2. h \in [S -> T] /\ \A a, b \in S : h[a] = h[b] => a = b
  BY <1>1
<1>3. \A t \in T : \E q \in S : h[q] = t
  <2>1. TAKE t \in T
  <2>2. t + i \in 0..(n - 1)
    OBVIOUS
  <2>3. PICK q \in E : q.fid = t + i
    BY <2>2
  <2> QED
    BY <2>3, <1>1
<1>4. h \in Bijection(S, T)
  BY <1>2, <1>3 DEF Bijection, Injection, Surjection, IsInjective
<1>5. IsFiniteSet(S)
  BY FS_Subset
<1>6. j - i \in Nat
  OBVIOUS
<1>7. Cardinality(T) = j - i
  BY <1>6, Below
<1> HIDE DEF h, S, T
<1>8. Cardinality(T) = Cardinality(S)
  BY <1>4, <1>5, FS_Bijection DEF ExistsBijection
<1> QED
  BY <1>7, <1>8 DEF S

-----------------------------------------------------------------------------
(* What the web interface relies on in the rows.                           *)
Numbered(ps, fs) ==
  /\ IsFiniteSet(fs)
  /\ \A r \in fs : {r.pid, r.fid, r.dir, r.size} \subseteq Nat /\ r.pid \in DOMAIN ps
  /\ \A a, b \in fs : a.pid = b.pid /\ a.fid = b.fid => a = b
  /\ \A d \in DOMAIN ps :
       /\ ps[d].items \in Nat /\ {r.fid : r \in RowsIn(fs, d)} = 0..(ps[d].items - 1)
       /\ d # 1 => \E r \in fs : r.dir = d /\ r.pid = ps[d].parent /\ r.fid = ps[d].fid
  /\ \A a, b \in DOMAIN ps : ps[a].path = ps[b].path => a = b
  /\ DOMAIN ps \subseteq Nat \ {0}

LEMMA RowsNumbered ==
  ASSUME NEW s, Proper(s)
  PROVE  Numbered(PathsOf(s), FilesOf(s))
<1> DEFINE ps == PathsOf(s)
           fs == FilesOf(s)
           N == {n \in Nodes(s) : n.pid # 0}
<1>1. /\ Nodes(s) \subseteq NodesWith({""}) /\ PathLines(s) \subseteq PathsWith({""})
      /\ Ids(s) \subseteq Nat \ {0}
  BY ProperTypes
<1>2. \A n \in Nodes(s) : {n.pid, n.fid, n.dir, n.size, n.items} \subseteq Nat
  BY <1>1 DEF NodesWith
<1>3. /\ \A r \in fs : \E n \in N : r = RowOf(n)
      /\ \A n \in N : RowOf(n) \in fs
  BY DEF FilesOf
<1>4. IsFiniteSet(fs)
  <2>1. IsFiniteSet(Nodes(s)) /\ \A d : IsFiniteSet(In(s, d))
    BY FiniteLines DEF Proper
  <2>2. IsFiniteSet(N)
    BY <2>1, FS_Subset
  <2> DEFINE h == [n \in N |-> RowOf(n)]
  <2>3. h \in Surjection(N, fs)
    BY <1>3 DEF Surjection
  <2> QED
    BY <2>2, <2>3, FS_Surjection
<1>5. ASSUME NEW r \in fs
      PROVE  {r.pid, r.fid, r.dir, r.size} \subseteq Nat /\ r.pid \in DOMAIN ps
  <2>1. PICK n \in N : r = RowOf(n)
    BY <1>3
  <2>2. r.pid = n.pid /\ r.fid = n.fid /\ r.dir = n.dir /\ r.size = n.size
    BY <2>1, RowOfFields
  <2> QED
    BY <2>2, <1>2, Keys, PathsOfIs
<1>6. ASSUME NEW a \in fs, NEW b \in fs, a.pid = b.pid, a.fid = b.fid
      PROVE  a = b
  <2>1. PICK n \in N : a = RowOf(n)
    BY <1>3
  <2>2. PICK m \in N : b = RowOf(m)
    BY <1>3
  <2>3. n.pid = m.pid /\ n.fid = m.fid
    BY <1>6, <2>1, <2>2, RowOfFields
  <2>4. n = m
    BY <2>3, Keys
  <2> QED
    BY <2>1, <2>2, <2>4
<1>7. ASSUME NEW d \in DOMAIN ps
      PROVE  ps[d].items \in Nat /\ {r.fid : r \in RowsIn(fs, d)} = 0..(ps[d].items - 1)
  <2>1. d \in Ids(s) /\ d # 0
    BY <1>1, PathsOfIs
  <2>2. PICK n \in Nodes(s) : n.dir = d
    BY <2>1, Keys
  <2>3. ps[d].items = n.items
    BY <2>1, <2>2, PathsOfIs DEF NewRow
  <2>4. n.items = Cardinality(In(s, d))
    BY <2>1, <2>2 DEF Proper
  <2>5. IsFiniteSet(In(s, d))
    BY FiniteLines DEF Proper
  <2>6. /\ \A a \in In(s, d) : a.fid \in Nat /\ a.pid = d /\ a \in Nodes(s)
        /\ \A a, b \in In(s, d) : a.fid = b.fid => a = b
    BY <1>2, <2>1, Keys DEF In
  <2>7. \A a \in In(s, d) : 0..a.fid \subseteq {b.fid : b \in In(s, d)}
    BY <2>1, <2>6 DEF Proper
  <2>8. {a.fid : a \in In(s, d)} = 0..(Cardinality(In(s, d)) - 1)
    BY <2>5, <2>6, <2>7, Downward
  <2>9. {r.fid : r \in RowsIn(fs, d)} = {a.fid : a \in In(s, d)}
    <3>1. ASSUME NEW r \in RowsIn(fs, d) PROVE \E a \in In(s, d) : r.fid = a.fid
      <4>1. PICK m \in N : r = RowOf(m)
        BY <1>3 DEF RowsIn
      <4> QED
        BY <4>1, RowOfFields DEF RowsIn, In
    <3>2. ASSUME NEW a \in In(s, d) PROVE \E r \in RowsIn(fs, d) : r.fid = a.fid
      <4>1. a \in N
        BY <2>1, <2>6
      <4>2. RowOf(a) \in RowsIn(fs, d)
        BY <4>1, <2>6, <1>3, RowOfFields DEF RowsIn
      <4> QED
        BY <4>2, RowOfFields
    <3> QED
      BY <3>1, <3>2
  <2> QED
    BY <2>2, <2>3, <2>4, <2>8, <2>9, <1>2
<1>8. ASSUME NEW d \in DOMAIN ps, d # 1
      PROVE  \E r \in fs : r.dir = d /\ r.pid = ps[d].parent /\ r.fid = ps[d].fid
  <2>1. d \in Ids(s) /\ d # 0
    BY <1>1, PathsOfIs
  <2>2. PICK n \in Nodes(s) : n.dir = d
    BY <2>1, Keys
  <2>3. n.pid # 0
    BY <2>2, <1>8 DEF Proper, In
  <2> QED
    BY <2>1, <2>2, <2>3, <1>3, RowOfFields, PathsOfIs DEF NewRow
<1>9. ASSUME NEW a \in DOMAIN ps, NEW b \in DOMAIN ps, ps[a].path = ps[b].path
      PROVE  a = b
  <2>1. PICK k \in PathLines(s) : k.id = a
    BY Keys, PathsOfIs
  <2>2. PICK l \in PathLines(s) : l.id = b
    BY Keys, PathsOfIs
  <2>3. k.path = l.path
    BY <2>1, <2>2, <1>9, PathsOfIs
  <2> QED
    BY <2>1, <2>2, <2>3, Keys
<1>10. DOMAIN ps \subseteq Nat \ {0}
  BY <1>1, PathsOfIs
<1> HIDE DEF ps, fs
<1>11. Numbered(ps, fs)
  BY <1>4, <1>5, <1>6, <1>7, <1>8, <1>9, <1>10 DEF Numbered
<1> QED
  BY <1>11 DEF ps, fs

-----------------------------------------------------------------------------
(* Numbers of pages.                                                       *)
LEMMA MaxMin ==
  ASSUME NEW a \in Int, NEW b \in Int
  PROVE  /\ Max({a, b}) = IF a >= b THEN a ELSE b
         /\ Min({a, b}) = IF a <= b THEN a ELSE b
<1> DEFINE x == IF a >= b THEN a ELSE b
           y == IF a <= b THEN a ELSE b
<1>1. x \in {a, b} /\ \A z \in {a, b} : x >= z
  OBVIOUS
<1>2. \A v \in {a, b} : (\A z \in {a, b} : v >= z) => v = x
  OBVIOUS
<1>3. y \in {a, b} /\ \A z \in {a, b} : y <= z
  OBVIOUS
<1>4. \A v \in {a, b} : (\A z \in {a, b} : v <= z) => v = y
  OBVIOUS
<1> HIDE DEF x, y
<1>5. Max({a, b}) = x
  BY <1>1, <1>2 DEF Max
<1>6. Min({a, b}) = y
  BY <1>3, <1>4 DEF Min
<1> QED
  BY <1>5, <1>6 DEF x, y

LEMMA Divides ==
  ASSUME NEW a \in Nat
  PROVE  /\ a \div PerPage \in Nat
         /\ (a \div PerPage) * PerPage <= a /\ a < (a \div PerPage) * PerPage + PerPage
  BY PagesAssumption

LEMMA Times ==
  ASSUME NEW a \in Nat, NEW b \in Nat
  PROVE  /\ a * PerPage \in Nat
         /\ a < b => a * PerPage + PerPage <= b * PerPage
  BY PagesAssumption

LEMMA LastPageIs ==
  ASSUME NEW items \in Nat
  PROVE  /\ LastPage(items) \in Nat
         /\ items > 0 => /\ LastPage(items) * PerPage <= items - 1
                         /\ items - 1 < LastPage(items) * PerPage + PerPage
         /\ items = 0 => LastPage(items) = 0
<1>1. CASE items = 0
  BY <1>1 DEF LastPage
<1>2. CASE items > 0
  <2>1. items - 1 \in Nat
    BY <1>2
  <2> QED
    BY <1>2, <2>1, Divides DEF LastPage
<1> QED
  BY <1>1, <1>2

LEMMA OffsetIs ==
  ASSUME NEW items \in Nat, NEW page \in Nat
  PROVE  OffsetPrepare(items, page) =
           (IF page <= LastPage(items) THEN page ELSE LastPage(items)) * PerPage
<1> DEFINE q == (items - 1) \div PerPage
           m == IF q <= page THEN q ELSE page
<1>1. q \in Int
  BY PagesAssumption
<1>2. items = 0 => q < 0
  BY PagesAssumption
<1>3. items > 0 => q = LastPage(items)
  BY DEF LastPage
<1>4. LastPage(items) \in Nat /\ (items = 0 => LastPage(items) = 0)
  BY LastPageIs
<1>5. OffsetPrepare(items, page) = Max({0, Min({q, page})}) * PerPage
  BY DEF OffsetPrepare
<1> HIDE DEF q
<1>6. Min({q, page}) = m /\ m \in Int
  BY <1>1, MaxMin
<1>7. Max({0, m}) = IF 0 >= m THEN 0 ELSE m
  BY <1>6, MaxMin
<1>8. (IF 0 >= m THEN 0 ELSE m) = IF page <= LastPage(items) THEN page ELSE LastPage(items)
  BY <1>1, <1>2, <1>3, <1>4
<1> QED
  BY <1>5, <1>6, <1>7, <1>8

(* Each page has links to the pages next to it, and to pages only.         *)
LEMMA BarLinks ==
  ASSUME NEW items \in Nat, NEW page \in 0..LastPage(items)
  PROVE  /\ GoBar(items, page) \subseteq 0..LastPage(items)
         /\ page \in GoBar(items, page)
         /\ page + 1 <= LastPage(items) => page + 1 \in GoBar(items, page)
         /\ page - 1 >= 0 => page - 1 \in GoBar(items, page)
<1> DEFINE last == LastPage(items)
           left == IF 0 >= page - 4 THEN 0 ELSE page - 4
           right == IF last <= page + 4 THEN last ELSE page + 4
           lo == IF 0 >= left - (page + 4 - right) THEN 0 ELSE left - (page + 4 - right)
           hi == IF last <= right + (left - (page - 4)) THEN last ELSE right + (left - (page - 4))
<1>1. last \in Nat /\ page \in Nat
  BY LastPageIs
<1>2. (IF items > 0 THEN items - 1 ELSE items) \div PerPage = last
  <2>1. 0 \div PerPage = 0
    BY PagesAssumption
  <2> QED
    BY <2>1 DEF LastPage
<1> HIDE DEF last
<1>3. Max({0, page - 4}) = left /\ Min({last, page + 4}) = right
  BY <1>1, MaxMin
<1>4. left \in Int /\ right \in Int
  BY <1>1
<1>5. /\ Max({0, left - (page + 4 - right)}) = lo
      /\ Min({last, right + (left - (page - 4))}) = hi
  <2> HIDE DEF left, right
  <2>1. left - (page + 4 - right) \in Int /\ right + (left - (page - 4)) \in Int
    BY <1>1, <1>4
  <2>2. \A a, b \in Int : /\ Max({a, b}) = IF a >= b THEN a ELSE b
                           /\ Min({a, b}) = IF a <= b THEN a ELSE b
    BY MaxMin
  <2> DEFINE x == left - (page + 4 - right)
             y == right + (left - (page - 4))
  <2> HIDE DEF x, y
  <2>3. Max({0, x}) = IF 0 >= x THEN 0 ELSE x
    BY <2>1, <2>2 DEF x
  <2>4. Min({last, y}) = IF last <= y THEN last ELSE y
    <3>1. y \in Int
      BY <2>1 DEF y
    <3> QED
      BY <3>1, <1>1, MaxMin
  <2> QED
    BY <2>3, <2>4 DEF x, y
<1>6. GoBar(items, page) = lo..hi
  <2> HIDE DEF left, right, lo, hi
  <2> QED
    BY <1>2, <1>3, <1>5 DEF GoBar
<1>7. /\ lo \in Int /\ hi \in Int /\ 0 <= lo /\ hi <= last /\ page <= last
      /\ lo <= page /\ page <= hi
      /\ page + 1 <= last => page + 1 <= hi
      /\ page - 1 >= 0 => lo <= page - 1
  BY <1>1 DEF last
<1> HIDE DEF lo, hi
<1> QED
  BY <1>1, <1>6, <1>7 DEF last

(* The entries on the page from an offset on are those with the PerPage    *)
(* numbers from there.                                                     *)
LEMMA OnPage ==
  ASSUME NEW ps, NEW fs, Numbered(ps, fs), NEW d \in DOMAIN ps, NEW r \in RowsIn(fs, d),
         NEW offset \in Nat, NEW db, db.files = fs
  PROVE  r \in ListFiles(db, d, offset) <=> offset <= r.fid /\ r.fid < offset + PerPage
<1> DEFINE E == RowsIn(fs, d)
           rs == {q \in fs : q.pid = d /\ q.fid >= offset}
           n == ps[d].items
<1>1. IsFiniteSet(E) /\ n \in Nat /\ {q.fid : q \in E} = 0..(n - 1)
  <2>1. E \in SUBSET fs
    BY DEF RowsIn
  <2> QED
    BY <2>1, FS_Subset DEF Numbered
<1>2. \A a, b \in E : a.fid = b.fid => a = b
  BY DEF Numbered, RowsIn
<1>3. r.fid \in Nat /\ r.fid <= n /\ r \in fs /\ r.pid = d
  <2>1. r.fid \in 0..(n - 1)
    BY <1>1
  <2> QED
    BY <2>1, <1>1 DEF RowsIn
<1>4. ASSUME offset <= r.fid
      PROVE  Cardinality({q \in rs : q.fid < r.fid}) = r.fid - offset
  <2>1. Cardinality({q \in E : offset <= q.fid /\ q.fid < r.fid}) = r.fid - offset
    <3> HIDE DEF E, n
    <3> QED
      BY <1>1, <1>2, <1>3, <1>4, CountBetween
  <2>2. \A q \in fs : q.fid \in Nat
    BY DEF Numbered
  <2>3. {q \in E : offset <= q.fid /\ q.fid < r.fid} = {q \in rs : q.fid < r.fid}
    BY <2>2 DEF RowsIn
  <2> QED
    BY <2>1, <2>3
<1>5. r \in ListFiles(db, d, offset) <=>
        r \in rs /\ Cardinality({q \in rs : q.fid < r.fid}) < PerPage
  BY DEF ListFiles, FirstOf
<1>6. r \in rs <=> offset <= r.fid
  BY <1>3
<1> HIDE DEF rs
<1> QED
  BY <1>3, <1>4, <1>5, <1>6, PagesAssumption

LEMMA PageIs ==
  ASSUME NEW fid \in Nat, NEW o \in Nat
  PROVE  PageOf(fid) = o <=> o * PerPage <= fid /\ fid < o * PerPage + PerPage
<1>1. /\ PageOf(fid) \in Nat
      /\ PageOf(fid) * PerPage <= fid /\ fid < PageOf(fid) * PerPage + PerPage
  BY Divides DEF PageOf
<1>2. ASSUME o < PageOf(fid), fid < o * PerPage + PerPage
      PROVE  FALSE
  BY <1>1, <1>2, Times, PagesAssumption
<1>3. ASSUME PageOf(fid) < o, o * PerPage <= fid
      PROVE  FALSE
  BY <1>1, <1>3, Times, PagesAssumption
<1> QED
  BY <1>1, <1>2, <1>3

LEMMA PageStarts ==
  ASSUME NEW o \in Nat
  PROVE  PageOf(o * PerPage) = o
<1>1. o * PerPage \in Nat /\ o * PerPage < o * PerPage + PerPage
  BY PagesAssumption
<1> QED
  BY <1>1, PageIs

(* Entries of a directory are on its pages.                                *)
LEMMA OnSomePage ==
  ASSUME NEW items \in Nat, NEW fid \in 0..(items - 1)
  PROVE  PageOf(fid) \in 0..LastPage(items)
<1>1. /\ LastPage(items) \in Nat /\ items > 0
      /\ items - 1 < LastPage(items) * PerPage + PerPage
  BY LastPageIs
<1>2. fid \in Nat /\ fid < LastPage(items) * PerPage + PerPage
  BY <1>1, PagesAssumption
<1>3. PageOf(fid) \in Nat /\ PageOf(fid) * PerPage <= fid
  BY <1>2, Divides DEF PageOf
<1>4. ASSUME LastPage(items) < PageOf(fid)
      PROVE  FALSE
  BY <1>1, <1>2, <1>3, <1>4, Times, PagesAssumption
<1> QED
  BY <1>1, <1>3, <1>4

(* What a link with the path of a directory opens, whatever its id.        *)
PageAt(items, o) == IF o <= LastPage(items) THEN o ELSE LastPage(items)
LEMMA PageOpens ==
  ASSUME NEW ps, NEW fs, Numbered(ps, fs), NEW d \in DOMAIN ps, NEW later, NEW p, NEW o \in Nat
  PROVE  LET db == [paths |-> ps, files |-> fs]
             view == share(db, later, [path |-> ps[d].path, p |-> p, o |-> o])
             page == PageAt(ps[d].items, o)
         IN /\ view.dir = d
            /\ view.entries = ListFiles(later, d, page * PerPage)
            /\ view.bar = GoBar(ps[d].items, page)
            /\ view.up = FastUp(db, d)
            /\ page \in 0..LastPage(ps[d].items)
<1> DEFINE db == [paths |-> ps, files |-> fs]
           link == [path |-> ps[d].path, p |-> p, o |-> o]
           items == ps[d].items
           page == PageAt(items, o)
           offset == OffsetPrepare(items, o)
<1>1. d # 0 /\ items \in Nat
  BY DEF Numbered
<1>2. {id \in DOMAIN ps : ps[id].path = ps[d].path} = {d}
  BY DEF Numbered
<1>3. DetectPath(db, link.path, link.p) = d
  BY <1>2 DEF DetectPath
<1>4. LastPage(items) \in Nat
  BY <1>1, LastPageIs
<1>5. page \in 0..LastPage(items) /\ page \in Nat
  BY <1>4 DEF PageAt
<1>6. offset = page * PerPage
  BY <1>1, OffsetIs DEF PageAt
<1>7. PageOf(page * PerPage) = page
  BY <1>5, PageStarts
<1> HIDE DEF link, page, offset
<1>8. share(db, later, link) =
        [dir |-> d, entries |-> ListFiles(later, d, offset),
         bar |-> GoBar(items, PageOf(offset)), up |-> FastUp(db, d)]
  <2>1. link.o = o
    BY DEF link
  <2> QED
    BY <1>1, <1>3, <2>1 DEF share, offset
<1>9. /\ share(db, later, link).dir = d
      /\ share(db, later, link).entries = ListFiles(later, d, page * PerPage)
      /\ share(db, later, link).bar = GoBar(items, page)
      /\ share(db, later, link).up = FastUp(db, d)
  BY <1>6, <1>7, <1>8
<1> QED
  BY <1>5, <1>9 DEF link, page

LEMMA OpensNothing ==
  ASSUME NEW db, NEW later, NEW link, {id \in DOMAIN db.paths : db.paths[id].path = link.path} = {}
  PROVE  share(db, later, link) = Error
  BY DEF share, DetectPath

(* An entry is on the page with its number, and on no other.               *)
LEMMA OnItsPage ==
  ASSUME NEW ps, NEW fs, Numbered(ps, fs), NEW d \in DOMAIN ps, NEW r \in RowsIn(fs, d),
         NEW o \in Nat, NEW p
  PROVE  /\ r.fid \in 0..(ps[d].items - 1)
         /\ PageOf(r.fid) \in 0..LastPage(ps[d].items)
         /\ LET db == [paths |-> ps, files |-> fs]
            IN r \in share(db, db, [path |-> ps[d].path, p |-> p, o |-> o]).entries
                 <=> PageOf(r.fid) = PageAt(ps[d].items, o)
<1> DEFINE db == [paths |-> ps, files |-> fs]
           page == PageAt(ps[d].items, o)
           view == share(db, db, [path |-> ps[d].path, p |-> p, o |-> o])
<1>1. r.fid \in 0..(ps[d].items - 1) /\ ps[d].items \in Nat /\ r.fid \in Nat
  BY DEF Numbered
<1>2. PageOf(r.fid) \in 0..LastPage(ps[d].items)
  BY <1>1, OnSomePage
<1>3. view.entries = ListFiles(db, d, page * PerPage) /\ page \in 0..LastPage(ps[d].items)
  BY PageOpens
<1>4. page \in Nat /\ page * PerPage \in Nat
  <2>1. page \in Nat
    BY <1>3, <1>1, LastPageIs
  <2> QED
    BY <2>1, Times
<1> HIDE DEF page
<1>5. r \in ListFiles(db, d, page * PerPage) <=>
        page * PerPage <= r.fid /\ r.fid < page * PerPage + PerPage
  <2>1. db.files = fs
    OBVIOUS
  <2> HIDE DEF db
  <2> QED
    BY <1>4, <2>1, OnPage
<1>6. PageOf(r.fid) = page <=> page * PerPage <= r.fid /\ r.fid < page * PerPage + PerPage
  BY <1>1, <1>4, PageIs
<1> QED
  BY <1>1, <1>2, <1>3, <1>5, <1>6 DEF page

LEMMA AllOfThem ==
  ASSUME NEW ps, NEW fs, Numbered(ps, fs), NEW d \in DOMAIN ps
  PROVE  /\ ps[d].items = Cardinality(RowsIn(fs, d)) /\ ps[d].items \in Nat
         /\ {r.fid : r \in RowsIn(fs, d)} = 0..(ps[d].items - 1)
<1> DEFINE E == RowsIn(fs, d)
           n == ps[d].items
<1>1. n \in Nat /\ {r.fid : r \in E} = 0..(n - 1)
  BY DEF Numbered
<1>2. IsFiniteSet(E)
  <2>1. E \in SUBSET fs
    BY DEF RowsIn
  <2> QED
    BY <2>1, FS_Subset DEF Numbered
<1>3. \A a, b \in E : a.fid = b.fid => a = b
  BY DEF Numbered, RowsIn
<1>4. {q \in E : 0 <= q.fid /\ q.fid < n} = E
  <2>1. \A q \in E : q.fid \in 0..(n - 1)
    BY <1>1
  <2> HIDE DEF E
  <2> QED
    BY <2>1, <1>1
<1> HIDE DEF E, n
<1>5. Cardinality({q \in E : 0 <= q.fid /\ q.fid < n}) = n - 0
  BY <1>1, <1>2, <1>3, CountBetween
<1> QED
  BY <1>1, <1>4, <1>5 DEF E, n

LEMMA DirRight ==
  ASSUME Numbered(paths, files), NEW d \in DOMAIN paths
  PROVE  DirAddsUp(d)
<1> DEFINE E == {r \in files : r.pid = d}
           items == paths[d].items
           pages == 0..LastPage(items)
           link(o) == [path |-> paths[d].path, p |-> 0, o |-> o]
           view(o) == Page(link(o))
<1>1. E = RowsIn(files, d)
  BY DEF RowsIn
<1>2. /\ items = Cardinality(E) /\ items \in Nat
      /\ {r.fid : r \in E} = 0..(items - 1)
  <2>1. /\ items = Cardinality(RowsIn(files, d)) /\ items \in Nat
        /\ {r.fid : r \in RowsIn(files, d)} = 0..(items - 1)
    BY AllOfThem
  <2> HIDE DEF E, items
  <2> QED
    BY <1>1, <2>1
<1>3. d # 1 => \E r \in files : r.dir = d /\ r.pid = paths[d].parent /\ r.fid = paths[d].fid
  BY DEF Numbered
<1>4. LastPage(items) \in Nat
  BY <1>2, LastPageIs
<1>5. ASSUME NEW o \in pages
      PROVE  o \in Nat /\ PageAt(items, o) = o
  BY <1>4 DEF PageAt
<1>6. ASSUME NEW r \in E
      PROVE  /\ {o \in pages : r \in view(o).entries} = {PageOf(r.fid)}
             /\ r \in Page(pathlink(Committed, r)).entries
  <2>1. r.fid \in Nat
    BY DEF Numbered
  <2>2. PageOf(r.fid) \in pages /\ PageOf(r.fid) \in Nat
    <3>1. PageOf(r.fid) \in pages
      BY <1>1, OnItsPage
    <3> QED
      BY <3>1, <1>5
  <2>3. ASSUME NEW o \in pages
        PROVE  r \in view(o).entries <=> PageOf(r.fid) = o
    <3>1. o \in Nat /\ PageAt(items, o) = o
      BY <1>5
    <3>2. r \in share([paths |-> paths, files |-> files], [paths |-> paths, files |-> files],
                      [path |-> paths[d].path, p |-> 0, o |-> o]).entries
            <=> PageOf(r.fid) = PageAt(items, o)
      BY <1>1, <3>1, OnItsPage
    <3> QED
      BY <3>1, <3>2 DEF Page, Committed
  <2>4. r \in Page(pathlink(Committed, r)).entries
    <3>1. r.pid = d
      OBVIOUS
    <3>2. pathlink(Committed, r) = [path |-> paths[d].path, p |-> d, o |-> PageOf(r.fid)]
      BY <3>1 DEF pathlink, Committed
    <3>3. r \in share([paths |-> paths, files |-> files], [paths |-> paths, files |-> files],
                      [path |-> paths[d].path, p |-> d, o |-> PageOf(r.fid)]).entries
            <=> PageOf(r.fid) = PageAt(items, PageOf(r.fid))
      BY <1>1, <2>2, OnItsPage
    <3>4. PageAt(items, PageOf(r.fid)) = PageOf(r.fid)
      BY <2>2, <1>5
    <3> QED
      BY <3>2, <3>3, <3>4 DEF Page, Committed
  <2> HIDE DEF view, pages
  <2> QED
    BY <2>2, <2>3, <2>4
<1>7. ASSUME NEW o \in pages
      PROVE  /\ view(o).bar \subseteq pages /\ {o, o + 1} \cap pages \subseteq view(o).bar
             /\ o + 1 \in pages => o \in view(o + 1).bar
  <2>1. ASSUME NEW q \in pages
        PROVE  view(q).bar = GoBar(items, q)
    <3>1. q \in Nat /\ PageAt(items, q) = q
      BY <1>5
    <3>2. share([paths |-> paths, files |-> files], [paths |-> paths, files |-> files],
                [path |-> paths[d].path, p |-> 0, o |-> q]).bar = GoBar(items, PageAt(items, q))
      BY <3>1, PageOpens
    <3> QED
      BY <3>1, <3>2 DEF Page, Committed
  <2>2. /\ GoBar(items, o) \subseteq pages /\ o \in GoBar(items, o)
        /\ o + 1 <= LastPage(items) => o + 1 \in GoBar(items, o)
    BY <1>2, BarLinks
  <2>3. o \in Nat
    BY <1>5
  <2>4. ASSUME o + 1 \in pages
        PROVE  o \in GoBar(items, o + 1)
    <3>1. (o + 1) - 1 >= 0 => (o + 1) - 1 \in GoBar(items, o + 1)
      BY <1>2, <2>4, BarLinks
    <3> QED
      BY <3>1, <2>3
  <2> HIDE DEF view
  <2> QED
    BY <2>1, <2>2, <2>3, <2>4, <1>4
<1> HIDE DEF view, pages
<1>8. /\ \A r \in E : /\ {o \in pages : r \in view(o).entries} = {PageOf(r.fid)}
                      /\ r \in Page(pathlink(Committed, r)).entries
      /\ \A o \in pages : view(o).bar \subseteq pages /\ {o, o + 1} \cap pages \subseteq view(o).bar
      /\ \A o \in pages : o + 1 \in pages => o \in view(o + 1).bar
  BY <1>6, <1>7
<1> QED
  BY <1>2, <1>3, <1>8 DEF DirAddsUp, view, pages

LEMMA SearchRight ==
  ASSUME Numbered(paths, files), NEW name
  PROVE  SearchAddsUp(name)
<1> DEFINE found == sqlwhere(Committed, name)
           c == Cardinality(found)
           pages == 0..LastPage(c)
           before(r) == {q \in found : sqlorder(q, r)}
<1>1. found \in SUBSET files
  BY DEF sqlwhere, Committed
<1>2. IsFiniteSet(found) /\ c \in Nat
  <2>1. IsFiniteSet(found)
    BY <1>1, FS_Subset DEF Numbered
  <2> QED
    BY <2>1, FS_CardinalityType
<1>3. sqlquery(Committed, name) = found
  BY <1>1 DEF sqlquery, Numbered, Committed
<1>4. \A r \in files : r.pid \in Nat /\ r.fid \in Nat /\ r.size \in Nat
  BY DEF Numbered
<1>5. ASSUME NEW a \in found, NEW b \in found, a # b
      PROVE  sqlorder(a, b) <=> ~sqlorder(b, a)
  <2>1. a.pid # b.pid \/ a.fid # b.fid
    BY <1>1, <1>5 DEF Numbered
  <2> QED
    BY <2>1, <1>1, <1>4 DEF sqlorder
<1>6. ASSUME NEW page \in Nat
      PROVE  do_search(Committed, name, page) =
               {r \in found : Cardinality(before(r)) \in
                  OffsetPrepare(c, page)..(OffsetPrepare(c, page) + PerPage - 1)}
  <2> HIDE DEF found
  <2>1. sqlwhere(Committed, name) = found
    BY DEF found
  <2> QED
    BY <1>3, <2>1 DEF do_search
<1>7. ASSUME NEW r \in found
      PROVE  \E page \in pages : r \in do_search(Committed, name, page)
  <2> DEFINE rank == Cardinality(before(r))
             page == PageOf(rank)
  <2>1. r \in files
    BY <1>1
  <2>2. ~sqlorder(r, r)
    BY <2>1, <1>4 DEF sqlorder
  <2>3. rank \in 0..(c - 1)
    <3>1. before(r) \in SUBSET found /\ before(r) # found
      BY <2>2
    <3> HIDE DEF before, found
    <3>2. IsFiniteSet(before(r)) /\ rank <= c
      BY <3>1, <1>2, FS_Subset
    <3>3. rank \in Nat
      BY <3>2, FS_CardinalityType
    <3>4. rank # c
      BY <3>1, <1>2, FS_Subset
    <3> QED
      BY <1>2, <3>2, <3>3, <3>4
  <2> HIDE DEF rank
  <2>4. page \in pages
    BY <1>2, <2>3, OnSomePage
  <2>5. rank \in Nat /\ LastPage(c) \in Nat
    BY <1>2, <2>3, LastPageIs
  <2>6. page \in Nat /\ page <= LastPage(c)
    BY <2>4, <2>5
  <2>7. page * PerPage <= rank /\ rank < page * PerPage + PerPage
    BY <2>5, <2>6, PageIs
  <2>8. OffsetPrepare(c, page) = page * PerPage
    BY <1>2, <2>6, OffsetIs
  <2>9. page * PerPage \in Nat
    BY <2>6, Times
  <2>10. rank \in OffsetPrepare(c, page)..(OffsetPrepare(c, page) + PerPage - 1)
    BY <2>5, <2>7, <2>8, <2>9, PagesAssumption
  <2>11. r \in do_search(Committed, name, page)
    BY <1>6, <2>6, <2>10 DEF rank
  <2> QED
    BY <2>4, <2>11
<1>8. \A page \in pages : do_search(Committed, name, page) \subseteq found
  <2>1. pages \subseteq Nat
    BY <1>2, LastPageIs
  <2> HIDE DEF pages
  <2> QED
    BY <2>1, <1>6
<1>9. UNION {do_search(Committed, name, page) : page \in pages} = found
  <2> HIDE DEF pages, found
  <2> QED
    BY <1>7, <1>8
<1> HIDE DEF found
<1> QED
  BY <1>5, <1>9 DEF SearchAddsUp, found

-----------------------------------------------------------------------------
(* At rest, the pages of a directory show every entry of it once, the      *)
(* links of search results and those between neighbouring pages lead where *)
(* they should, and the pages of a search show every result once           *)
(* (webuguu/vfs/views.py share, webuguu/search/views.py do_search).        *)
THEOREM PagesRight ==
  RowsSpec => []PagesAddUp
<1>1. ASSUME IInv, mode = "idle"
      PROVE  Numbered(paths, files)
  BY <1>1, RowsNumbered DEF IInv, Resting
<1>2. IInv => PagesAddUp
  BY <1>1, DirRight, SearchRight DEF PagesAddUp
<1> QED
  BY <1>2, Always, PTL

LEMMA AfterPatch ==
  ASSUME IInv, RowsNext, mode # "idle", mode' = "idle"
  PROVE  saved' = fresh /\ (mode = "patch" => Continues(saved, fresh))
<1>1. Finish
  BY DEF RowsNext, AnyScan, Update, TakePatch, TakeListing, Apply, AddPath, DeletePath, ModifyPath,
     AddEntry, DeleteEntry, ModifyEntry, CloseRoot, PushRest, Applying, Go
<1>2. mode = "patch" => Continues(saved, fresh)
  BY DEF IInv, Given, Old, What, IsPatch
<1> QED
  BY <1>1, <1>2 DEF Finish

(* A link made before a scan was committed leads to the directory of the   *)
(* same path after it, and a page that is read half before and half after  *)
(* a patch shows entries of one directory (webuguu/vfs/views.py share).    *)
THEOREM LinksSurvive ==
  RowsSpec => OldLinksLead
<1>1. ASSUME IInv, [RowsNext]_rowsVars, mode # "idle", mode' = "idle", NEW d \in DOMAIN Before.paths
      PROVE  LinkSurvives(d)
  <2> DEFINE here == {id \in DOMAIN paths' : paths'[id].path = Before.paths[d].path}
             link(o) == [path |-> Before.paths[d].path, p |-> d, o |-> o]
             torn == share(Before, Committed', link(0))
             view(o) == share(Committed', Committed', link(o))
  <2>1. IInv'
    BY <1>1, NextIInv
  <2>2. Proper(saved) /\ Proper(saved') /\ paths' = PathsOf(saved') /\ files' = FilesOf(saved')
    BY <1>1, <2>1 DEF IInv, Resting
  <2>3. Numbered(paths', files')
    BY <2>2, RowsNumbered
  <2>4. Numbered(Before.paths, Before.files) /\ Before.paths = PathsOf(saved)
    BY <2>2, RowsNumbered DEF Before
  <2>5. Committed' = [paths |-> paths', files |-> files'] /\ Committed'.paths = paths'
    BY DEF Committed
  <2>6. RowsNext
    BY <1>1 DEF rowsVars
  <2>7. ASSUME NEW o \in 0..Before.paths[d].items, here = {}
        PROVE  view(o) = Error
    <3>1. link(o).path = Before.paths[d].path
      OBVIOUS
    <3> HIDE DEF link
    <3> QED
      BY <2>5, <2>7, <3>1, OpensNothing
  <2>8. ASSUME NEW o \in 0..Before.paths[d].items, NEW id \in here
        PROVE  view(o).dir = id /\ (view(o).entries = {} => paths'[id].items = 0)
    <3> DEFINE items == paths'[id].items
               page == PageAt(items, o)
    <3>1. o \in Nat /\ id \in DOMAIN paths' /\ paths'[id].path = Before.paths[d].path
      OBVIOUS
    <3>2. view(o) = share([paths |-> paths', files |-> files'], Committed',
                             [path |-> paths'[id].path, p |-> d, o |-> o])
      BY <2>5, <3>1
    <3>3. /\ view(o).dir = id
          /\ page \in 0..LastPage(items)
      BY <2>3, <3>1, <3>2, PageOpens
    <3>4. items \in Nat /\ {r.fid : r \in RowsIn(files', id)} = 0..(items - 1)
      BY <2>3, <3>1, AllOfThem
    <3>5. ASSUME items > 0
          PROVE  view(o).entries # {}
      <4>1. /\ LastPage(items) \in Nat /\ LastPage(items) * PerPage <= items - 1
        BY <3>4, <3>5, LastPageIs
      <4>2. page \in Nat /\ page <= LastPage(items)
        BY <3>3, <4>1
      <4> HIDE DEF page
      <4>3. page * PerPage \in Nat /\ page * PerPage <= LastPage(items) * PerPage
        BY <4>1, <4>2, Times, PagesAssumption
      <4>4. page * PerPage \in 0..(items - 1)
        BY <4>1, <4>3, <3>4, Times
      <4>5. PICK r \in RowsIn(files', id) : r.fid = page * PerPage
        BY <4>4, <3>4
      <4>6. PageOf(r.fid) = page
        BY <4>2, <4>5, PageStarts
      <4>7. r \in share([paths |-> paths', files |-> files'], [paths |-> paths', files |-> files'],
                        [path |-> paths'[id].path, p |-> d, o |-> o]).entries
              <=> PageOf(r.fid) = PageAt(items, o)
        BY <2>3, <3>1, OnItsPage
      <4> QED
        BY <3>2, <2>5, <4>6, <4>7 DEF page
    <3> QED
      BY <3>3, <3>4, <3>5
  <2>9. ASSUME mode = "patch", NEW r \in torn.entries
        PROVE  paths'[r.pid].path = Before.paths[d].path
    <3>1. torn.entries = ListFiles(Committed', d, PageAt(Before.paths[d].items, 0) * PerPage)
      <4>1. Before = [paths |-> Before.paths, files |-> Before.files]
        BY DEF Before
      <4>2. share([paths |-> Before.paths, files |-> Before.files], Committed',
                  [path |-> Before.paths[d].path, p |-> d, o |-> 0]).entries =
              ListFiles(Committed', d, PageAt(Before.paths[d].items, 0) * PerPage)
        BY <2>4, PageOpens
      <4> QED
        BY <4>1, <4>2
    <3>2. r.pid = d /\ r \in files'
      BY <2>9, <3>1, <2>5 DEF ListFiles, FirstOf
    <3>3. d \in DOMAIN paths'
      BY <2>3, <3>2 DEF Numbered
    <3>4. saved' = fresh /\ Continues(saved, fresh)
      BY <1>1, <2>6, <2>9, AfterPatch
    <3>5. PICK k \in PathLines(saved) : k.id = d
      BY <2>2, <2>4, Keys, PathsOfIs
    <3>6. PICK l \in PathLines(saved') : l.id = d
      BY <2>2, <3>3, Keys, PathsOfIs
    <3>7. k.path = l.path
      BY <3>4, <3>5, <3>6 DEF Continues
    <3> QED
      BY <2>2, <2>4, <3>2, <3>5, <3>6, <3>7, PathsOfIs
  <2> HIDE DEF here, view, torn
  <2>10. /\ \A o \in 0..Before.paths[d].items :
              /\ here = {} => view(o) = Error
              /\ \A id \in here : view(o).dir = id /\ (view(o).entries = {} => paths'[id].items = 0)
         /\ mode = "patch" => \A r \in torn.entries : paths'[r.pid].path = Before.paths[d].path
    BY <2>7, <2>8, <2>9
  <2> QED
    BY <2>10 DEF LinkSurvives, here, view, torn
<1>2. IInv /\ [RowsNext]_rowsVars =>
        [mode # "idle" /\ mode' = "idle" => \A d \in DOMAIN Before.paths : LinkSurvives(d)]_rowsVars
  BY <1>1
<1> QED
  BY <1>2, Always, PTL DEF OldLinksLead, RowsSpec

-----------------------------------------------------------------------------
(* A set of natural numbers has a least element: what is built level by    *)
(* level is right if there is no first level where it is wrong.            *)
Smaller == {p \in Nat \X Nat : p[1] < p[2]}
LEMMA SmallerWF ==
  IsWellFoundedOn(Smaller, Nat)
  BY NatLessThanWellFounded DEF OpToRel, Smaller

LEMMA Least ==
  ASSUME NEW T, T \subseteq Nat, T # {}
  PROVE  \E x \in T : \A y \in T : x <= y
<1>1. PICK x \in T : \A y \in T : ~(<<y, x>> \in Smaller)
  BY SmallerWF, WFMin
<1>2. ASSUME NEW y \in T
      PROVE  x <= y
  <2>1. x \in Nat /\ y \in Nat
    OBVIOUS
  <2>2. y < x => <<y, x>> \in Smaller
    BY <2>1 DEF Smaller
  <2> QED
    BY <1>1, <2>1, <2>2
<1> QED
  BY <1>2

(* path_goup is defined: from one directory to the one above it.           *)
Climbs(db, id, levels, at) ==
  at = [n \in 0..levels |-> IF n = 0 THEN id ELSE Above(db, at[n - 1])]
LEMMA CanClimb ==
  ASSUME NEW db, NEW id, NEW levels \in Nat
  PROVE  \E at : Climbs(db, id, levels, at)
<1> DEFINE T == {k \in Nat : \A at : ~Climbs(db, id, k, at)}
<1>1. SUFFICES ASSUME T # {} PROVE FALSE
  OBVIOUS
<1>2. PICK x \in T : \A y \in T : x <= y
  <2>1. T \subseteq Nat
    OBVIOUS
  <2> HIDE DEF T
  <2> QED
    BY <1>1, <2>1, Least
<1>3. x # 0
  <2> DEFINE at == [n \in 0..0 |-> id]
  <2>1. at = [n \in 0..0 |-> IF n = 0 THEN id ELSE Above(db, at[n - 1])]
    OBVIOUS
  <2>2. Climbs(db, id, 0, at)
    BY <2>1 DEF Climbs
  <2> QED
    BY <2>2
<1>4. x - 1 \in Nat /\ x - 1 \notin T /\ x \in Nat
  BY <1>2, <1>3
<1>5. PICK g : Climbs(db, id, x - 1, g)
  BY <1>4
<1> DEFINE at == [n \in 0..x |-> IF n < x THEN g[n] ELSE Above(db, g[x - 1])]
<1>6. ASSUME NEW n \in 0..x
      PROVE  at[n] = IF n = 0 THEN id ELSE Above(db, at[n - 1])
  <2>1. \A m \in 0..(x - 1) : g[m] = IF m = 0 THEN id ELSE Above(db, g[m - 1])
    BY <1>5 DEF Climbs
  <2>2. CASE n < x
    <3>1. n \in 0..(x - 1) /\ at[n] = g[n] /\ (n # 0 => n - 1 \in 0..x /\ n - 1 < x)
      BY <1>4, <2>2
    <3>2. n # 0 => at[n - 1] = g[n - 1]
      BY <3>1
    <3> QED
      BY <2>1, <3>1, <3>2
  <2>3. CASE n = x
    <3>1. at[n] = Above(db, g[x - 1]) /\ x - 1 \in 0..x /\ x - 1 < x
      BY <1>4, <2>3
    <3>2. at[x - 1] = g[x - 1]
      BY <3>1
    <3> QED
      BY <1>3, <2>3, <3>1, <3>2
  <2> QED
    BY <1>4, <2>2, <2>3
<1>7. DOMAIN at = 0..x /\ at = [n \in 0..x |-> at[n]]
  OBVIOUS
<1> HIDE DEF at
<1>8. at = [n \in 0..x |-> IF n = 0 THEN id ELSE Above(db, at[n - 1])]
  BY <1>6, <1>7
<1>9. Climbs(db, id, x, at)
  BY <1>8 DEF Climbs
<1> QED
  BY <1>9

LEMMA GoesUp ==
  ASSUME NEW db, NEW id, NEW levels \in Nat
  PROVE  \E at : /\ Climbs(db, id, levels, at)
                 /\ at[levels] # 0 => path_goup(db, id, levels) =
                                        [id |-> at[levels], fid |-> db.paths[at[levels - 1]].fid]
<1> DEFINE at == CHOOSE g : Climbs(db, id, levels, g)
<1>1. Climbs(db, id, levels, at)
  BY CanClimb
<1>2. path_goup(db, id, levels) =
        IF at[levels] = 0 THEN [id |-> 0, fid |-> 0]
        ELSE [id |-> at[levels], fid |-> db.paths[at[levels - 1]].fid]
  BY DEF path_goup, Climbs
<1> QED
  BY <1>1, <1>2

-----------------------------------------------------------------------------
(* What the links between directories rely on in the rows.                 *)
Named(ps, fs) ==
  /\ \A r \in fs : r.name \in Nat
  /\ \A r \in fs : r.dir # 0 => /\ r.dir \in DOMAIN ps
                              /\ ps[r.dir].parent = r.pid /\ ps[r.dir].fid = r.fid
                              /\ ps[r.dir].path = Append(ps[r.pid].path, r.name)
  /\ \A id \in DOMAIN ps :
       /\ ps[id].path \in Seq(Nat)
       /\ ps[id].parent = 0 => ps[id].path = <<>>
       /\ ps[id].parent # 0 => \E r \in fs : r.dir = id /\ r.pid = ps[id].parent /\ r.fid = ps[id].fid

LEMMA RowsNamed ==
  ASSUME NEW s, Proper(s)
  PROVE  Named(PathsOf(s), FilesOf(s))
<1> DEFINE ps == PathsOf(s)
           fs == FilesOf(s)
           N == {n \in Nodes(s) : n.pid # 0}
<1>1. /\ Nodes(s) \subseteq NodesWith({""}) /\ PathLines(s) \subseteq PathsWith({""})
      /\ Ids(s) \subseteq Nat \ {0}
  BY ProperTypes
<1>2. /\ \A r \in fs : \E n \in N : r = RowOf(n)
      /\ \A n \in N : RowOf(n) \in fs
  BY DEF FilesOf
<1>3. ASSUME NEW n \in Nodes(s), n.dir # 0
      PROVE  /\ n.dir \in DOMAIN ps
             /\ ps[n.dir].parent = n.pid /\ ps[n.dir].fid = n.fid /\ ps[n.dir].path \in Seq(Nat)
             /\ n.pid = 0 => ps[n.dir].path = <<>>
             /\ n.pid # 0 => ps[n.dir].path = Append(ps[n.pid].path, n.name)
  <2>1. n.dir \in Ids(s) /\ NewRow(ps[n.dir], n)
    BY <1>3, Keys, PathsOfIs
  <2>2. PICK l \in PathLines(s) : l.id = n.dir
    BY <2>1, Keys
  <2>3. ps[n.dir].path = l.path /\ l.path \in Seq(Nat)
    BY <2>2, <1>1, PathsOfIs DEF PathsWith
  <2>4. IF n.pid = 0 THEN l.path = <<>>
        ELSE \E k \in PathLines(s) : k.id = n.pid /\ l.path = Append(k.path, n.name)
    BY <2>2 DEF Proper
  <2>5. \A k \in PathLines(s) : ps[k.id].path = k.path
    BY PathsOfIs
  <2> QED
    BY <2>1, <2>3, <2>4, <2>5, PathsOfIs DEF NewRow
<1>4. ASSUME NEW r \in fs
      PROVE  /\ r.name \in Nat
             /\ r.dir # 0 => /\ r.dir \in DOMAIN ps
                             /\ ps[r.dir].parent = r.pid /\ ps[r.dir].fid = r.fid
                             /\ ps[r.dir].path = Append(ps[r.pid].path, r.name)
  <2>1. PICK n \in N : r = RowOf(n)
    BY <1>2
  <2>2. r.pid = n.pid /\ r.fid = n.fid /\ r.dir = n.dir /\ r.name = n.name
    BY <2>1, RowOfFields
  <2>3. n.name \in Nat
    BY <1>1 DEF NodesWith
  <2> QED
    BY <2>2, <2>3, <1>3
<1>5. ASSUME NEW id \in DOMAIN ps
      PROVE  /\ ps[id].path \in Seq(Nat)
             /\ ps[id].parent = 0 => ps[id].path = <<>>
             /\ ps[id].parent # 0 =>
                  \E r \in fs : r.dir = id /\ r.pid = ps[id].parent /\ r.fid = ps[id].fid
  <2>1. id \in Ids(s) /\ id # 0
    BY <1>1, PathsOfIs
  <2>2. PICK n \in Nodes(s) : n.dir = id
    BY <2>1, Keys
  <2>3. /\ ps[id].parent = n.pid /\ ps[id].fid = n.fid /\ ps[id].path \in Seq(Nat)
        /\ n.pid = 0 => ps[id].path = <<>>
    BY <2>1, <2>2, <1>3
  <2>4. n.pid # 0 => RowOf(n) \in fs /\ RowOf(n).dir = id /\ RowOf(n).pid = n.pid /\ RowOf(n).fid = n.fid
    BY <2>2, <1>2, RowOfFields
  <2> QED
    BY <2>3, <2>4
<1> HIDE DEF ps, fs
<1>6. Named(ps, fs)
  BY <1>4, <1>5 DEF Named
<1> QED
  BY <1>6 DEF ps, fs

(* One name less.                                                          *)
LEMMA OneLess ==
  ASSUME NEW s \in Seq(Nat), NEW m \in 1..Len(s), NEW q \in Seq(Nat), NEW x \in Nat,
         SubSeq(s, 1, m) = Append(q, x)
  PROVE  q = SubSeq(s, 1, m - 1)
<1>1. m \in Int /\ m - 1 \in Int /\ 1 \in Int /\ m >= 1 /\ Len(s) \in Nat
  OBVIOUS
<1>2. \A i \in 1..m : s[i] \in Nat
  OBVIOUS
<1>3. \A i \in 1..(m - 1) : s[i] \in Nat
  BY <1>2, <1>1
<1>4. Len(SubSeq(s, 1, m)) = m /\ \A i \in 1..m : SubSeq(s, 1, m)[i] = s[i]
  <2>1. Len(SubSeq(s, 1, m)) = IF 1 <= m THEN m - 1 + 1 ELSE 0
    BY <1>1, <1>2, SubSeqProperties
  <2>2. \A i \in 1..(m - 1 + 1) : SubSeq(s, 1, m)[i] = s[1 + i - 1]
    BY <1>1, <1>2, SubSeqProperties
  <2> QED
    BY <1>1, <2>1, <2>2
<1>5. /\ SubSeq(s, 1, m - 1) \in Seq(Nat)
      /\ Len(SubSeq(s, 1, m - 1)) = m - 1
      /\ \A i \in 1..(m - 1) : SubSeq(s, 1, m - 1)[i] = s[i]
  <2>1. /\ SubSeq(s, 1, m - 1) \in Seq(Nat)
        /\ Len(SubSeq(s, 1, m - 1)) = IF 1 <= m - 1 THEN m - 1 - 1 + 1 ELSE 0
    BY <1>1, <1>3, SubSeqProperties
  <2>2. \A i \in 1..(m - 1 - 1 + 1) : SubSeq(s, 1, m - 1)[i] = s[1 + i - 1]
    BY <1>1, <1>3, SubSeqProperties
  <2> QED
    BY <1>1, <2>1, <2>2
<1>6. Len(q) = m - 1 /\ \A i \in 1..(m - 1) : q[i] = s[i]
  <2>1. Len(Append(q, x)) = Len(q) + 1 /\ \A i \in 1..Len(q) : Append(q, x)[i] = q[i]
    OBVIOUS
  <2>2. Len(q) + 1 = m
    BY <1>4, <2>1
  <2>3. Len(q) \in Nat
    OBVIOUS
  <2>4. Len(q) = m - 1
    BY <2>2, <2>3, <1>1
  <2>5. ASSUME NEW i \in 1..(m - 1)
        PROVE  q[i] = s[i]
    <3>1. i \in 1..Len(q) /\ i \in 1..m
      BY <2>4, <1>1
    <3>2. SubSeq(s, 1, m)[i] = s[i] /\ Append(q, x)[i] = q[i]
      BY <3>1, <1>4, <2>1
    <3> QED
      BY <3>2
  <2> QED
    BY <2>4, <2>5
<1> QED
  BY <1>5, <1>6, SeqEqual

(* The entry of its parent that leads to a directory.                      *)
LEMMA WayBack ==
  ASSUME NEW ps, NEW fs, Numbered(ps, fs), Named(ps, fs), NEW id \in DOMAIN ps, ps[id].path # <<>>
  PROVE  \E r \in fs : /\ r \in RowsIn(fs, ps[id].parent) /\ r.dir = id /\ r.fid = ps[id].fid
                       /\ r.fid \in Nat /\ r.name \in Nat
                       /\ ps[id].parent \in DOMAIN ps
                       /\ ps[id].path = Append(ps[ps[id].parent].path, r.name)
<1>1. ps[id].parent # 0
  BY DEF Named
<1>2. PICK r \in fs : r.dir = id /\ r.pid = ps[id].parent /\ r.fid = ps[id].fid
  BY <1>1 DEF Named
<1>3. id # 0
  BY DEF Numbered
<1>4. r.name \in Nat /\ ps[id].path = Append(ps[r.pid].path, r.name)
  BY <1>2, <1>3 DEF Named
<1>5. r.fid \in Nat /\ r.pid \in DOMAIN ps
  BY DEF Numbered
<1> QED
  BY <1>2, <1>4, <1>5 DEF RowsIn

LEMMA Ancestors ==
  ASSUME NEW ps, NEW fs, Numbered(ps, fs), Named(ps, fs), NEW id \in DOMAIN ps,
         NEW db, db.paths = ps, NEW levels \in 0..Len(ps[id].path),
         NEW at, Climbs(db, id, levels, at)
  PROVE  \A k \in 0..levels :
           at[k] \in DOMAIN ps /\ ps[at[k]].path = SubSeq(ps[id].path, 1, Len(ps[id].path) - k)
<1> DEFINE path == ps[id].path
           Right(k) == at[k] \in DOMAIN ps /\ ps[at[k]].path = SubSeq(path, 1, Len(path) - k)
           T == {k \in 0..levels : ~Right(k)}
<1>1. path \in Seq(Nat)
  BY DEF Named
<1>2. Len(path) \in Nat /\ levels \in Nat /\ levels <= Len(path)
  BY <1>1
<1>3. at[0] = id /\ \A k \in 1..levels : at[k] = Above(db, at[k - 1])
  <2>1. /\ DOMAIN at = 0..levels
        /\ \A n \in 0..levels : at[n] = IF n = 0 THEN id ELSE Above(db, at[n - 1])
    BY DEF Climbs
  <2> QED
    BY <2>1, <1>2
<1>4. SUFFICES ASSUME T # {} PROVE FALSE
  OBVIOUS
<1>5. PICK x \in T : \A y \in T : x <= y
  <2>1. T \subseteq Nat
    BY <1>2
  <2> HIDE DEF T
  <2> QED
    BY <1>4, <2>1, Least
<1>6. Right(0)
  <2>1. SubSeq(path, 1, Len(path)) = path /\ Len(path) - 0 = Len(path)
    BY <1>1, <1>2, SubSeqFull
  <2> QED
    BY <1>3, <2>1
<1>7. x \in 1..levels /\ x - 1 \in 0..levels /\ Right(x - 1)
  <2>1. x \in 0..levels /\ x # 0
    BY <1>5, <1>6
  <2>2. x - 1 \in 0..levels /\ ~(x <= x - 1)
    BY <2>1, <1>2
  <2>3. Right(x - 1)
    BY <2>2, <1>5
  <2> QED
    BY <2>1, <2>2, <2>3
<1> DEFINE e == at[x - 1]
           m == Len(path) - (x - 1)
<1>8. e \in DOMAIN ps /\ ps[e].path = SubSeq(path, 1, m) /\ ps[e].path \in Seq(Nat)
  BY <1>7 DEF Named
<1> HIDE DEF e, path
<1>9. m \in 1..Len(path) /\ m - 1 = Len(path) - x
  BY <1>2, <1>7
<1> HIDE DEF m
<1>10. ps[e].path # <<>>
  <2>1. ASSUME NEW i \in 1..m
        PROVE  path[i] \in Nat
    <3>1. i \in 1..Len(path)
      BY <1>2, <1>9
    <3> QED
      BY <3>1, <1>1, ElementOfSeq
  <2>2. 1 \in Int /\ m \in Int /\ 1 <= m
    BY <1>2, <1>9
  <2>3. Len(SubSeq(path, 1, m)) = IF 1 <= m THEN m - 1 + 1 ELSE 0
    BY <2>1, <2>2, SubSeqProperties
  <2>4. Len(ps[e].path) = m /\ m # 0
    BY <1>8, <2>2, <2>3
  <2> QED
    BY <2>4
<1>11. PICK r \in fs : /\ r.name \in Nat /\ ps[e].parent \in DOMAIN ps
                       /\ ps[e].path = Append(ps[ps[e].parent].path, r.name)
  <2>1. e \in DOMAIN ps
    BY <1>8
  <2>2. \E r \in fs : /\ r \in RowsIn(fs, ps[e].parent) /\ r.dir = e /\ r.fid = ps[e].fid
                      /\ r.fid \in Nat /\ r.name \in Nat
                      /\ ps[e].parent \in DOMAIN ps
                      /\ ps[e].path = Append(ps[ps[e].parent].path, r.name)
    BY <1>10, <2>1, WayBack
  <2> QED
    BY <2>2
<1>12. at[x] = ps[e].parent
  BY <1>3, <1>7, <1>8 DEF e, Above
<1>13. ps[ps[e].parent].path \in Seq(Nat)
  BY <1>11 DEF Named
<1>14. ps[ps[e].parent].path = SubSeq(path, 1, m - 1)
  <2> DEFINE q == ps[ps[e].parent].path
  <2>1. q \in Seq(Nat) /\ SubSeq(path, 1, m) = Append(q, r.name) /\ r.name \in Nat
    BY <1>8, <1>11, <1>13
  <2> HIDE DEF q
  <2>2. q = SubSeq(path, 1, m - 1)
    BY <1>1, <1>9, <2>1, OneLess
  <2> QED
    BY <2>2 DEF q
<1>15. Right(x)
  BY <1>9, <1>11, <1>12, <1>14
<1> QED
  BY <1>5, <1>15

LEMMA ShowsWayBack ==
  ASSUME NEW ps, NEW fs, Numbered(ps, fs), NEW d \in DOMAIN ps, NEW r \in RowsIn(fs, d)
  PROVE  LET db == [paths |-> ps, files |-> fs]
         IN r \in share(db, db, [path |-> ps[d].path, p |-> d, o |-> PageOf(r.fid)]).entries
<1> DEFINE o == PageOf(r.fid)
           items == ps[d].items
<1>1. items \in Nat /\ r.fid \in 0..(items - 1)
  BY DEF Numbered
<1>2. o \in 0..LastPage(items) /\ LastPage(items) \in Nat
  BY <1>1, OnSomePage, LastPageIs
<1>3. o \in Nat /\ o <= LastPage(items)
  BY <1>2
<1>4. PageAt(items, o) = o
  BY <1>3 DEF PageAt
<1>5. LET db == [paths |-> ps, files |-> fs]
      IN r \in share(db, db, [path |-> ps[d].path, p |-> d, o |-> o]).entries
           <=> PageOf(r.fid) = PageAt(items, o)
  BY <1>3, OnItsPage
<1> QED
  BY <1>4, <1>5

LEMMA LinkRight ==
  ASSUME Numbered(paths, files), Named(paths, files), NEW r \in files, r.dir # 0
  PROVE  LinkLeads(r)
<1> DEFINE db == [paths |-> paths, files |-> files]
           d == r.dir
           path == paths[d].path
           view == Page(filelink(Committed, r))
<1>1. /\ d \in DOMAIN paths /\ d # 0
      /\ paths[d].parent = r.pid /\ paths[d].fid = r.fid
      /\ path = Append(paths[r.pid].path, r.name)
      /\ path \in Seq(Nat) /\ r.name \in Nat
  BY DEF Named
<1>2. /\ r.pid \in DOMAIN paths /\ r.pid # 0 /\ r.fid \in Nat
      /\ paths[r.pid].path \in Seq(Nat) /\ r \in RowsIn(files, r.pid)
  BY DEF Numbered, Named, RowsIn
<1>3. view = share(db, db, [path |-> path, p |-> d, o |-> 0])
  BY <1>1 DEF Page, filelink, Committed
<1>4. view.dir = d /\ view.up = FastUp(db, d)
  <2>1. d \in DOMAIN paths /\ 0 \in Nat
    BY <1>1
  <2> HIDE DEF d, view
  <2>2. LET v == share(db, db, [path |-> paths[d].path, p |-> d, o |-> 0])
        IN v.dir = d /\ v.up = FastUp(db, d)
    BY <2>1, PageOpens
  <2> QED
    BY <1>3, <2>2
<1>5. FastUp(db, d) = [path |-> paths[r.pid].path, p |-> r.pid, o |-> PageOf(r.fid)]
  <2>1. Front(Append(paths[r.pid].path, r.name)) = paths[r.pid].path
    <3> DEFINE q == paths[r.pid].path
    <3>1. Len(Append(q, r.name)) = Len(q) + 1 /\ Append(q, r.name) \in Seq(Nat) /\ Len(q) \in Nat
      BY <1>1, <1>2
    <3> HIDE DEF q
    <3>2. SubSeq(Append(q, r.name), 1, Len(q) + 1) = Append(q, r.name)
      BY <3>1, SubSeqFull
    <3>3. Len(q) + 1 \in 1..Len(Append(q, r.name)) /\ q \in Seq(Nat) /\ (Len(q) + 1) - 1 = Len(q)
      BY <3>1, <1>2 DEF q
    <3>4. q = SubSeq(Append(q, r.name), 1, (Len(q) + 1) - 1)
      BY <1>1, <3>1, <3>2, <3>3, OneLess
    <3> QED
      BY <3>1, <3>4 DEF Front, q
  <2> QED
    BY <1>1, <1>2, <2>1 DEF FastUp
<1>6. r \in Page(view.up).entries
  <2>1. r \in share(db, db, [path |-> paths[r.pid].path, p |-> r.pid, o |-> PageOf(r.fid)]).entries
    BY <1>2, ShowsWayBack
  <2> QED
    BY <2>1, <1>4, <1>5 DEF Page, Committed
<1>7. ASSUME NEW up \in 1..Len(path)
      PROVE  \E q \in share_goup(Committed, SubSeq(path, 1, Len(path) - up), d, up).entries :
               q.dir # 0 /\ paths[q.dir].path = SubSeq(path, 1, (Len(path) - up) + 1)
  <2>1. Len(path) \in Nat /\ up \in Nat /\ up \in 0..Len(path) /\ up - 1 \in 0..up /\ up \in 0..up
    BY <1>1
  <2>2. PICK at : /\ Climbs(db, d, up, at)
                  /\ at[up] # 0 => path_goup(db, d, up) =
                                     [id |-> at[up], fid |-> db.paths[at[up - 1]].fid]
    BY <2>1, GoesUp
  <2> DEFINE e == at[up - 1]
             a == at[up]
  <2>3. \A k \in 0..up :
          at[k] \in DOMAIN paths /\ paths[at[k]].path = SubSeq(path, 1, Len(path) - k)
    <3>1. db.paths = paths /\ d \in DOMAIN paths /\ up \in 0..Len(paths[d].path)
      BY <1>1, <2>1
    <3>2. Climbs(db, d, up, at)
      BY <2>2
    <3> HIDE DEF db, d, path
    <3>3. ASSUME NEW base, base.paths = paths, Climbs(base, d, up, at)
          PROVE  \A k \in 0..up :
                   /\ at[k] \in DOMAIN paths
                   /\ paths[at[k]].path = SubSeq(paths[d].path, 1, Len(paths[d].path) - k)
      BY <3>1, <3>3, Ancestors
    <3> QED
      BY <3>1, <3>2, <3>3 DEF path
  <2>4. /\ a \in DOMAIN paths /\ paths[a].path = SubSeq(path, 1, Len(path) - up) /\ a # 0
        /\ e \in DOMAIN paths /\ paths[e].path = SubSeq(path, 1, Len(path) - (up - 1)) /\ e # 0
    BY <2>1, <2>3 DEF Numbered
  <2>5. a = paths[e].parent
    <3>1. at[up] = Above(db, at[up - 1])
      BY <2>1, <2>2 DEF Climbs
    <3> QED
      BY <3>1, <2>4 DEF Above
  <2>6. path_goup(db, d, up) = [id |-> a, fid |-> paths[e].fid]
    BY <2>2, <2>4
  <2> HIDE DEF e, a
  <2>7. paths[e].path # <<>>
    <3> DEFINE m == Len(path) - (up - 1)
    <3>1. 1 \in Int /\ m \in Int /\ 1 <= m /\ m <= Len(path)
      BY <2>1
    <3> HIDE DEF path
    <3>2. ASSUME NEW i \in 1..m
          PROVE  path[i] \in Nat
      <4>1. i \in 1..Len(path)
        BY <2>1, <3>1
      <4> QED
        BY <4>1, <1>1, ElementOfSeq
    <3> HIDE DEF m
    <3>3. Len(SubSeq(path, 1, m)) = IF 1 <= m THEN m - 1 + 1 ELSE 0
      BY <3>1, <3>2, SubSeqProperties
    <3>4. Len(paths[e].path) # 0
      BY <2>4, <3>1, <3>3 DEF m
    <3> QED
      BY <3>4
  <2>8. PICK q \in files : /\ q \in RowsIn(files, paths[e].parent) /\ q.dir = e /\ q.fid = paths[e].fid
    BY <2>4, <2>7, WayBack
  <2>9. q \in RowsIn(files, a) /\ q.dir = e /\ q.fid = paths[e].fid
    BY <2>5, <2>8
  <2>10. q \in share(db, db, [path |-> paths[a].path, p |-> a, o |-> PageOf(q.fid)]).entries
    BY <2>4, <2>9, ShowsWayBack
  <2>11. share_goup(Committed, SubSeq(path, 1, Len(path) - up), d, up) =
           share(db, db, [path |-> paths[a].path, p |-> a, o |-> PageOf(q.fid)])
    <3>1. path_goup(Committed, d, up) = [id |-> a, fid |-> q.fid]
      BY <2>6, <2>9 DEF Committed
    <3>2. path_goup(Committed, d, up).id = a /\ path_goup(Committed, d, up).fid = q.fid
      BY <3>1
    <3> HIDE DEF path, d
    <3> QED
      BY <2>4, <3>2 DEF share_goup, Committed
  <2>12. paths[q.dir].path = SubSeq(path, 1, (Len(path) - up) + 1)
    <3>1. (Len(path) - up) + 1 = Len(path) - (up - 1)
      BY <2>1
    <3> HIDE DEF path
    <3> QED
      BY <2>4, <2>9, <3>1
  <2> QED
    BY <2>4, <2>9, <2>10, <2>11, <2>12
<1> HIDE DEF path, d, view
<1> QED
  BY <1>4, <1>6, <1>7 DEF LinkLeads, path, d, view

(* The link to a subdirectory opens it, and its links up open pages that   *)
(* show the way back, to every ancestor of it (webuguu/vfs/views.py        *)
(* path_goup, share).                                                      *)
THEOREM LinksRight ==
  RowsSpec => []LinksLead
<1>1. ASSUME IInv, mode = "idle"
      PROVE  Numbered(paths, files) /\ Named(paths, files)
  BY <1>1, RowsNumbered, RowsNamed DEF IInv, Resting
<1>2. IInv => LinksLead
  BY <1>1, LinkRight DEF LinksLead
<1> QED
  BY <1>2, Always, PTL
=============================================================================
