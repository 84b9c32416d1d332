--------------------------------- MODULE Rows ---------------------------------
(***************************************************************************)
(* One share's rows of paths and files, kept up to date by patches         *)
(* (bin/spider.py scan_line_patch, bin/dbinit.py push_path_files).         *)
(*                                                                         *)
(* A scan ends in a complete listing, and, if the scanner was given the    *)
(* saved listing of the previous scan, in a patch against it.  The spider  *)
(* either applies the patch to the rows line by line or deletes all rows   *)
(* and loads the listing line by line.  Module Spider takes it for granted *)
(* that a patch against the content of the database turns it into the      *)
(* content of the share; this module shows it.  Here the scanner is only   *)
(* what it promises: AnyScan.  Module TreePatch has the scanner itself.    *)
(*                                                                         *)
(* Queries are executed in the order they are queued in, so a queued query *)
(* is taken for executed.  The exception are rows of files that PsycoCache *)
(* collects in fquery and inserts when there are more than Batch of them,  *)
(* or at the end.                                                          *)
(***************************************************************************)
EXTENDS Naturals, Sequences, FiniteSets, SequencesExt, Functions

CONSTANT Batch   \* how many rows fquery holds (1024)
ASSUME RowsAssumption == Batch \in Nat

VARIABLES
  saved,     \* the listing in bin/save
  fresh,     \* the listing the scanner printed
  patch,     \* the patch it printed before, without the md5
  doc,       \* what is left of the lines that are being applied
  mode,      \* what the spider does: idle, scanned, full, patch, load, failed
  paths,     \* rows of paths by treepath_id
  files,     \* rows of files
  newfiles,  \* rows of the temporary table newfiles
  fquery,    \* rows of files to be inserted
  buffer,    \* paths_buffer: modify, by treepath_id
  shareSize  \* shares.size

rows == <<paths, files, newfiles, fquery>>
rowsVars == <<saved, fresh, patch, doc, mode, rows, buffer, shareSize>>

-----------------------------------------------------------------------------
(* The contract between a scanner and the spider.  Lines are records: a    *)
(* directory's path, or a node, a file or a directory as an entry of its   *)
(* parent; act is the prefix, "" in a complete listing, "+", "-" or "*" in *)
(* a patch.                                                                *)
PathLines(lines) == {l \in ToSet(lines) : l.kind = "path"}
Nodes(lines) == {l \in ToSet(lines) : l.kind = "node"}
Ids(lines) == {l.id : l \in PathLines(lines)}
In(lines, d) == {l \in Nodes(lines) : l.pid = d}

PathsWith(acts) == [kind : {"path"}, act : acts, id : Nat \ {0}, path : Seq(Nat)]
NodesWith(acts) == [kind : {"node"}, act : acts, pid : Nat, fid : Nat, size : Nat,
                    dir : Nat, items : Nat, name : Nat]
LinesWith(acts) == PathsWith(acts) \cup NodesWith(acts)

(* The path of a directory comes before what is in it, and that before the *)
(* node of the directory itself.                                           *)
InOrder(lines) ==
  \A i, j \in DOMAIN lines :
    /\ (/\ lines[i].kind = "path" /\ lines[i].act # "-"
        /\ lines[j].kind = "node" /\ lines[i].id \in {lines[j].pid, lines[j].dir}) => i < j
    /\ (/\ lines[i].kind = "node" /\ lines[i].pid # 0
        /\ lines[j].kind = "node" /\ lines[j].act # "-" /\ lines[i].pid = lines[j].dir) => i < j

(* A complete listing of a tree: its root has the id 1, the entries of a   *)
(* directory have different names and the numbers 0, 1, 2, ..., and a path *)
(* is made of the names on the way from the root.                          *)
Proper(lines) ==
  /\ lines \in Seq(LinesWith({""})) /\ IsInjective(lines)
  /\ \A a, b \in PathLines(lines) : a.id = b.id \/ a.path = b.path => a = b
  /\ {n.dir : n \in Nodes(lines)} \ {0} = Ids(lines)
  /\ {n.pid : n \in Nodes(lines)} \ {0} \subseteq Ids(lines)
  /\ \A n \in In(lines, 0) : n.dir = 1 /\ n.fid = 0
  /\ \A a, b \in Nodes(lines) :
       \/ a.dir = b.dir /\ a.dir # 0
       \/ a.pid = b.pid /\ a.pid # 0 /\ (a.fid = b.fid \/ (a.name = b.name /\ a.dir = b.dir))
       => a = b
  /\ \A n \in Nodes(lines) : n.pid # 0 => 0..n.fid \subseteq {m.fid : m \in In(lines, n.pid)}
  /\ \A n \in Nodes(lines) : n.dir # 0 => n.items = Cardinality(In(lines, n.dir))
  /\ \A n \in Nodes(lines), l \in PathLines(lines) : n.dir = l.id =>
       IF n.pid = 0 THEN l.path = <<>>
       ELSE \E k \in PathLines(lines) : k.id = n.pid /\ l.path = Append(k.path, n.name)
  /\ InOrder(lines)

(* An entry of both listings: the same file, or the same directory.        *)
Same(o, n) == o.pid = n.pid /\ o.name = n.name /\ o.dir = n.dir

(* A directory keeps its id as long as its path leads to it, a new one     *)
(* gets an id of its own; and entries keep their order.                    *)
Continues(old, new) ==
  /\ \A o \in PathLines(old), n \in PathLines(new) : o.id = n.id <=> o.path = n.path
  /\ \A o \in Nodes(old), n \in Nodes(new) : o.dir = n.dir /\ o.dir # 0 => Same(o, n)
  /\ \A o1, o2 \in Nodes(old) : o1.pid = o2.pid /\ o1.fid < o2.fid =>
       \A n1, n2 \in Nodes(new) : Same(o1, n1) /\ Same(o2, n2) => n1.fid < n2.fid

(* The lines of the patch from old to new, where the directories in A are  *)
(* announced.  Sizes are told with the numbers entries have in old.  What  *)
(* is in a directory that is gone is not listed.                           *)
Mark(act, l) == [l EXCEPT !.act = act]
Marked(act, lines) == {Mark(act, l) : l \in lines}
Resizes(p) == Same(p[1], p[2]) /\ (p[1].size # p[2].size \/ p[1].items # p[2].items)
Told(o, n) == [kind |-> "node", act |-> "*", pid |-> n.pid, fid |-> o.fid, size |-> n.size,
               dir |-> n.dir, items |-> n.items, name |-> n.name]
Difference(old, new, A) ==
  Marked("+", {l \in PathLines(new) : l.id \notin Ids(old)})
    \cup Marked("-", {l \in PathLines(old) : l.id \notin Ids(new)})
    \cup Marked("*", {l \in PathLines(new) : l.id \in A})
    \cup Marked("+", {n \in Nodes(new) : \A o \in Nodes(old) : ~Same(o, n)})
    \cup Marked("-", {o \in Nodes(old) : o.pid \in Ids(new) /\ \A n \in Nodes(new) : ~Same(o, n)})
    \cup {Told(p[1], p[2]) : p \in {q \in Nodes(old) \X Nodes(new) : Resizes(q)}}

(* Every old directory that gains or loses an entry is announced.          *)
Announced(lines) == {l.id : l \in {k \in PathLines(lines) : k.act = "*"}}
IsPatch(lines, old, new) ==
  /\ lines \in Seq(LinesWith({"+", "-", "*"})) /\ IsInjective(lines)
  /\ ToSet(lines) = Difference(old, new, Announced(lines))
  /\ Announced(lines) \subseteq Ids(old) \cap Ids(new)
  /\ \A l \in Nodes(lines) : l.act # "*" /\ l.pid \in Ids(old) => l.pid \in Announced(lines)
  /\ InOrder(lines)
  /\ Continues(old, new)

-----------------------------------------------------------------------------
(* The rows a listing stands for.                                          *)
Row(pid, fid, dir, size, name) ==
  [pid |-> pid, fid |-> fid, dir |-> dir, size |-> size, name |-> name]
RowOf(l) == Row(l.pid, l.fid, l.dir, l.size, l.name)
PathRow(path) == [path |-> path, parent |-> 0, fid |-> 0, items |-> 0, size |-> 0]

PathsOf(lines) ==
  [id \in Ids(lines) |->
     LET n == CHOOSE l \in Nodes(lines) : l.dir = id
     IN [path |-> (CHOOSE l \in PathLines(lines) : l.id = id).path,
         parent |-> n.pid, fid |-> n.fid, items |-> n.items, size |-> n.size]]
FilesOf(lines) == {RowOf(l) : l \in {n \in Nodes(lines) : n.pid # 0}}

(* The scanner runs, with the saved listing or without one.                *)
AnyScan ==
  /\ mode = "idle"
  /\ Proper(fresh')
  /\ \/ mode' = "scanned" /\ IsPatch(patch', saved, fresh')
     \/ mode' = "full" /\ patch' = <<>>
  /\ UNCHANGED <<saved, doc, rows, buffer, shareSize>>

(* The patch is taken if it is short; how short depends on the part of the *)
(* share that is not modelled.                                             *)
TakePatch ==
  /\ mode = "scanned"
  /\ mode' = "patch"
  /\ doc' = patch
  /\ UNCHANGED <<saved, fresh, patch, rows, buffer, shareSize>>

AsAdded(lines) == [i \in DOMAIN lines |-> Mark("+", lines[i])]
(* DELETE FROM paths, which cascades to files, and every line is applied   *)
(* as if it was added.                                                     *)
TakeListing ==
  /\ mode \in {"scanned", "full"}
  /\ mode' = "load"
  /\ doc' = AsAdded(fresh)
  /\ paths' = <<>>
  /\ files' = {}
  /\ UNCHANGED <<saved, fresh, patch, newfiles, fquery, buffer, shareSize>>

-----------------------------------------------------------------------------
(* push_path_files: the rows of files of directory d are renumbered to     *)
(* leave room for the new ones, which then move in with the numbers they   *)
(* have in the new listing.                                                *)

(* The loop gives the old rows, in their order, the numbers no new row     *)
(* has.                                                                    *)
Number(r, old, taken) ==
  CHOOSE m \in 0..(Cardinality(old) + Cardinality(taken)) :
    /\ m \notin taken
    /\ Cardinality((0..(m - 1)) \ taken) = Cardinality({q \in old : q.fid < r.fid})

Renumbered(ps, to) ==
  [id \in DOMAIN ps |-> IF \E r \in DOMAIN to : r.dir = id /\ to[r] # r.fid
                        THEN [ps[id] EXCEPT !.fid = to[CHOOSE r \in DOMAIN to : r.dir = id]]
                        ELSE ps[id]]

Push(d, db) ==
  LET old == {r \in db.files : r.pid = d}
      new == {r \in db.newfiles : r.pid = d}
      to == [r \in old |-> Number(r, old, {n.fid : n \in new})]
      \* two new rows have one number, and the loop got past it
      stuck == \E a, b \in new, r \in old : a # b /\ a.fid = b.fid /\ to[r] > a.fid
  IN [ok       |-> db.ok /\ ~stuck /\ (new # {} => d \in DOMAIN db.paths),
      paths    |-> Renumbered(db.paths, to),
      files    |-> (db.files \ old) \cup new \cup {[r EXCEPT !.fid = to[r]] : r \in old},
      newfiles |-> db.newfiles \ new]

Put(f, k, v) == [x \in DOMAIN f \cup {k} |-> IF x = k THEN v ELSE f[x]]
Database == [ok |-> TRUE, paths |-> paths, files |-> files, newfiles |-> newfiles]

-----------------------------------------------------------------------------
(* scan_line_patch, one action per kind of line.  A query that violates a  *)
(* constraint, and a key missing in paths_buffer, end the scan: "failed".  *)
Line == Head(doc)
Applying(kind, act) ==
  /\ mode \in {"patch", "load"}
  /\ doc # <<>>
  /\ Line.kind = kind /\ Line.act = act
  /\ doc' = Tail(doc)
  /\ UNCHANGED <<saved, fresh, patch>>
Go(ok) == mode' = IF ok THEN mode ELSE "failed"

AddPath ==
  /\ Applying("path", "+")
  /\ Go(Line.id \notin DOMAIN paths /\ \A id \in DOMAIN paths : paths[id].path # Line.path)
  /\ paths' = Put(paths, Line.id, PathRow(Line.path))
  /\ buffer' = Put(buffer, Line.id, FALSE)
  /\ UNCHANGED <<files, newfiles, fquery, shareSize>>

(* The rows of files of the directory go with it (ON DELETE CASCADE).      *)
DeletePath ==
  /\ Applying("path", "-")
  /\ paths' = Restrict(paths, DOMAIN paths \ {Line.id})
  /\ files' = {r \in files : r.pid # Line.id}
  /\ UNCHANGED <<mode, newfiles, fquery, buffer, shareSize>>

ModifyPath ==
  /\ Applying("path", "*")
  /\ buffer' = Put(buffer, Line.id, TRUE)
  /\ UNCHANGED <<mode, rows, shareSize>>

(* What a line "+ 1" or "* 1" of a directory does first: its row of paths  *)
(* is brought up to date, and if its entries change it is pushed.  This is *)
(* the directory's last line.                                              *)
Modified(id) == id \in DOMAIN buffer /\ buffer[id]
WithDir(ps, l) ==
  IF l.dir \notin DOMAIN ps THEN ps
  ELSE [ps EXCEPT ![l.dir] = [path |-> @.path, parent |-> l.pid, fid |-> l.fid,
                              items |-> l.items, size |-> l.size]]
Updated(l) == [Database EXCEPT !.paths = WithDir(paths, l)]

\* the parent is pushed as well, too early
CloseDirAndParent(l) ==
  IF Modified(l.dir) THEN Push(l.pid, Push(l.dir, Updated(l))) ELSE Updated(l)
CloseDir(l) == IF Modified(l.dir) THEN Push(l.dir, Updated(l)) ELSE Updated(l)
Closing(l) == buffer' = Restrict(buffer, DOMAIN buffer \ {l.dir})

Flushable(rs) == \A r \in rs : r.pid \in DOMAIN paths
LineRow == RowOf(Line)

(* A file, or a directory as an entry of its parent.                       *)
AddEntry ==
  LET db == CloseDir(Line)
      known == Line.pid \in DOMAIN buffer
      collected == fquery \cup {LineRow}
      flush == known /\ ~buffer[Line.pid] /\ Cardinality(collected) > Batch
  IN /\ Applying("node", "+")
     /\ Line.pid # 0
     /\ Closing(Line)
     /\ Go(db.ok /\ known /\ (flush => Flushable(collected)))
     /\ paths' = db.paths
     /\ newfiles' = IF known /\ buffer[Line.pid] THEN db.newfiles \cup {LineRow} ELSE db.newfiles
     /\ files' = IF flush THEN db.files \cup collected ELSE db.files
     /\ fquery' = IF flush THEN {} ELSE IF known /\ ~buffer[Line.pid] THEN collected ELSE fquery
     /\ UNCHANGED shareSize

DeleteEntry ==
  /\ Applying("node", "-")
  /\ files' = {r \in files : ~(r.pid = Line.pid /\ r.fid = Line.fid)}
  /\ UNCHANGED <<mode, paths, newfiles, fquery, buffer, shareSize>>

WithSize(rs, l) ==
  {IF r.pid = l.pid /\ r.fid = l.fid THEN [r EXCEPT !.size = l.size] ELSE r : r \in rs}

ModifyEntry ==
  LET db == CloseDir(Line) IN
  /\ Applying("node", "*")
  /\ Line.pid # 0
  /\ Closing(Line)
  /\ Go(db.ok)
  /\ paths' = db.paths
  /\ newfiles' = db.newfiles
  /\ files' = WithSize(db.files, Line)
  /\ UNCHANGED <<fquery, shareSize>>

(* The root is an entry of no directory; its size is the share's.          *)
CloseRoot ==
  LET db == CloseDir(Line) IN
  /\ Applying("node", "+") \/ Applying("node", "*")
  /\ Line.pid = 0
  /\ Closing(Line)
  /\ Go(db.ok)
  /\ paths' = db.paths
  /\ newfiles' = db.newfiles
  /\ files' = db.files
  /\ shareSize' = Line.size
  /\ UNCHANGED fquery

(* Directories whose size stayed the same have had no line of their own.   *)
PushRest(d) ==
  LET db == Push(d, Database) IN
  /\ mode = "patch" /\ doc = <<>>
  /\ buffer[d]
  /\ buffer' = Restrict(buffer, DOMAIN buffer \ {d})
  /\ Go(db.ok)
  /\ paths' = db.paths /\ files' = db.files /\ newfiles' = db.newfiles
  /\ UNCHANGED <<saved, fresh, patch, doc, fquery, shareSize>>

(* allcommit, the listing is saved, the transaction is committed.          *)
Finish ==
  /\ mode \in {"patch", "load"} /\ doc = <<>>
  /\ \A d \in DOMAIN buffer : ~buffer[d]
  /\ mode' = IF Flushable(fquery) THEN "idle" ELSE "failed"
  /\ files' = files \cup fquery
  /\ fquery' = {} /\ newfiles' = {} /\ buffer' = <<>>
  /\ saved' = fresh
  /\ fresh' = <<>> /\ patch' = <<>>
  /\ UNCHANGED <<doc, paths, shareSize>>

Apply == AddPath \/ DeletePath \/ ModifyPath \/ AddEntry \/ DeleteEntry \/ ModifyEntry \/ CloseRoot
Update == TakePatch \/ TakeListing \/ Apply \/ (\E d \in DOMAIN buffer : PushRest(d)) \/ Finish

RowsInit == /\ Proper(saved)
            /\ paths = PathsOf(saved) /\ files = FilesOf(saved)
            /\ fresh = <<>> /\ patch = <<>> /\ doc = <<>>
            /\ mode = "idle"
            /\ newfiles = {} /\ fquery = {}
            /\ buffer = <<>>
            /\ shareSize \in Nat
RowsNext == AnyScan \/ Update
RowsSpec == RowsInit /\ [][RowsNext]_rowsVars

-----------------------------------------------------------------------------
TypeOK ==
  /\ mode \in {"idle", "scanned", "full", "patch", "load", "failed"}
  /\ \A id \in DOMAIN paths :
       /\ id \in Nat \ {0}
       /\ DOMAIN paths[id] = {"path", "parent", "fid", "items", "size"}
  /\ \A r \in files \cup newfiles \cup fquery : {r.pid, r.fid, r.dir, r.size, r.name} \subseteq Nat
  /\ \A d \in DOMAIN buffer : buffer[d] \in BOOLEAN

(* After every scan, whether a patch was applied or not, the rows are the  *)
(* rows of the saved listing: "saves of previous scans in 'bin/save'       *)
(* directory should contain exactly the same content which lies in         *)
(* database" (misc/save/README:33).  The next patch is made against them.  *)
InSync == mode = "idle" => /\ paths = PathsOf(saved)
                           /\ files = FilesOf(saved)

OneRow(rs, l) == \E r \in rs : /\ {q \in rs : q.pid = l.pid /\ q.fid = l.fid} = {r}
                               /\ r.name = l.name /\ r.dir = l.dir
(* Every line can be applied, no query violates a constraint; and a line   *)
(* that deletes or changes an entry finds exactly the row it is about,     *)
(* whatever lines were applied before it.                                  *)
LinesApply ==
  /\ mode # "failed"
  /\ (mode = "patch" /\ doc # <<>> /\ Line.kind = "node" /\ Line.act \in {"-", "*"} /\ Line.pid # 0)
       => OneRow(files, Line)
=============================================================================
