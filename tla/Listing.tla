------------------------------- MODULE Listing -------------------------------
(***************************************************************************)
(* What a low-level scanner prints: the 'dir tree' engine of libuguu       *)
(* (scanners/libuguu/dt.c) and the reader of saved listings (dtread.c).    *)
(*                                                                         *)
(* A listing is a sequence of lines.  dt_reverse prints the complete       *)
(* content of a share; dt_diff reads a saved listing, prints what has to   *)
(* be done to it, and then the complete content again.  Both are TLC-only  *)
(* definitions: they recurse over trees.                                   *)
(*                                                                         *)
(* Names are numbers, ordered like strcmp orders the names; 0 is the empty *)
(* name of the root.  A list of dt_dentry structures sorted by name is a   *)
(* function from names.                                                    *)
(***************************************************************************)
EXTENDS Naturals, Sequences, FiniteSets, SequencesExt, FiniteSetsExt, Functions, TLC

CONSTANTS
  MaxDirs,              \* DT_MAX_DIRS
  RecursionThreshold    \* DT_RECURSION_THRESHOLD
ASSUME MaxDirs \in Nat \ {0} /\ RecursionThreshold \in Nat \ {0}

(* What a walker finds in a directory: open, whether go(DT_GO_CHILD) into  *)
(* it succeeds; subdirectories and files by name; twins, how many of the   *)
(* subdirectories are reported a second time under the same name.          *)
Content(dirs, files, twins) ==
  [open |-> TRUE, dirs |-> dirs, files |-> files, twins |-> twins]
Closed == [Content(<<>>, <<>>, 0) EXCEPT !.open = FALSE]

Ascending(S) == SetToSortSeq(S, <)
Rank(x, S) == Cardinality({y \in S : y < x})

(* struct dt_dentry of a directory, and of a file.                         *)
Entry(id, fid) == [id |-> id, fid |-> fid, size |-> 0, items |-> 0, dirs |-> <<>>, files |-> <<>>]
File(fid, size) == [fid |-> fid, size |-> size]

Items(c) == Cardinality(DOMAIN c.dirs) + c.twins + Cardinality(DOMAIN c.files)
\* without the subdirectories
SubsizeOfFiles(e) == MapThenSumSet(LAMBDA n : e.files[n].size, DOMAIN e.files)
Subsize(e) == MapThenSumSet(LAMBDA n : e.dirs[n].size, DOMAIN e.dirs)
                + MapThenSumSet(LAMBDA n : e.files[n].size, DOMAIN e.files)

(* e after dt_readdir: the subdirectories get the next free ids and fids   *)
(* in the order of their names, the files the fids that follow; a twin is  *)
(* dropped but counted.  A directory that is not entered, or whose id is   *)
(* beyond the limit, stays as it is.                                       *)
Unread(c, e) == ~c.open \/ e.id > MaxDirs
ReadAll(c, e, next) ==
  LET D == DOMAIN c.dirs F == DOMAIN c.files
  IN [e EXCEPT !.items = Items(c),
               !.dirs  = [n \in D |-> Entry(next + Rank(n, D), Rank(n, D))],
               !.files = [n \in F |-> File(Cardinality(D) + c.twins + Rank(n, F), c.files[n])]]

(* What is compared of a directory that was read: the hash of the names    *)
(* and sizes in it, where no size of a subdirectory is known, and items.   *)
DirNames(e) == Ascending(DOMAIN e.dirs)
FileNames(e) == Ascending(DOMAIN e.files)
Each(names, Op(_)) == [i \in DOMAIN names |-> Op(names[i])]
Seen(e) ==
  [hash  |-> Each(DirNames(e), LAMBDA n : <<n, 0>>)
               \o Each(FileNames(e), LAMBDA n : <<n, e.files[n].size>>),
   items |-> e.items]

(* The last of a chain of directories, from the root on, is taken for a    *)
(* link to a directory j levels above it if it and those above it equal    *)
(* those j levels above them as far up as it takes to count enough items.  *)
RecursiveLinkToParent(chain) ==
  \E m \in 1..(Len(chain) - 1) :
     LET last == (Len(chain) - m + 1)..Len(chain)
     IN /\ \A i \in last : chain[i].hash = chain[i - 1].hash
        /\ MapThenSumSet(LAMBDA i : chain[i].items, last) >= RecursionThreshold
RecursiveLink(chain) ==
  \E j \in 1..(Len(chain) - 1) : \E m \in 1..(Len(chain) - j) :
     LET last == (Len(chain) - m + 1)..Len(chain)
     IN /\ \A i \in last : chain[i].hash = chain[i - j].hash
        /\ MapThenSumSet(LAMBDA i : chain[i].items, last) >= RecursionThreshold

\* a recursive link is left empty
UnlessLink(e, read, above) == IF RecursiveLink(Append(above, Seen(read))) THEN e ELSE read
ReadDir(c, e, next, above) == UnlessLink(e, ReadAll(c, e, next), above)

Entered(acc, n, kid) == [acc EXCEPT !.tree.dirs[n] = kid.tree, !.next = kid.next]
Left(all) == [all EXCEPT !.tree.size = Subsize(all.tree)]

(* dt_walk with a walker and fresh ids: the whole subtree of e; above are  *)
(* the directories e is in.                                                *)
RECURSIVE Explore(_, _, _, _)
ExploreChildren(c, read, next, chain) ==
  FoldLeft(LAMBDA acc, n : Entered(acc, n, Explore(c.dirs[n], acc.tree.dirs[n], acc.next, chain)),
           [tree |-> read, next |-> next + Cardinality(DOMAIN read.dirs)], DirNames(read))
Explore(c, e, next, above) ==
  IF Unread(c, e) THEN [tree |-> e, next |-> next]
  ELSE LET read == ReadDir(c, e, next, above)
       IN Left(ExploreChildren(c, read, next, Append(above, Seen(read))))

-----------------------------------------------------------------------------
(* Lines.  act is the prefix: "" in a complete listing, "+", "-" or "*" in *)
(* a patch.                                                                *)
PathLine(act, id, path) == [kind |-> "path", act |-> act, id |-> id, path |-> path]
DirLine(act, pid, e, n) ==
  [kind |-> "node", act |-> act, pid |-> pid, fid |-> e.fid, size |-> e.size,
   dir |-> e.id, items |-> e.items, name |-> n]
FileLine(act, pid, f, n) ==
  [kind |-> "node", act |-> act, pid |-> pid, fid |-> f.fid, size |-> f.size,
   dir |-> 0, items |-> 0, name |-> n]

(* Printing the subtree of e: entering a directory, the paths of its       *)
(* subdirectories and its files; leaving it, its subdirectories, whose     *)
(* sizes are known by then.                                                *)
RECURSIVE WalkLines(_, _, _)
WalkLines(act, e, path) ==
  Each(DirNames(e), LAMBDA n : PathLine(act, e.dirs[n].id, Append(path, n)))
    \o Each(FileNames(e), LAMBDA n : FileLine(act, e.id, e.files[n], n))
    \o FlattenSeq(Each(DirNames(e), LAMBDA n : WalkLines(act, e.dirs[n], Append(path, n))))
    \o Each(DirNames(e), LAMBDA n : DirLine(act, e.id, e.dirs[n], n))

(* dt_reverse, dt_reverse_p                                                *)
Full(root) == <<PathLine("", root.id, <<>>)>> \o WalkLines("", root, <<>>)
                \o <<DirLine("", 0, root, 0)>>

(* dt_diff_add_tree, dt_diff_delete_tree: the walk that deletes prints no  *)
(* files and only the topmost directory's own line.                        *)
AddTree(pid, e, path) == <<PathLine("+", e.id, path)>> \o WalkLines("+", e, path)
                           \o <<DirLine("+", pid, e, Last(path))>>
RECURSIVE DeletePaths(_, _)
DeletePaths(e, path) ==
  Each(DirNames(e), LAMBDA n : PathLine("-", e.dirs[n].id, Append(path, n)))
    \o FlattenSeq(Each(DirNames(e), LAMBDA n : DeletePaths(e.dirs[n], Append(path, n))))
DeleteTree(pid, e, path) == <<PathLine("-", e.id, path)>> \o DeletePaths(e, path)
                              \o <<DirLine("-", pid, e, Last(path))>>

-----------------------------------------------------------------------------
(* dt_diff.  old is a directory of the saved tree, new the same directory  *)
(* with the old id; c is what is found there now.  The result has the      *)
(* lines, the new subtree and the next free id.                            *)

(* The merge of the two lists of subdirectories: acc has the lines so far, *)
(* n is a name only in the old list, in both, or only in the new one.      *)
RemoveChild(acc, old, path, n) ==
  [acc EXCEPT !.lines = @ \o DeleteTree(acc.tree.id, old.dirs[n], Append(path, n))]

KeepChild(acc, old, n) == [acc EXCEPT !.tree.dirs[n].id = old.dirs[n].id]

Added(acc, path, n, new) ==
  [Entered(acc, n, new) EXCEPT !.lines = @ \o AddTree(acc.tree.id, new.tree, Append(path, n))]
\* the new directory's own id is not set
AddChildNoId(acc, c, path, n, chain) ==
  Added(acc, path, n, Explore(c.dirs[n], acc.tree.dirs[n], acc.next, chain))
AddChild(acc, c, path, n, chain) ==
  Added(acc, path, n, Explore(c.dirs[n], [acc.tree.dirs[n] EXCEPT !.id = acc.next], acc.next + 1, chain))

DiffChild(old, c, path, chain, acc, n) ==
  IF n \notin DOMAIN acc.tree.dirs THEN RemoveChild(acc, old, path, n)
  ELSE IF n \in DOMAIN old.dirs THEN KeepChild(acc, old, n)
  ELSE AddChild(acc, c, path, n, chain)

\* a changed file is printed with its new number
DiffFileNewFid(old, new, n) ==
  IF n \notin DOMAIN new.files THEN <<FileLine("-", old.id, old.files[n], n)>>
  ELSE IF n \notin DOMAIN old.files THEN <<FileLine("+", new.id, new.files[n], n)>>
  ELSE IF old.files[n].size = new.files[n].size THEN <<>>
  ELSE <<FileLine("*", old.id, new.files[n], n)>>

(* The merge of the two lists of files (dt_list_diff): a change is printed *)
(* with the number the file has in the saved tree.                         *)
DiffFile(old, new, n) ==
  IF n \notin DOMAIN new.files THEN <<FileLine("-", old.id, old.files[n], n)>>
  ELSE IF n \notin DOMAIN old.files THEN <<FileLine("+", new.id, new.files[n], n)>>
  ELSE IF old.files[n].size = new.files[n].size THEN <<>>
  ELSE <<FileLine("*", old.id, File(old.files[n].fid, new.files[n].size), n)>>

\* the directory is announced after its changes
AnnounceLast(e, path, changes) ==
  IF changes = <<>> THEN <<>> ELSE Append(changes, PathLine("*", e.id, path))
(* dt_printdir_once: the first change in a directory announces it.         *)
Announce(e, path, changes) ==
  IF changes = <<>> THEN <<>> ELSE <<PathLine("*", e.id, path)>> \o changes

(* dt_on_l_diff: with the number the directory has in the saved tree.      *)
Resized(pid, old, new, n) ==
  IF old.size = new.size /\ old.items = new.items THEN <<>>
  ELSE <<DirLine("*", pid, [old EXCEPT !.size = new.size, !.items = new.items], n)>>

(* Entering a directory both lists have: the changes in it.                *)
DiffHere(old, read, c, path, chain, next) ==
  LET kids == FoldLeft(LAMBDA acc, n : DiffChild(old, c, path, chain, acc, n),
                       [tree |-> read, lines |-> <<>>, next |-> next],
                       Ascending(DOMAIN old.dirs \cup DOMAIN read.dirs))
      files == FoldLeft(LAMBDA acc, n : acc \o DiffFile(old, read, n), <<>>,
                        Ascending(DOMAIN old.files \cup DOMAIN read.files))
  IN [kids EXCEPT !.lines = Announce(read, path, @ \o files)]
EnteredDiff(acc, n, kid) == [Entered(acc, n, kid) EXCEPT !.lines = @ \o kid.lines]
LeftDiff(pid, old, path, all) ==
  [all EXCEPT !.lines = @ \o Resized(pid, old, all.tree, IF path = <<>> THEN 0 ELSE Last(path))]

(* Entering, going through the children both have, leaving.  The ids       *)
(* dt_readdir gives are overwritten.  A directory that cannot be entered   *)
(* is compared with an empty one.                                          *)
RECURSIVE DiffDir(_, _, _, _, _, _, _)
DiffChildren(old, here, c, path, chain) ==
  FoldLeft(LAMBDA acc, n : EnteredDiff(acc, n, DiffDir(old.id, old.dirs[n], acc.tree.dirs[n], c.dirs[n],
                                                       Append(path, n), chain, acc.next)),
           here, Ascending(DOMAIN old.dirs \cap DOMAIN here.tree.dirs))
DiffRead(pid, old, read, c, path, chain, next) ==
  LeftDiff(pid, old, path,
           Left(DiffChildren(old, DiffHere(old, read, c, path, chain, next), c, path, chain)))
DiffDir(pid, old, new, c, path, above, next) ==
  LET read == IF Unread(c, new) THEN new ELSE ReadDir(c, new, 0, above)
  IN DiffRead(pid, old, read, c, path, Append(above, Seen(read)), next)
=============================================================================
