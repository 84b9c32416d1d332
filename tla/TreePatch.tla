------------------------------ MODULE TreePatch ------------------------------
(***************************************************************************)
(* The scanner and the spider together: what is found on a share, the      *)
(* listing and the patch printed of it (modules Listing and this one), and *)
(* the rows that are made of them (module Rows).                           *)
(***************************************************************************)
EXTENDS Listing, Rows

CONSTANTS Contents(_, _),  \* what may be found on the share after a content, in the n-th scan
          MaxScans         \* bound: number of scans
ASSUME TreePatchAssumption == MaxScans \in Nat

VARIABLES
  content,   \* what the last scan found on the share
  scans      \* number of scans so far

vars == <<content, rowsVars, scans>>

Empty == Content(<<>>, <<>>, 0)
Root == Entry(1, 0)
Init == /\ content = Empty
        /\ saved = Full(Root)
        /\ fresh = <<>> /\ patch = <<>> /\ doc = <<>>
        /\ mode = "idle"
        /\ paths = (1 :> PathRow(<<>>))
        /\ files = {} /\ newfiles = {} /\ fquery = {}
        /\ buffer = <<>>
        /\ shareSize = 0
        /\ scans = 0

-----------------------------------------------------------------------------
(* dtread_readfile.  table has the directories whose own line has not been *)
(* read; a directory's line moves it into its parent.                      *)
Unreadable == [table |-> <<>>, ok |-> FALSE]
ReadLine(acc, line) ==
  LET t == acc.table IN
  IF ~acc.ok THEN acc
  ELSE IF line.kind = "path"
    THEN [acc EXCEPT !.table = (line.id :> Entry(line.id, 0)) @@ t]
  ELSE IF line.pid # 0 /\ line.pid \notin DOMAIN t THEN Unreadable
  ELSE IF line.dir = 0
    THEN [acc EXCEPT !.table[line.pid].files =
                       (line.name :> File(line.fid, line.size)) @@ @]
  ELSE IF line.dir \notin DOMAIN t THEN Unreadable
  ELSE LET e == [t[line.dir] EXCEPT !.fid = line.fid, !.size = line.size, !.items = line.items]
       IN IF line.pid = 0 THEN [acc EXCEPT !.table[line.dir] = e]
          ELSE [acc EXCEPT !.table = Restrict([t EXCEPT ![line.pid].dirs = (line.name :> e) @@ @],
                                              DOMAIN t \ {line.dir})]

\* ids are given out from the highest one on
RebuildOneLess(lines) ==
  LET r == FoldLeft(ReadLine, [table |-> <<>>, ok |-> TRUE], lines)
  IN [ok    |-> r.ok /\ DOMAIN r.table = {1},
      tree  |-> IF 1 \in DOMAIN r.table THEN r.table[1] ELSE Root,
      maxid |-> Max({1} \cup {lines[i].id : i \in {j \in DOMAIN lines : lines[j].kind = "path"}}) - 1]

(* The rebuilt tree and the highest id in the file.                        *)
Rebuild(lines) ==
  LET r == FoldLeft(ReadLine, [table |-> <<>>, ok |-> TRUE], lines)
  IN [ok    |-> r.ok /\ DOMAIN r.table = {1},
      tree  |-> IF 1 \in DOMAIN r.table THEN r.table[1] ELSE Root,
      maxid |-> Max({0} \cup {lines[i].id : i \in {j \in DOMAIN lines : lines[j].kind = "path"}})]

(* dt_reverse and dt_diff: the listing, and the patch (no lines when there *)
(* is none).                                                               *)
ScanAll(c) == [fresh |-> Full(Explore(c, Root, 2, <<>>).tree), patch |-> <<>>, diff |-> FALSE]
Patched(r) == [fresh |-> Full(r.tree), patch |-> r.lines, diff |-> TRUE]
ScanAgainst(old, c) ==
  IF old.ok
  THEN Patched(DiffDir(0, old.tree, Entry(old.tree.id, 0), c, <<>>, <<>>, old.maxid + 1))
  ELSE ScanAll(c)
ScanDiff(c) == ScanAgainst(Rebuild(saved), c)

(* The scanner runs, with the saved listing or without one.                *)
Scanned(out) == /\ fresh' = out.fresh
                /\ patch' = out.patch
                /\ mode' = IF out.diff THEN "scanned" ELSE "full"
Scan(c, withSave) ==
  /\ mode = "idle"
  /\ scans < MaxScans
  /\ scans' = scans + 1
  /\ content' = c
  /\ Scanned(IF withSave THEN ScanDiff(c) ELSE ScanAll(c))
  /\ UNCHANGED <<saved, doc, rows, buffer, shareSize>>

Next == \/ \E c \in Contents(content, scans + 1), withSave \in BOOLEAN : Scan(c, withSave)
        \/ Update /\ UNCHANGED <<content, scans>>
Spec == Init /\ [][Next]_vars

-----------------------------------------------------------------------------
(* Reference definitions: what a user should be shown of the content.      *)
ShownOf(ps, fs) ==
  {[path  |-> Append(ps[r.pid].path, r.name), size |-> r.size, dir |-> r.dir # 0,
    items |-> IF r.dir = 0 THEN 0 ELSE ps[r.dir].items] : r \in fs}
Shown == ShownOf(paths, files)
(* The content without what is found under recursive links.                *)
RECURSIVE Pruned(_, _)
Pruned(c, above) ==
  LET chain == Append(above, Seen(ReadAll(c, Root, 0)))
  IN IF RecursiveLink(chain) THEN Empty
     ELSE [c EXCEPT !.dirs = [n \in DOMAIN c.dirs |-> Pruned(c.dirs[n], chain)]]
RECURSIVE TotalSize(_)
TotalSize(c) == MapThenSumSet(LAMBDA n : c.files[n], DOMAIN c.files)
                  + MapThenSumSet(LAMBDA n : TotalSize(c.dirs[n]), DOMAIN c.dirs)
RECURSIVE Found(_, _)
Found(c, path) ==
  {[path |-> Append(path, n), size |-> c.files[n], dir |-> FALSE, items |-> 0] : n \in DOMAIN c.files}
    \cup {[path |-> Append(path, n), size |-> TotalSize(c.dirs[n]), dir |-> TRUE,
           items |-> Items(c.dirs[n])] : n \in DOMAIN c.dirs}
    \cup UNION {Found(c.dirs[n], Append(path, n)) : n \in DOMAIN c.dirs}

-----------------------------------------------------------------------------
(* After every scan the index shows every file and directory of the share, *)
(* except those under recursive links, and no others, with their sizes and *)
(* numbers of items, and the size of the share is the sum of the sizes of  *)
(* its files.                                                              *)
ContentIndexed ==
  mode = "idle" => LET found == Pruned(content, <<>>)
                   IN /\ Shown = Found(found, <<>>)
                      /\ shareSize = TotalSize(found)
                      /\ paths[1].size = shareSize /\ paths[1].items = Items(found)

(* However deep a share repeats itself, in a cycle of one directory or of  *)
(* more, and whatever patches have been applied: on no path in the         *)
(* database do directories that repeat those further up, entry by entry,   *)
(* count as many entries as the threshold.                                 *)
Entries(d) == {<<r.name, IF r.dir = 0 THEN r.size ELSE 0>> : r \in {q \in files : q.pid = d}}
Dir(path) == CHOOSE id \in DOMAIN paths : paths[id].path = path
LoopsAreCut ==
  mode = "idle" =>
    \A id \in DOMAIN paths :
      LET path == paths[id].path
          here(i) == Entries(Dir(SubSeq(path, 1, i)))
      IN \A j \in 1..Len(path), top \in 0..Len(path) :
           (top >= j /\ \A i \in top..Len(path) : here(i) # {} /\ here(i) = here(i - j))
             => MapThenSumSet(LAMBDA i : Cardinality(here(i)), top..Len(path)) < RecursionThreshold

(* The scanner keeps its contract: every listing is the listing of a tree  *)
(* and every patch leads from the saved listing to the new one, so that    *)
(* whatever is proved of the rows under AnyScan holds with this scanner.   *)
ContractKept == RowsInit /\ [][RowsNext]_rowsVars
=============================================================================
