-------------------------------- MODULE Dump --------------------------------
(***************************************************************************)
(* Dumping the database, and telling from a dump which shares are broken   *)
(* (misc/save/dump.py).  The dump of a share is the output of sqlscan, a   *)
(* scanner whose walker reads the rows of paths and files                  *)
(* (scanners/sqlscan/sqlwk.c) instead of a share; with 'diff' it is given  *)
(* the save of the last scan like any other scanner.  Dumps are made while *)
(* no spider runs, so this is made of operators on the committed rows.     *)
(***************************************************************************)
EXTENDS TreePatch, Pages

sqlwk_readdir(db, id) == {r \in db.files : r.pid = id}
sqlwk_query_child(db, id, name) ==
  (CHOOSE r \in sqlwk_readdir(db, id) : r.name = name).dir

(* What the walker finds in directory id.  It can enter every directory,   *)
(* also one that could not be entered on the share and is empty here.      *)
RECURSIVE Walked(_, _)
Walked(db, id) ==
  LET R == sqlwk_readdir(db, id)
      D == {r \in R : r.dir # 0}
  IN Content([n \in {r.name : r \in D} |-> Walked(db, sqlwk_query_child(db, id, n))],
             [n \in {r.name : r \in R \ D} |-> (CHOOSE r \in R : r.name = n).size], 0)

dump_share(db) == ScanAll(Walked(db, 1)).fresh

(* With the save: the line of its md5, the patch, the listing.             *)
DumpOf(out) == (IF out.diff THEN <<[kind |-> "md5", act |-> "*"]>> ELSE <<>>) \o out.patch \o out.fresh
dump_share_diff(db) == DumpOf(ScanDiff(Walked(db, 1)))

\* the line of the md5 is taken for the first line of a patch
zero_diff_first(dump) == Head(dump).act \notin {"+", "-", "*"}
zero_diff(dump) == Head(dump).act # "*" \/ dump[2].act \notin {"+", "-", "*"}

-----------------------------------------------------------------------------
Reads(save, r) == r.ok /\ Full(r.tree) = save
Repeats(dump, save) == zero_diff(dump) /\ Tail(dump) = save
ShownBy(listing) == ShownOf(PathsOf(listing), FilesOf(listing))
\* the rows without one of them, or with a file of another size
Damaged ==
  {[Committed EXCEPT !.files = @ \ {r}] : r \in files}
    \cup {[Committed EXCEPT !.files = (@ \ {r}) \cup {[r EXCEPT !.size = @ + 1]}] :
            r \in {q \in files : q.dir = 0}}

(* "Dumping with patches could be used to find shares with broken trees"   *)
(* (misc/save/README:41-48): after every scan, patched or not, the save    *)
(* can be read back, and the dump with it has an empty patch and repeats   *)
(* it line by line; and were any entry lost, or the size of a file wrong,  *)
(* it would not.  A database restored from dumps without the saves shows   *)
(* what it showed before, though its directories have other ids: the       *)
(* spider loads the dump as the complete listing of the share.             *)
IntegrityChecked ==
  mode = "idle" =>
    /\ Reads(saved, Rebuild(saved))
    /\ Repeats(dump_share_diff(Committed), saved)
    /\ \A db \in Damaged : ~zero_diff(dump_share_diff(db))
    /\ ShownBy(dump_share(Committed)) = Shown
=============================================================================
