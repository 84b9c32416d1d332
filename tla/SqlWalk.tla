--------------------------------- MODULE SqlWalk ---------------------------------
(***************************************************************************)
(* The walker over the rows of the database (scanners/sqlscan/sqlwk.c),    *)
(* driven by the 'dir tree' engine.  Its position is a treepath_id, here   *)
(* the directory with that id; going down takes two queries and going up   *)
(* one, and each may fail, because the connection is lost or the rows      *)
(* changed.                                                                *)
(***************************************************************************)
EXTENDS ShareTree

VARIABLES
  saved, pc, path, left, entered, refused,   \* the engine, see Walk
  treepath,    \* treepath_id
  res          \* subdirectories in the rows of the last query not yet read

walk == <<saved, pc, path, left, entered, refused>>
vars == <<saved, pc, path, left, entered, refused, treepath, res>>

W == INSTANCE Walk

Init == W!Init /\ treepath = <<>> /\ res = Kids(<<>>)

-----------------------------------------------------------------------------
(* sqlwk_query forgets the rows of the query before.                       *)
ReadDir ==
  \/ path \notin Beyond \cup Big /\ W!Enter(Listed(path, res)) /\ res' = {} /\ UNCHANGED treepath
  \/ path \in Beyond /\ W!Enter({}) /\ UNCHANGED <<treepath, res>>
  \/ /\ path \in Big
     /\ \E kids \in SUBSET res : W!Enter(Listed(path, kids)) /\ res' = res \ kids
     /\ UNCHANGED treepath

GoChild(n) ==
  /\ Append(treepath, n) \in Share
  /\ W!Descend(n)
  /\ treepath' = Append(treepath, n)
  /\ res' = Kids(treepath')

(* sqlwk_query_child fails: nothing has changed but the rows.              *)
NoChild(n) == W!Refuse(n) /\ res' = {} /\ UNCHANGED treepath

(* sqlwk_query_opendir fails: the id is already that of the child.         *)
NoRows(n) ==
  /\ Append(treepath, n) \in Share
  /\ W!Refuse(n)
  /\ treepath' = Append(treepath, n)
  /\ res' = {}

GoParent == W!Ascend /\ treepath' = Parent(treepath) /\ res' = {}

(* sqlwk_query_parent fails: the program ends (dt_go_sibling_or_parent,    *)
(* dt_go_sop_diff), or the engine goes up alone (dt_diff_add_tree).        *)
NoParent ==
  \/ W!AscendFails /\ res' = {} /\ UNCHANGED treepath
  \/ W!AddedTree(path) /\ W!Ascend /\ res' = {} /\ UNCHANGED treepath

Finish == W!Finish /\ UNCHANGED <<treepath, res>>

Next ==
  \/ ReadDir
  \/ \E n \in Names : GoChild(n) \/ NoChild(n) \/ NoRows(n)
  \/ GoParent \/ NoParent \/ Finish

Spec == Init /\ [][Next]_vars

-----------------------------------------------------------------------------
(* TYPE: all variables; the position is always a directory of the share,   *)
(* whatever was asked for from a wrong one.                                *)
TypeOK ==
  /\ W!TypeOK
  /\ treepath \in Share
  /\ res \subseteq Names

(* SAFETY: through all failures the position stays at least as deep as the *)
(* directory of the engine, so that the parent of the root is never asked  *)
(* for, and a directory that is read is read where the position is.        *)
NeverAboveTree ==
  /\ Len(treepath) >= Len(path)
  /\ pc = "enter" => res = Kids(treepath)

(* dt.h:68: "If gochild() fails then current directory should not be       *)
(* changed."                                                               *)
RefusedChildKeepsDirectory == [][refused' # refused => treepath' = treepath]_vars
=============================================================================
