-------------------------------- MODULE Pages --------------------------------
(***************************************************************************)
(* What the web interface shows of one share: the pages of a directory     *)
(* (webuguu/vfs/views.py share), the pages of a search                     *)
(* (webuguu/search/views.py do_search) and the links between them.         *)
(*                                                                         *)
(* A link carries the path of a directory, its id and the number of a      *)
(* page.  The interface only reads what the spider has committed, so it is *)
(* made of operators on rows of paths and files: db is [paths, files].     *)
(* Links outlive the rows they were made from: they are bookmarked, and a  *)
(* page may be open while a scan is committed.                             *)
(***************************************************************************)
EXTENDS Rows

CONSTANT PerPage   \* vfs_items_per_page, search_items_per_page (50)
ASSUME PagesAssumption == PerPage \in Nat \ {0}

Committed == [paths |-> paths, files |-> files]

(* offset_prepare and generate_go_bar: the page a request gets, and the    *)
(* pages that page links to.                                               *)
PageOf(fid) == fid \div PerPage
OffsetPrepare(items, page) == Max({0, Min({(items - 1) \div PerPage, page})}) * PerPage
GoBar(items, page) ==
  LET last == (IF items > 0 THEN items - 1 ELSE items) \div PerPage
      left == Max({0, page - 4})
      right == Min({last, page + 4})
  IN Max({0, left - (page + 4 - right)})..Min({last, right + (left - (page - 4))})

-----------------------------------------------------------------------------
NoLink == [path |-> <<>>, p |-> 0, o |-> 0]
Error == [dir |-> 0, entries |-> {}, bar |-> {}, up |-> NoLink]

\* the id in the link is believed
DetectPathById(db, path, p) ==
  IF p \in DOMAIN db.paths THEN p
  ELSE LET ids == {id \in DOMAIN db.paths : db.paths[id].path = path}
       IN IF ids = {} THEN 0 ELSE CHOOSE id \in ids : TRUE
(* The directory a request means: the one with the id if it still has the  *)
(* path, or else, after a redirection, the one with the path.              *)
DetectPath(db, path, p) ==
  LET ids == {id \in DOMAIN db.paths : db.paths[id].path = path}
  IN IF p \in ids THEN p ELSE IF ids = {} THEN 0 ELSE CHOOSE id \in ids : TRUE

(* The first PerPage of the entries in rs, in the order of their numbers.  *)
FirstOf(rs) == {r \in rs : Cardinality({q \in rs : q.fid < r.fid}) < PerPage}
\* entries past the first of the page
ListFilesAfter(db, d, offset) == FirstOf({r \in db.files : r.pid = d /\ r.fid > offset})
(* Entries are listed from the one with the first number of the page on.   *)
ListFiles(db, d, offset) == FirstOf({r \in db.files : r.pid = d /\ r.fid >= offset})

\* always the first page
FastUpFirst(db, d) ==
  LET row == db.paths[d] IN
  IF row.parent = 0 THEN NoLink ELSE [path |-> Front(row.path), p |-> row.parent, o |-> 0]
FastUp(db, d) ==
  LET row == db.paths[d] IN
  IF row.parent = 0 THEN NoLink
  ELSE [path |-> Front(row.path), p |-> row.parent, o |-> PageOf(row.fid)]

(* path_goup: the ancestor so many levels up and the number of the entry   *)
(* on the way to it; refused above the root.                               *)
Above(db, id) == IF id \in DOMAIN db.paths THEN db.paths[id].parent ELSE 0
path_goup(db, id, levels) ==
  LET at[n \in 0..levels] == IF n = 0 THEN id ELSE Above(db, at[n - 1])
  IN IF at[levels] = 0 THEN [id |-> 0, fid |-> 0]
     ELSE [id |-> at[levels], fid |-> db.paths[at[levels - 1]].fid]

(* The queries of one page are transactions of their own: the directory is *)
(* found in db and its entries are read from later, the same rows unless a *)
(* scan was committed in between.                                          *)
share(db, later, link) ==
  LET d == DetectPath(db, link.path, link.p) IN
  IF d = 0 THEN Error
  ELSE LET offset == OffsetPrepare(db.paths[d].items, link.o)
       IN [dir |-> d, entries |-> ListFiles(later, d, offset),
           bar |-> GoBar(db.paths[d].items, PageOf(offset)), up |-> FastUp(db, d)]

share_goup(db, path, p, levels) ==
  LET up == path_goup(db, p, levels)
  IN IF up.id = 0 THEN Error
     ELSE share(db, db, [path |-> path, p |-> up.id, o |-> PageOf(up.fid)])

(* A search for a name, largest first: what is found is counted over files *)
(* alone and listed joined with paths, a page at a time.                   *)
sqlwhere(db, name) == {r \in db.files : r.name = name}
sqlquery(db, name) == {r \in sqlwhere(db, name) : r.pid \in DOMAIN db.paths}

sqlorder(a, b) ==
  \/ a.size > b.size
  \/ a.size = b.size /\ a.pid < b.pid
  \/ a.size = b.size /\ a.pid = b.pid /\ a.fid < b.fid

do_search(db, name, page) ==
  LET offset == OffsetPrepare(Cardinality(sqlwhere(db, name)), page)
      found == sqlquery(db, name)
  IN {r \in found : Cardinality({q \in found : sqlorder(q, r)}) \in offset..(offset + PerPage - 1)}
pathlink(db, r) == [path |-> db.paths[r.pid].path, p |-> r.pid, o |-> PageOf(r.fid)]
filelink(db, r) == [path |-> Append(db.paths[r.pid].path, r.name), p |-> r.dir, o |-> 0]

-----------------------------------------------------------------------------
Page(link) == share(Committed, Committed, link)

(* The entries of a directory are numbered 0, 1, 2, ..., and every row of  *)
(* paths repeats the number of its entry.  So the pages of a directory     *)
(* show every entry of it once, each page has links to the pages next to   *)
(* it, and the link of a search result leads to the page with it; and the  *)
(* pages of a search show every result once, because the order has no      *)
(* ties.                                                                   *)
LastPage(items) == IF items = 0 THEN 0 ELSE (items - 1) \div PerPage
DirAddsUp(d) ==
  LET entries == {r \in files : r.pid = d}
      pages == 0..LastPage(paths[d].items)
      view(o) == Page([path |-> paths[d].path, p |-> 0, o |-> o])
  IN /\ {r.fid : r \in entries} = 0..(Cardinality(entries) - 1)
     /\ paths[d].items = Cardinality(entries)
     /\ d # 1 => \E r \in files : r.dir = d /\ r.pid = paths[d].parent /\ r.fid = paths[d].fid
     /\ \A r \in entries :
          /\ {o \in pages : r \in view(o).entries} = {PageOf(r.fid)}
          /\ r \in Page(pathlink(Committed, r)).entries
     /\ \A o \in pages : view(o).bar \subseteq pages /\ {o, o + 1} \cap pages \subseteq view(o).bar
     /\ \A o \in pages : o + 1 \in pages => o \in view(o + 1).bar
SearchAddsUp(name) ==
  LET found == sqlwhere(Committed, name)
      pages == 0..LastPage(Cardinality(found))
  IN /\ \A a, b \in found : a # b => (sqlorder(a, b) <=> ~sqlorder(b, a))
     /\ UNION {do_search(Committed, name, page) : page \in pages} = found
PagesAddUp == mode = "idle" => /\ \A d \in DOMAIN paths : DirAddsUp(d)
                               /\ \A name \in {r.name : r \in files} : SearchAddsUp(name)

(* Down and up again: the link to a subdirectory opens it, its link "go    *)
(* up" opens the page of its parent that shows it, and every ancestor can  *)
(* be reached in one request, on the page with the way back.               *)
LinkLeads(r) ==
  LET view == Page(filelink(Committed, r))
      path == paths[r.dir].path
  IN /\ view.dir = r.dir
     /\ r \in Page(view.up).entries
     /\ \A up \in 1..Len(path) :
          LET n == Len(path) - up
          IN \E q \in share_goup(Committed, SubSeq(path, 1, n), r.dir, up).entries :
               q.dir # 0 /\ paths[q.dir].path = SubSeq(path, 1, n + 1)
LinksLead == mode = "idle" => \A r \in files : r.dir # 0 => LinkLeads(r)

(* A link made before a scan was committed leads to the directory of the   *)
(* same path after it, though ids and numbers have changed, on a page that *)
(* has entries if the directory has; or says that there is none.  And a    *)
(* page that finds its directory before a patch is committed and reads the *)
(* entries after that shows entries of this directory and no other.        *)
Before == [paths |-> PathsOf(saved), files |-> FilesOf(saved)]
LinkSurvives(d) ==
  LET path == Before.paths[d].path
      here == {id \in DOMAIN paths' : paths'[id].path = path}
      torn == share(Before, Committed', [path |-> path, p |-> d, o |-> 0])
  IN /\ \A o \in 0..Before.paths[d].items :
          LET view == share(Committed', Committed', [path |-> path, p |-> d, o |-> o])
          IN /\ here = {} => view = Error
             /\ \A id \in here : view.dir = id /\ (view.entries = {} => paths'[id].items = 0)
     /\ mode = "patch" => \A r \in torn.entries : paths'[r.pid].path = path
OldLinksLead ==
  [][mode # "idle" /\ mode' = "idle" => \A d \in DOMAIN Before.paths : LinkSurvives(d)]_rowsVars
=============================================================================
