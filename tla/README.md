# A TLA+ model of uguu

uguu indexes the files that computers of a local network share over smb, ftp
and http(webdav).  This directory holds TLA+ modules that model the parts of
it where order, failure or arithmetic matter, configurations with which TLC
checks them on small instances, and proofs that TLAPS checks for every
instance.  Paths in this file are relative to the repository.

## 1. The system

| part | source | state it keeps | operations |
|---|---|---|---|
| database | `bin/dbinit.py` | rows of shares, trees (with the md5 of the last document), paths, files; row locks | triggers `share_insert`, `share_update`; function `push_path_files`; cascading deletes |
| spider | `bin/spider.py` | one transaction, the scanner's output in a temporary file, `bin/save/*` | pick a due share, scan it, apply the output as a patch or as a whole, save the output, commit |
| patch application | `bin/spider.py` `scan_line_patch`, `push_path_files` | rows of paths, files and the temporary newfiles, `paths_buffer` | one per kind of line |
| tree engine | `scanners/libuguu/dt.c` | the tree of directories under construction, current directory, ids | walk a share, print a full listing, or a patch against an old one |
| saved tree reader | `scanners/libuguu/dtread.c` | old tree, table of directories by id | rebuild a tree from a saved document |
| hash table | `scanners/libuguu/cuckoo.c` | two tables, size, hash parameters | insert, lookup, delete, rehash |
| small containers | `scanners/libuguu/buf.c`, `stack.c`, `wbuf.h`, `bitcollect.c` | byte buffers, a stack, a set of numbers (not used by any program) | append, chop, push, pop, ... |
| walkers | `scanners/smbscan`, `smbscanwin`, `curlftpscan`, `webdavscan`, `ftpscan`, `sqlscan` | a connection and the current directory on it | readdir, go to child or parent |
| scanner programs | the files with `main` beside the walkers, `scanners/libuguu/estat.h` | none | read the command line, connect, probe or walk, exit with a status |
| ftp client | `scanners/ftpscan/FtpSockLib.cpp` | control and data connection, unread replies | commands with retries, active and passive transfers |
| lookup | `bin/lookup.py` | per engine: new shares, shares to check | find hosts, test them, insert, update, delete shares |
| pinger | `bin/pinger.py` | none | ping hosts, set shares on- or offline |
| network helpers | `bin/network.py` | name cache, a select loop | connect to many hosts, resolve names |
| web interface | `webuguu/` | none (reads only) | search, browse a share page by page |
| maintenance | `misc/save/` | dumps | dump the database with `sqlscan`, check it against the saves, restore it |

How they interact: cron starts spiders, lookups and pingers, which share only
the database (autocommitted statements; the spider alone uses a longer
transaction and `SELECT ... FOR UPDATE NOWAIT`) and the directory `bin/save`,
which no lock protects.  A spider runs one scanner as a child process and reads
its output to the end; a scanner is `dt.c` with one walker, and reports failure
by its exit status.  The web interface reads what is committed.

What is hard in it, and what makes each part correct:

- **spider**: several spiders, lookups, pingers and people with `rm` interleave
  at every statement; a scan takes hours, its claim (`next_scan`) 12; a process
  may die anywhere, also between the replacement of the saved document and the
  commit.  Correct: one spider at a time writes a share; a patch is applied only
  to the rows it was made for; readers see complete scans only, in order;
  nothing stays locked and no due share is forgotten.
- **patch application with tree engine and reader**: a patch names entries by
  the numbers of an old listing while its own insertions renumber the rows;
  order of lines matters both to the patch and to the one-pass reader.
  Correct: after every scan the rows are those a full load would give and show
  exactly the share; what was printed can be read back; no line hits a wrong row.
- **tree walk and walkers**: `dt.h` promises walkers in which order `go` and
  `readdir` are called and asks that a refused `go` change nothing; each walker
  keeps a url or path buffer, an open directory or a transfer in step with it.
  Correct: the position on the connection is the position in the tree.
- **scanner programs**: spiders and lookups believe the exit status.  Correct: a
  scan that exits with success has told everything.
- **hash table**: displaced elements are in nobody's table while an insertion
  runs; growing, shrinking and rehashing call insertion again.  Correct: it is a
  map; no element is lost or doubled; at boundaries (empty, one element) too.
- **ftp client**: replies may be late, lost or left unread, and commands are
  retried over new connections.  Correct: a reply is taken for the answer to
  the command it answers.
- **lookup, pinger, network**: answers are matched to shares by host name and
  port; rows change between a SELECT and the statements based on it.  Correct: a
  share is deleted only when unseen for long, and its state is what was pinged.
- **web interface**: pages and "go to" bars are computed from numbers of
  entries, links outlive the rows they were made from, and the queries of one
  page are not one transaction.  Correct: an entry is on the page its link
  names, an old link leads to the directory it was made for or to none.
- **maintenance**: the dump is a scan of the database itself.  Correct: with the
  save it is an empty patch exactly if nothing is broken.

`PROJECT.json` lists each hazard at its line with the properties that cover it,
or says that none does yet.

## 2. Modules

| module | models | state and actions |
|---|---|---|
| `Catalogue` | what the spider promises readers (abstract) | the listing of each share; added, removed, a scan observed, a scan published |
| `Spider` | `bin/spider.py`, with `lookup.py`, `pinger.py`, row locks and cascades as its surroundings | `pc` and `job` are the position in `scan_share` and its variables; one action per statement another process can interleave with, and one per error path |
| `Listing` | `dt_reverse` and `dt_diff` of `dt.c` | operators from the content of a share (and a saved tree) to lines |
| `Rows` | `scan_line_patch`, `push_path_files`, and what a scanner promises the spider | the rows of one share and the lines that are left; one action per kind of line |
| `TreePatch` | `dtread.c`, and the scanner of `Listing` in the place of the promise | what the last scan found; `Rows` does the rest |
| `Pages` | `webuguu/vfs`, `webuguu/search`, `path_goup` | operators from rows and a link to a page |
| `Dump` | `misc/save/dump.py`, `sqlscan` | operators from rows and the save to a dump |
| `ShareTree` | directories as the walks see them | constants |
| `Walk` | `dt_walk` and its callbacks, and what `dt.h` asks of walkers | `path` is `wc->d`, `left` the siblings still to be tried on each level; one action per call of `readdir` and `go` and outcome |
| `UrlWalk` | `smbwk.c` (two of them), `wdwk.c`, `cfwk.c` under `Walk` | `url`, its error flag, the stack of lengths, the listing not yet reported |
| `Scanner` | the programs around the walkers of `UrlWalk` | what the command line asks for, the file with the old tree, how far the program is and its exit status |
| `SqlWalk` | `sqlwk.c` under `Walk` | `treepath`, the rows of the last query |
| `Table` | what a caller of the hash table sees (abstract) | a set of keys |
| `Cuckoo` | `cuckoo.c` | a stack of tables being filled, the element in hand |
| `FtpServer` | an ftp server and the network (external) | commands owed an answer, replies on the wire, the data connection |
| `FtpClient` | `ftpscan.cpp`, `FtpSockLib.cpp` | the engine's variables, what is waited for, retries left |
| `Lookup` | `bin/lookup.py` | rows of shares, position in a run, what it has found |
| `Pinger` | `bin/pinger.py`, `scan_hosts` of `bin/network.py`, beside `Lookup` | states of shares, what was read and answered |
| `SpiderProofs`, `WalkProofs`, `UrlWalkProofs`, `SqlWalkProofs`, `CuckooProofs`, `FtpProofs`, `RowsProofs`, `LookupProofs` (with the pinger) | proofs | |
| `MCSpider`, `MCTreePatch`, `MCUrlWalk`, `MCSqlWalk`, `MCCuckoo`, `MCFtp`, `MCLookup` | symmetry, contents, shares, faults and configurations for TLC | |

Compositions: `UrlWalk`, `SqlWalk` and `FtpClient` run walkers under the engine of
`Walk`; `Scanner` has the programs around `UrlWalk`; `Pinger` runs next to `Lookup`; `TreePatch` puts the scanner of `Listing` before `Rows`; `Pages` and `Dump` read what `Rows`
writes; `Spider` contains what lookups and pingers do to its rows.  Refinements:
`Spider` implements `Catalogue`, `Cuckoo` implements `Table`, `TreePatch` implements
`RowsSpec`, `UrlWalk` (and the ftp client, step by step) implements `Walk`.

`Spider` treats a document as one value and says that a patch made for other
rows leaves `Garbage`; `Rows` and `TreePatch` look into the document and show that a
patch made for the present rows gives the present content (`InSync`,
`ContentIndexed`).  Both use the same interface: the document's base is the
content of the database.

**Spider.**  A share is (protocol, host, port).  Its rows of `shares` and
`trees` live and die together (`share_insert`, `ON DELETE CASCADE`), so one
number `tid` stands for both ids.  `treeLock` is the row lock of
`SELECT ... FOR UPDATE NOWAIT`, `shareLock` the rows a running `DELETE` holds;
`DeleteLocks` and `DeleteCascades` are its two phases.  `save` is the file in
`bin/save`; it is moved, created and written in three steps that no lock and no
transaction covers.  An md5 is represented by the document it is of.  The
statements before `SELECT ... FOR UPDATE` are autocommitted.  Left out: the
text of documents, `patch_fallback` (any patch may be too long), the number of
lines, `last_scan`, priorities of scan types.

**Listing, Rows and TreePatch.**  A content is a nested record: per directory its
subdirectories, its files with sizes, whether it can be entered, and how many
subdirectory names are reported twice.  Names are numbers in the order
`strcmp` gives them.  `Explore` is `dt_walk` with a walker: ids are given when
the parent is read, in the order of names; `WalkLines` is the order of
printing; `DiffDir` is the walk of `dt_diff` over the merged lists.
A directory that refuses `go` takes the same path as one beyond the limit: it
stays empty (dt.c:325, 837, 876).  The saved file also holds the patch lines
of its scan, which `dtread_readline` skips; `saved` leaves them out.
`scan_line_patch` queues queries and `PsycoCache` sends them in blocks; as they
are sent in order and no one else sees the transaction, a queued query is taken
for executed.  Only the collected rows of `files` (`fquery`) overtake nothing
and are overtaken, so they are a variable.  Whether a patch is short enough
depends on the rest of the share: `TakePatch` and `TakeListing` are both
possible.  `mode = "failed"` stands for an exception; what follows it is
modelled in `Spider` (`UpdateViolates`, `Quarantine`).

A directory just read is compared with those above it (`RecursiveLink`): `Seen`
has what its hash is computed from.  `Explore` and `DiffDir` therefore carry the
chain of directories above.  `RecursionThreshold` is 2 in `patch_pass`, the
smallest value with which a cycle takes more than one level.

The scanner and the spider meet in a contract, written down in `Rows`.  A listing is
`Proper`: ids and paths are given once, entries of a directory have different names
and the numbers 0, 1, 2, ..., `items` counts them, a path is made of the names on the
way from the root, and the path of a directory comes before what is in it, that
before the directory's own line.  A patch (`IsPatch`) has
exactly the lines in which the new listing differs from the saved one
(`Difference`), named by the numbers of the saved one, every directory that gains or
loses an entry is announced before them, and entries of both listings keep their
order (`Continues`).  `AnyScan` is any scanner that keeps this; `RowsSpec` is the
spider after any such scans, and needs no tree and no recursion, so that it can be
proved about.  `TreePatch` has `dt.c` instead, and `ContractKept` says that it
keeps the contract.  `Number` gives the number that the loop of `push_path_files`
gives an old row: the first ones that no new row has, in the old order.

**Pages and Dump** read the committed rows, so they are operators, checked in the
states of `TreePatch` in which nothing is being applied.  A page is two queries:
`share(db, later, link)` takes the rows of the first and of the second, and
`OldLinksLead` lets a patch be committed in between.  A page that straddles a
complete load may be empty or wrong; the code does nothing about that.  Search
results in the order "largest first" have no ties, because the order falls back
to ids.  `Walked` is what `sqlwk.c` reports of the rows; the dump is `ScanAll` or
`ScanDiff` of that content.

**Walk, UrlWalk, SqlWalk.**  `Listing` computes what a walk prints; `Walk` is
the walk itself, call by call.  With `saved = {}` it is `dt_full` and
`dt_reverse`; otherwise it is `dt_diff`, which walks directories that are not in
the saved tree first, each by a nested `dt_walk`.  `Read` is `dt_readdir` with a
walker as `dt.h` wants it; the walker modules have their own `ReadDir`, which
reports what *they* would list, and share the engine's other actions.  That a
walker is in the directory the engine believes it is in is therefore something
to show (`ReadsWhereItIs`, `WalkSpec`), and where it fails TLC finds it.
`UrlWalk` covers four walkers with the same design: an url that is extended
and chopped, and a stack of its former lengths.  They differ in when the
listing is fetched (`smb` opens the directory, `webdav` and `curl` fetch it
whole, `smbwin` finds the first file and has a list of the host's shares from
the beginning) and in what a refused or broken fetch leaves behind
(`AfterRefusal`, `Kept`).  An
allocation may fail at every call.  `error` is `buf_str`'s flag: once set it
stays, every further `go(CHILD)` is refused and every `readdir` of a file by
`smb` reports size 0.  `MaxStray` bounds how many elements such failures leave
on the stack.  In `SqlWalk` each query of a `go` may fail.
`ShareTree` has the constants (the directories, which are closed, new, too big).

**Scanner** has one action per exit of `main` and one for each call in it that
may fail: `Usage`, `ConnectFails`, `Probe` (option `-l`), `NoOldTree`, `NoRoot`,
`Return`; `WalkOn` are the steps of `UrlWalk`, of which a time-out ends the
program.  `Asked` is the loop over the arguments with each program's options.
What differs between the four programs only in wording is one action.

**Table and Cuckoo.**  `levels` is the stack of calls of `cuckoo_insert`: the
first level is the caller's table, each other one the new table the level before
it is moved to.  An action is one turn of a loop: an element displaced, a slot of
the old table moved, a table replaced by the new one, an allocation that fails.
The hash functions are any of `Hashes`; a change of them picks another one.
`Table` is the set of keys that a caller sees, and what may become of it when
memory runs out.

**FtpServer and FtpClient.**  The server owes an answer to every command it got
(`owed`), may answer late or twice, refuse, or cut a connection, as far as the set
`faults` of the run allows; `wire` are replies on their way, `netbuff` those the
client received together with an earlier one.  The client has one action per reply it
waits for (`pc` is the command it belongs to), per time-out and per call of the
engine.  The engine's variables are those of `Walk`, which is an instance here:
`WalkSteps` says that with all its retries and reconnections the ftp walker takes
only steps a walker may take.  Modes are STAT, LIST over passive or active data
connections, and `LIST -R` over either (`Rp`, `Ra`), which fills `cache` first.
`select` may time out in the active modes (`SelectTimedOut`), and a late final reply is
swallowed in all but STAT, so that a client may fall out of step (`Punctual` says when
it cannot).  With a codepage (`cp`: option `-C`, or a server without UTF-8) `extend_cache` keeps
only directories that `iconv` *cannot* convert, as its result 0 means success
(`ftpscan.cpp:187`): normally the root is left alone and the scan goes on by STAT
(`NotCached`); where some paths cannot be converted or are too long together
(fault `names`) the cache is any of `Misnamed`.

**Lookup and Pinger.**  A share is a key (protocol, host, port).  `Lookup` has a
run of `lookup.py`: for each engine what it may add, which of that it finds new or
known, the tests, the INSERTs and the UPDATE, and at the end the DELETE of what
was not refreshed; ages are the number of periods passed.  `Pinger` has the
passes of `pinger.py` in the same database: a group of shares is read, hosts answer or
do not, blocks of rows are updated.  Servers come, go and change all the time.

## 3. Runs

| run | question | bounds | distinct states |
|---|---|---|---|
| `spider_pass` | all safety properties of the spider and the refinement of `Catalogue` | two spiders (enough for every pair of conflicting steps), a lookup; either one share that changes from one listing to another, with `MaxTicks` 2 (a claim can expire during a scan) and `MaxInserts` 2 (it can be deleted and come back), or two shares with one listing and one tick (a `DELETE` over rows of two spiders) | 1,270,000 |
| `spider_live` | liveness | one share, one listing, `MaxTicks` 2, no symmetry | 26,000 |
| `spider_saves` | a statement of the documentation that does not hold | as `spider_pass` | violated |
| `patch_pass` | the database after patches and loads, pages, links and dumps | two scans of one of 81 contents on two levels, or of three levels of directories; three scans of three names in one directory; two scans of shares with up to four directories nested in cycles of one or two names, and a file in one of them | 339,000 |
| `patch_twins` | a doubled directory name | three names, one of the subdirectories twice | violated |
| `url_pass` | position of the smb (also on Windows) and webdav walkers under failures; refinement of `Walk`; what the exit status of their programs says; that they end | ten directories on four levels, saved, new, closed, beyond each limit, taken for a link, the same names on several levels; every call may be refused; two stray elements; all command lines of up to three of 13 arguments (enough for every mode, every pair of options and a missing value) | 98,000 |
| `url_curl` | listings that break off | the same | violated |
| `sql_child` | position of the sql walker | the same | violated |
| `cuckoo_pass` | the hash table is a map | five elements, any of four pairs of hash functions with some, all or no collisions, rehashes three deep, allocations that fail | 57,000 |
| `ftp_pass` | what a scan over ftp is told, and that it ends | three directories on two levels and a closed one; 35 cases of a mode and faults (`MCCases`; late servers in every mode); with and without a codepage; one error that is forgiven (the code forgives ten: more repeat the same reconnection) | 119,000 |
| `ftp_active` | a reply 150 before its connection | the active mode without faults | violated |
| `lookup_pass` | which shares are known, refreshed, on- and offline | four shares on two hosts, three configurations with one or two networks and all classes of engines, one server that changes, one run that dies, one pass of the pinger, blocks of one row | 315,000 |

`Batch` is 1, so that collected rows are flushed both in the middle and at the
end; a page has two entries, so that directories have one page, full or not,
and two.  `CHECK_DEADLOCK FALSE` is set where the bounds (scans, ticks, inserts)
let the system come to rest, or where programs end.

The violation runs:

- `spider_saves`: `misc/save/README:33` wants the saved documents to be what the
  database has; a spider that dies before its commit leaves a newer one (the md5
  comparison then keeps the next patch from being applied).
- `patch_twins`: the same sentence; a directory name reported twice leaves a gap
  in the numbers of a listing (`dt.c:72-78`, `283-285`), `push_path_files`
  closes it in the database only, and later patches miss rows.
- `url_curl`: `dt.h:62-64` describes `readdir` as reporting the current
  directory; a curl-ftp fetch that fails half way leaves its entries in the list
  the next `readdir` reads from.
- `sql_child`: `dt.h:68` wants the current directory unchanged by a refused
  `go(CHILD)`; `sqlwk_go` has stored the child's id when its second query fails.
- `ftp_active`: `dt.h:62` wants all entries of a directory; in the active mode a
  reply 150 that comes before the data connection makes a directory look empty.

Other disagreements and weaknesses met while modelling have no run of their own.
The models contain what the code does, and the properties say what still holds:

- `bin/common.py:53` allows deleting saved documents at any time; between
  `os.path.isfile` (`spider.py:198`) and the scanner's `fopen` it makes the scan
  fail (`DeleteSave`, then `ScannerFails`).
- `dt.h:17` speaks of a number of directories; `dt_readdir` compares ids
  (`dt.c:256`), which only grow from patch to patch.
- `dt.h:69` says that a failed `go(PARENT)` ends the program;
  `dt_diff_add_tree` ignores it (`dt.c:740`), so that `dt_diff` goes on above
  the walker (`NoParent` of `SqlWalk`).  `PositionBelow` says what still holds.
- `misc/save/README:35` restores saves from plain dumps, which number
  directories anew, though a save must have the ids of the database;
  `dump.py:33` takes the dump made with an unreadable save for one without
  differences.
- `cuckoo.c:174`: an insertion that runs out of memory in a rehash is reported
  as failed, but the table keeps the new element and has lost another one
  (`Table` allows exactly this).
- `FtpSockLib.cpp:522`, `810`, `871`: a late 226, the replies to a listing that was
  given up in `select`, or a 425 after a failed connection, are taken for the reply to
  the next command, in the passive and the active modes.  `OwnReply` is claimed of
  `Punctual` servers only; `NeverForeign` says for all of them that what is told is
  the directory's own.  `831`: `accept` has no time-out (`ScanEnds` excludes the case).
- `ftpscan.cpp:187`: with a codepage the cache loses what can be converted, see above.
  As long as all can be, the scan only falls back to STAT and `CacheTellsAll` holds; one
  path that cannot is enough for directories to be told empty, or to be told
  another one's listing.  `CacheTellsAll` and `NeverForeign` exclude that (`names`).
- `ftpscan.cpp:155`: a `LIST -R` listing that ends within the name of a directory
  makes its parser loop for ever (`pc = "loops"`); `136`: a root longer than one
  buffer is taken for the whole share; `444`: a share without subdirectories
  fails instead of falling back to STAT.
- `lookup.py:56`, `154`: an exception in one share ends the commit of its engine, and
  with it the refreshing of all others; `280`: `known_hosts` is shared by all
  networks of a run.  `Refreshed` says which shares are refreshed all the same.
- `dt.c:530` and its like: when there is no memory for the root the walk does not
  begin, and the program exits with success and no output (`NoRoot`); a listing that is
  cut short because an entry cannot be allocated looks like a short directory
  (`Big`).  `SuccessIsComplete` says what a status of success still means.
- `smbscanwin/smbwk.c:259`: when there is no room for the mask the directory
  itself is looked for and told as its own content (`GoChildUnmasked`); `246`:
  `subdir` is never counted down, which is harmless as no directory is read
  after its children.
- `cfwk.c:263`: `cfwk_open` goes on when there is no memory for its buffer; what
  it does then is not modelled.
- `pinger.py:51`: of shares of several protocols on one host and port only one is
  told its state (`AllTold` speaks of shares that are alone).

## 4. Fairness

`url_pass`: weak fairness of `ScanNext`; a scanner is one process that does not
stop, and its requests time out.

`ftp_pass`: weak fairness of the client and of the server with the network.  The
client is one process; a server that never answers is not excluded by this, as
going silent is a step of its own (`faults`), after which time-outs end the wait.

`lookup_pass`: weak fairness of a run of lookup and of the pinger, which cron starts
again and again and which get on; strong fairness of time passing between two
runs, which is only possible between them: a run takes less time than any of the
periods that ages are compared with.

`spider_live`: weak fairness of a spider's steps: the process
runs, its scanner ends (spiders read until the scanner exits or prints too
much).  Strong fairness of the three statements that wait for a row (`Claim`,
`Postpone`, `Finish`): PostgreSQL grants row locks in the order of waiting.
Weak fairness of a lookup's `DELETE` and unlinks, and of the deadlock
detection.  Nothing is fair that the outside decides: failures, new shares,
pings, `next_scan` passing.

## 5. Proofs

`SpiderProofs` proves for any sets of shares, listings, spiders and lookups and
any bounds, from the assumption `Sentinels` (the special values are not
listings or processes):

| theorem | states |
|---|---|
| `Inductive` | `Spec => []IInv` |
| `TypeCorrect` | `TypeOK` |
| `HashCorrect` | `HashMatchesRows`: the hash is that of the document the rows came from |
| `MutualExclusion` | `AloneInTransaction` |
| `SaveOwnership` | `SaveWrittenByOwner` |
| `Refinement` | `C!CatSpec` |

The inductive invariant `IInv` adds to the type invariant: `RowInv` (a share
without a row has no hash and no catalogue; a hash describes the rows),
`OwnerInv` (a spider inside the transaction holds the row it selected, and the
hash it read is still the one in the database), `OutputInv` (its document is the
result of its scan, a later one than the published one; the rows it is about to
commit are those of the document) and `DeleteInv` (a running `DELETE` holds its
rows).  `HashMatchesRows` alone is not inductive: `Finish` needs that the rows
in `job.work` are those of the document, and `Update` gives that only because
`oldhash` equals the hash in the database, which needs the lock.

`WalkProofs` proves for every share (closed under parents, `SharePaths`), every
saved tree and all limits:

| theorem | states |
|---|---|
| `TypeCorrect` | `TypeOK` |
| `ReadsOnce` | `ReadOnce` |
| `ForgetsNothing` | `NothingForgotten` |

`ReadsOnce` rests on `OnceInv`: nothing that was read lies in or below an
untried subdirectory of a directory on the way from the root (`Fresh`), and the
walk is in no directory that is still untried (`Taken`).  Without `Taken` an
ascent could come back to what it left.  `ForgetsNothing` rests on `FullInv`:
each directory of the share was read, is excused, or lies below a subdirectory
still to be tried; at the end nothing is left to be tried.

`UrlWalkProofs` proves for the programs of `Scanner` (`ScanSpec`), every share,
all command lines and any number of failures:

| theorem | states |
|---|---|
| `ProgramWalks` | `Spec` of `UrlWalk`: the program changes nothing of the walker |
| `TypeCorrect` | `TypeOK` |
| `StackSuffices` | `FramesSuffice` |
| `InRightDirectory` | `ReadsWhereItIs`, if `"curl" \notin Kinds` |
| `ImplementsWalk` | `WalkSpec`, if `"curl" \notin Kinds` |
| `SuccessMeansAll` | `SuccessIsComplete`, if `"curl" \notin Kinds` |

The invariant `Inv` says what a failure may spoil: as long as the flag is clear
the url is the engine's directory and the stack holds the lengths of its
prefixes (`InStep`); once it is set only the height of the stack matters.  For
`curl` the fourth and fifth statements are false (run `url_curl`).
`SuccessMeansAll` takes `FullInv` over from `WalkProofs` as long as no directory
was asked for without its mask, and needs that a program that has exited with
success is at the end of its walk or has not begun.

`SqlWalkProofs` proves `PositionBelow`, for every share and whatever queries fail:
the walker over the database is never above the engine's directory, so the engine
cannot climb out of the tree after refused calls.

`CuckooProofs` proves for all keys, sizes and sets of hash functions:

| theorem | states |
|---|---|
| `Invariance` | `IInv` |
| `TypeCorrect` | `TypeOK` |
| `FoundInOneSlot` | `FoundOnce` |
| `CountIsRight` | `HalfEmpty` |
| `IsASet` | `TableSpec`: the table implements `Table` |

None of the properties is inductive while a rehash runs.  `IInv` says of every
level of a nested move which elements of the level below it has already got, and
which are still to come (`Link`), that elements are where their hashes want them
(`LevelOK`), and where the new element and the one in hand are.  The set a
caller sees is the union over the levels; a displacement, the end of a move and
a failing allocation leave it as it is, or as `Table` allows.

`FtpProofs` proves for every share, every set `Cases` of modes and faults (all
modes with all sets of the seven faults, if one likes: `CasesAssumption` excludes
none), every server of `FtpServer` with these faults and any number of retries:

| theorem | states |
|---|---|
| `DataSocketClosed` | `DataClosed` |
| `TypeCorrect` | `TypeOK` |
| `RepliesInOrder` | `OwnReply`, which speaks of `Punctual` servers: STAT, or no late answers and, in the passive modes, data connections that can be made |
| `NothingForeign` | `NeverForeign`, for all modes and all faults but `names` |
| `KeepsTheWalk` | `WalkSteps`, for dependable servers |
| `ScanIsComplete` | a scan of a dependable server that ends well has read all that can be entered |
| `CacheIsComplete` | `CacheTellsAll`, with and without a codepage, without the faults `abort`, `long` and `names` |

`QuietClosed` says more than `DataClosed`: the socket is closed whenever what the
client waits for does not belong to a transfer; only so is it known at the end of
each error path.  `FtpInv` says for every position of the client which replies
may be on the line and which commands are still owed one.  In step, that is
those to what was asked last (`InStep`).  A passive client that is out of step
has at most one stray reply before its own; of an active one with late
servers (`Loose`) no number of them is known.  It still tells nothing
foreign: entries come with a reply to STAT that names its directory, or over a
data connection, which an active client takes only on the port it listens on now, so
that a server at an older listing cannot use it (`PortsFit`).
Replies on the line are honest about the share (`AllHonest`) and data is what
was asked for last (`DataFits`).  `ScanIsComplete` joins this to
`FullInv` of `WalkProofs`, and `CacheIsComplete` to `OnceInv`: the cache holds exactly the
directories that were not read yet (`CacheInv`), none is read twice, and what is
not in the share has nothing in it (`ClosedAssumption`: nothing is known of what lies
below a directory that cannot be entered).

`RowsProofs` proves for every scanner that keeps the contract of `Rows` (`RowsSpec`),
listings of any size, any number of scans, patches and loads, and any `Batch`:

| theorem | states |
|---|---|
| `TypesKept` | `TypeOK` |
| `RowsInSync` | `InSync`: after every scan the rows are those of the saved listing |
| `NoLineFails` | `LinesApply`: no line of a patch violates a constraint, or misses its row |
| `PagesRight` | `PagesAddUp`: pages of directories and of searches show every entry once |
| `LinksRight` | `LinksLead`: links lead down and up, to every ancestor |
| `LinksSurvive` | `OldLinksLead`: links and pages across a commit |

`InSync` speaks of the end of a patch only; in its middle the rows are those of
neither listing.  The invariant `IInv` says what they are then (`Applied`): which rows
of paths, of files and of newfiles there are, with which numbers and sizes, and what
`paths_buffer` holds, as a function of the set of lines already applied and of the
directories already pushed.  An entry of a directory that was not pushed yet has its
old number, which is what the line about it says, and one of a pushed directory the
new one; that a directory is pushed only after the last line about it comes from
`InOrder`, and that it is pushed at all from the announcement.  A load is the same
argument with an empty old listing, whose patch is the listing itself (`ListingPatch`).
At the end nothing is left to be told, and the rows are those of the new listing.

The step that needs most is the push: `PushRight` says that `push_path_files` gives
every row the number the new listing has for it.  It rests on `NumberIs`: if the rows
that stay and the rows that come together have the numbers 0..n, and those that stay
keep their order, then the k-th number not taken is the number of the k-th row that
stays.

What the web interface shows follows from the rows at rest, for any `PerPage`.
`RowsNumbered` and `RowsNamed` say what it needs of them: the entries of a directory
have the numbers below `items`, each directory's row of paths repeats the number of
its entry, and its path is that of its parent and its name.  `CountBetween` counts the
entries in front of one, so that a query for `PerPage` of them from the first number
of a page on returns those of this page (`OnItsPage`); `BarLinks` is the arithmetic
of `generate_go_bar`.  `path_goup` climbs any number of levels: `CanClimb` shows that
the recursive function is defined and `Ancestors` what it computes, both by the first
level at which it would be wrong (`Least`).  `LinksSurvive` is about the step `Finish`
and takes from `Continues` that a directory of both listings keeps its id exactly if it
keeps its path.

That `dt.c` keeps the contract is model-checked (`ContractKept`): the lines are
computed by operators that recurse over trees.

`LookupProofs` proves for all configurations, shares, servers and killed runs,
with the pinger beside:

| theorem | states |
|---|---|
| `TypeCorrect` | `TypeOK` |
| `KeepsWhatIsThere` | `Refreshed` |
| `SkipsHosts` | `SkipsKept` |

The invariant `LookupInv` follows a share of a plain engine through its run: it is
found, it is inserted or known, it is tested, its row is refreshed; at each
position one of these is still to come or has been done (`SteadyKept`).  It
needs that what is known has a row (`HaveRows`), that hosts are claimed by the
engine that may have them (`Permitted`), and that a plain engine's shares cannot
raise the exceptions that end an engine (`NothingEnds`).

and of the pinger, for any shares, configurations and lookups beside the pinger:

| theorem | states |
|---|---|
| `HearsBeforeTelling` | `StateHeard` |
| `TellsAll` | `AllTold` |

The invariant `PingerInv` says that an answer in hand is one the server of that
share gave since the row was read (`InHand`), and that a share that was read is
either still in hand or has been told (`InHandOrTold`).  Of the lookup only
`Beside` is used: a row that stays keeps its state, a row that goes leaves the
hands of the pinger too, a new one is online.

Only model-checked:

- liveness (`spider_live`, `GoneIsDeleted`, `ScanEnds`, `Terminates`), which
  TLAPS cannot prove here;
- that the scanner keeps its contract (`ContractKept`), and what is said of the content
  of the share itself (`ContentIndexed`, `LoopsAreCut`, `IntegrityChecked`):
  `Listing`, `TreePatch` and `Dump` recurse over trees with RECURSIVE operators, which
  the provers cannot expand;
- the statements that do not hold (the five violation runs).

## 6. Plan

What could follow, in this order:

1. A tree as a set of paths instead of nested records, so that `ContractKept` can be
   proved about a scanner without RECURSIVE operators.
2. The map of a scanner's options (`Asked`) as a lemma about each program: which
   command lines lead to a walk.

## 7. Not modelled

`PROJECT.json` names every part with its reason.  In short: the text of pages and
the query language of the web interface; `umd5.c` (a standard algorithm, assumed free
of collisions) and `getpass.c`; the parsing of ftp listings (`ftpparse.c`, vendored); the
growth of buffers; the options of `sqlscan`;
`bitcollect.c`, which no program calls; zones and configuration files of lookup,
which are inputs; the trigger on the state of shares and the indexes.
