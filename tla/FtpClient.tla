------------------------------- MODULE FtpClient -------------------------------
(***************************************************************************)
(* The ftp scanner (scanners/ftpscan): the walker of ftpscan.cpp, which    *)
(* repeats what failed over a new connection, on top of the ftp library    *)
(* FtpSockLib.cpp, against the server of FtpServer.                        *)
(* Every step of the client reads at most one reply and sends at most one  *)
(* command; pc names the command whose reply is awaited.                   *)
(***************************************************************************)
EXTENDS FtpServer, FiniteSets

CONSTANTS
  Cases,      \* pairs of a mode and a set of faults
  MaxErrors   \* errors, 10 in the code

ASSUME CasesAssumption ==
  /\ MaxErrors \in Nat
  /\ Cases \subseteq {"stat", "passive", "active", "Rp", "Ra"} \X SUBSET Faults

VARIABLES
  phase, path, left, entered, refused,   \* the engine, see Walk
  pc,        \* "connect", "ready", "list" or "go" (again), what is awaited, or how it ended
  job,       \* what a new connection is for: "start", "list", "go"; "refused" if PASS was;
             \* "cached" when there is no need of a connection any more (lscache)
  curpath,   \* the directory of the walker
  errors,    \* network errors that will be forgiven
  tries,     \* busy_retries, of the active mode
  cache,     \* the listings of directories that came by LIST -R
  cp,        \* a codepage is set, by option -C or as the server does not know utf-8
  netbuff    \* replies that were received together with an earlier one

walk == <<phase, path, left, entered, refused>>
server == <<mode, faults, up, steps>>
tcp == <<up, owed, wire, netbuff>>
dtp == <<dsock, linked, data>>
vars == <<mode, faults, up, owed, wire, steps, dsock, linked, data, phase, path, left, entered,
          refused, pc, job, curpath, errors, tries, cache, cp, netbuff>>

W == INSTANCE Walk WITH pc <- phase, Saved <- {}, saved <- {}, Beyond <- {}, Big <- {}, Looped <- {}

Init ==
  /\ \E c \in Cases : mode = c[1] /\ faults = c[2]
  /\ up = FALSE /\ owed = <<>> /\ wire = <<>> /\ steps = {}
  /\ dsock = "none" /\ linked = FALSE /\ data = <<>>
  /\ W!Init
  /\ pc = "connect" /\ job = "start"
  /\ curpath = <<>>
  /\ errors = MaxErrors
  /\ tries = 0
  /\ cache = <<>>
  /\ cp \in BOOLEAN
  /\ netbuff = <<>>

-----------------------------------------------------------------------------
(* Sending and reading on the control connection.  One recv may bring      *)
(* several replies; what is after the first stays in netbuff.              *)
Waiting == netbuff = <<>> /\ wire = <<>>
Incoming == Head(netbuff \o wire)
Code == Incoming.code

rawread ==
  /\ ~Waiting
  /\ \/ netbuff # <<>> /\ netbuff' = Tail(netbuff) /\ wire' = wire
     \/ /\ netbuff = <<>>
        /\ \E k \in 1..Len(wire) :
             netbuff' = SubSeq(wire, 2, k) /\ wire' = SubSeq(wire, k + 1, Len(wire))

Sent(c) == owed' = IF up THEN Append(owed, c) ELSE owed
Ask(c, p) == Sent(Command(c, p)) /\ pc' = c

\* a reply was read, and a command is sent
Then(c, p) == rawread /\ Ask(c, p)
\* a reply was read, and nothing is sent
Enough == rawread /\ owed' = owed

\* a NetworkError: the connection is broken, or the answer is late
Broken == Waiting /\ (~up \/ Silent \/ "late" \in faults)

-----------------------------------------------------------------------------
(* TryReconnect, with tryconn and Logon; an error in it ends the program.  *)
Disconnected == dsock' = "none" /\ linked' = FALSE /\ data' = <<>>

\* the data connection stays open
QuitControl == UNCHANGED dtp
Quit == Disconnected

\* the rest of the old connection's replies stays in netbuff
tryconnKeeping == up' = TRUE /\ owed' = <<Command("greeting", <<>>)>> /\ wire' = <<>> /\ steps' = {} /\ netbuff' = netbuff
tryconn ==
  /\ up' = TRUE
  /\ owed' = <<Command("greeting", <<>>)>>
  /\ wire' = <<>> /\ netbuff' = <<>>
  /\ steps' = {}

Reconnect ==
  /\ pc = "connect"
  /\ Quit /\ tryconn
  /\ pc' = "greeting"
  /\ UNCHANGED <<mode, faults, walk, job, curpath, errors, tries, cache, cp>>

NoConnection ==
  /\ pc = "connect" /\ "drop" \in faults
  /\ pc' = "noconnect"
  /\ Quit
  /\ UNCHANGED <<server, owed, wire, netbuff, walk, job, curpath, errors, tries, cache, cp>>

Greeted ==
  /\ pc = "greeting" /\ ~Waiting
  /\ IF Code = 2 THEN Then("USER", <<>>) ELSE Enough /\ pc' = "noconnect"
  /\ UNCHANGED <<server, dtp, walk, job, curpath, errors, tries, cache, cp>>

User ==
  /\ pc = "USER" /\ ~Waiting
  /\ CASE Code = 2 -> Then("CWD /", curpath)
       [] Code = 3 -> Then("PASS", <<>>)
       [] OTHER -> Enough /\ pc' = "failure"
  /\ UNCHANGED <<server, dtp, walk, job, curpath, errors, tries, cache, cp>>

\* Logon looks at the reply when the codepage has been asked for
LoggedOn(no) == IF no THEN Enough /\ pc' = "failure" ELSE Then("CWD /", curpath)

Pass ==
  /\ pc = "PASS" /\ ~Waiting
  /\ job' = IF Code = 2 THEN job ELSE "refused"
  /\ IF cp THEN LoggedOn(Code # 2) ELSE Then("FEAT", <<>>)
  /\ UNCHANGED <<server, dtp, walk, curpath, errors, tries, cache, cp>>

(* TryUtf8: the answer has UTF8 in it, CLNT perhaps, or the default        *)
(* codepage is set.                                                        *)
Feat ==
  /\ pc = "FEAT" /\ ~Waiting
  /\ \/ Code = 2 /\ (Then("CLNT", <<>>) \/ Then("OPTS", <<>>)) /\ cp' = cp
     \/ LoggedOn(job = "refused") /\ cp' = TRUE
  /\ UNCHANGED <<server, dtp, walk, job, curpath, errors, tries, cache>>

Clnt ==
  /\ pc = "CLNT"
  /\ Then("OPTS", <<>>)
  /\ UNCHANGED <<server, dtp, walk, job, curpath, errors, tries, cache, cp>>

Opts ==
  /\ pc = "OPTS"
  /\ LoggedOn(job = "refused")
  /\ UNCHANGED <<server, dtp, walk, job, curpath, errors, tries, cache, cp>>

(* The reply to the CWD of TryReconnect is ignored.                        *)
Reconnected ==
  /\ pc = "CWD /"
  /\ CASE job # "start" -> Enough /\ pc' = job
       [] job = "start" /\ mode \in {"Rp", "Ra"} -> Then("CWD root", <<>>)
       [] job = "start" /\ mode \in {"passive", "active"} -> Then("TYPE", <<>>)
       [] OTHER -> Enough /\ pc' = "ready"
  /\ UNCHANGED <<server, dtp, walk, job, curpath, errors, tries, cache, cp>>

Type ==
  /\ pc = "TYPE" /\ mode \in {"passive", "active"}
  /\ Enough /\ pc' = "ready"
  /\ UNCHANGED <<server, dtp, walk, job, curpath, errors, tries, cache, cp>>

Starting == {"greeting", "USER", "PASS", "FEAT", "CLNT", "OPTS", "CWD /", "CWD root", "TYPE"}
NotStarted ==
  /\ pc \in Starting /\ Broken
  /\ pc' = "noconnect"
  /\ UNCHANGED <<server, owed, wire, netbuff, dtp, walk, job, curpath, errors, tries, cache, cp>>

-----------------------------------------------------------------------------
(* Data connections are for LIST, in calls of readdir that are repeated    *)
(* when they fail, or for the one LIST -R of CacheDirs, which is not.      *)
Caching == job = "start"
Dtp(kind) ==
  /\ tries' = 2
  /\ IF kind = "passive" THEN Ask("PASV", <<>>) /\ dsock' = "socket" ELSE Ask("PORT", <<>>) /\ dsock' = "listen"
  /\ UNCHANGED <<linked, data>>
SendList == Sent(Command(IF Caching THEN "LIST -R" ELSE "LIST", curpath))

\* CacheDirs, up to the data connection; refused, it ends the program
CacheDirs ==
  /\ mode \in {"Rp", "Ra"} /\ pc \in {"CWD root", "TYPE"} /\ ~Waiting
  /\ IF Code # 2 THEN Enough /\ pc' = "failure" /\ UNCHANGED <<dtp, tries>>
     ELSE IF pc = "CWD root" THEN Then("TYPE", <<>>) /\ UNCHANGED <<dtp, tries>>
     ELSE rawread /\ Dtp(IF mode = "Rp" THEN "passive" ELSE "active")
  /\ UNCHANGED <<server, walk, job, curpath, errors, cache, cp>>

-----------------------------------------------------------------------------
(* SAFE_FTP_CALL; an error in CacheDirs ends the program.                  *)
\* the call is repeated on the same connection
FailSameConnection(status) == errors' = errors - 1 /\ pc' = IF errors < 0 THEN status ELSE job
\* a call is repeated for ever
FailForgiven(status) == errors' = errors /\ pc' = "connect"
Fail(status) ==
  /\ errors' = IF Caching THEN errors ELSE errors - 1
  /\ pc' = IF Caching \/ errors < 0 THEN status ELSE "connect"

\* what main makes of it: a NetworkError, or a NetDataError, which is one too
NetworkError == Fail("noconnect")
NetDataError == Fail("failure")

(* ftp_readdir_fn: STAT, or RawConnCmd with LIST.  pc = "list" when it is  *)
(* repeated.                                                               *)
(* The entries are told to the engine: readdir is called until NULL, which *)
(* comes at once when there are none or the call has failed.               *)
Tell(kids) == W!Enter(kids) /\ pc' = "ready"

\* the listing that was cached, if one was
TellCached ==
  /\ job = "cached" /\ pc = "ready" /\ phase = "enter"
  /\ Tell(IF curpath \in DOMAIN cache THEN cache[curpath] ELSE {})
  /\ cache' = [p \in DOMAIN cache \ {curpath} |-> cache[p]]
  /\ UNCHANGED <<server, owed, wire, netbuff, dtp, job, curpath, errors, tries, cp>>

FindFirstFile ==
  /\ (pc = "ready" /\ phase = "enter") \/ pc = "list"
  /\ job # "cached"
  /\ job' = "list"
  /\ IF mode \in {"passive", "active"} THEN Dtp(mode) ELSE Ask("STAT", curpath) /\ UNCHANGED <<dtp, tries>>
  /\ UNCHANGED <<server, wire, netbuff, walk, curpath, errors, cache, cp>>

Stat ==
  /\ pc = "STAT" /\ ~Waiting
  /\ Enough
  /\ Tell(IF Code = 2 THEN Incoming.kids ELSE {})
  /\ UNCHANGED <<server, dtp, job, curpath, errors, tries, cache, cp>>

\* RawConnCmd returns false
NoListing ==
  /\ Enough /\ Disconnected
  /\ IF Caching THEN pc' = "failure" /\ UNCHANGED walk ELSE Tell({})

(* The address in the reply is connected to as soon as LIST is sent; the   *)
(* first reply to LIST is not for use when that failed.                    *)
Passive ==
  /\ pc = "PASV" /\ ~Waiting
  /\ \/ /\ Code = 2 /\ Incoming.to.cmd = "PASV"
        /\ rawread /\ SendList
        /\ \/ pc' = "150" /\ dsock' = "open" /\ linked' = TRUE
           \/ "nodata" \in faults /\ pc' = "excuse" /\ UNCHANGED <<dsock, linked>>
        /\ UNCHANGED <<data, walk, errors>>
     \/ /\ Code = 2 /\ Incoming.to.cmd # "PASV"   \* Invalid PASV response format
        /\ Enough
        /\ NetDataError
        /\ Disconnected /\ UNCHANGED walk
     \/ Code # 2 /\ NoListing /\ UNCHANGED errors
  /\ UNCHANGED <<server, job, curpath, tries, cache, cp>>

Port ==
  /\ pc = "PORT" /\ ~Waiting
  /\ IF Code = 2
     THEN rawread /\ SendList /\ pc' = "select" /\ UNCHANGED <<dtp, walk>>
     ELSE NoListing
  /\ UNCHANGED <<server, job, curpath, errors, tries, cache, cp>>

(* select: the data connection, if it is there, before the reply; replies  *)
(* that were received together with an earlier one do not show.            *)
Readable == wire # <<>> \/ ~up
Accepted == linked /\ dsock' = "open" /\ pc' = "150" /\ UNCHANGED <<linked, data, tcp, walk, tries>>

Select ==
  /\ pc = "select"
  /\ \/ Accepted
     \/ /\ ~linked /\ Readable /\ ~Waiting /\ Code = 4
        /\ tries' = tries - 1
        /\ IF tries > 1 THEN Then("PORT", <<>>) /\ UNCHANGED <<dtp, walk>> ELSE NoListing
     \/ ~linked /\ Readable /\ ~Waiting /\ Code = 1 /\ Enough /\ pc' = "accept" /\ UNCHANGED <<dtp, walk, tries>>
     \/ ~linked /\ Readable /\ ~Waiting /\ Code \notin {1, 4} /\ NoListing /\ UNCHANGED tries
  /\ UNCHANGED <<server, job, curpath, errors, cache, cp>>

(* Neither was there in time: one reply is waited for once more.           *)
SelectTimedOut ==
  /\ pc = "select" /\ ~linked /\ ~Readable /\ "late" \in faults
  /\ pc' = "excuse"
  /\ UNCHANGED <<server, owed, wire, netbuff, dtp, walk, job, curpath, errors, tries, cache, cp>>

\* there is no timeout
Accept == pc = "accept" /\ Accepted /\ UNCHANGED <<mode, faults, steps, job, curpath, errors, cache, cp>>

\* the reply that is skipped before RawConnCmd gives up
Excuse ==
  /\ pc = "excuse"
  /\ NoListing
  /\ UNCHANGED <<server, job, curpath, errors, tries, cache, cp>>

(* The connection is there; the reply must say so.                         *)
Transferring ==
  /\ pc = "150" /\ ~Waiting
  /\ IF Code = 1 THEN Enough /\ pc' = "data" /\ UNCHANGED <<dtp, walk>> ELSE NoListing
  /\ UNCHANGED <<server, job, curpath, errors, tries, cache, cp>>

(* readAllData: at the end of the data RecvData closes the socket.         *)
ReadAllData ==
  /\ pc = "data" /\ data # <<>>
  /\ pc' = "226"
  /\ dsock' = "none" /\ linked' = FALSE
  /\ UNCHANGED <<server, owed, wire, netbuff, data, walk, job, curpath, errors, tries, cache, cp>>

(* CloseData: the final reply is not looked at, and may be missing.        *)
CloseData ==
  /\ Enough \/ (Broken /\ UNCHANGED <<owed, wire, netbuff>>)
  /\ data' = <<>>
  /\ UNCHANGED <<server, dsock, linked, curpath, errors, tries, cp>>

ListRead ==
  /\ pc = "226" /\ ~Caching
  /\ CloseData
  /\ Tell(UNION {data[1].tree[p] : p \in DOMAIN data[1].tree})
  /\ UNCHANGED <<job, cache>>

(* The rest of CacheDirs, a parser that works on what was received so far: *)
(* it loops for ever if the listing ends within the name of a directory;   *)
(* if there was one directory, or none, it fails, but for an empty root,   *)
(* after which the scan goes on by STAT.  What it has when a full buffer   *)
(* has no second directory in it becomes the root's listing, what follows  *)
(* is lost, perhaps with the next directory.                               *)
Restricted(f, S) == [x \in DOMAIN f \cap S |-> f[x]]
Parsed(tree) ==
  IF "long" \notin faults THEN {tree}
  ELSE UNION {{Restricted([tree EXCEPT ![<<>>] = part], DOMAIN tree \ lost) : part \in SUBSET tree[<<>>]}
                : lost \in {{}} \cup {{p} : p \in {q \in DOMAIN tree : Len(q) = 1}}}

(* With a codepage a directory is cached only if its path cannot be        *)
(* converted (iconv returns 0 when it can), under what could be: perhaps   *)
(* the path of a directory above it, whose own listing was dropped.        *)
Misnamed(t) ==
  UNION {{f \in [D -> SUBSET Names] : f[<<>>] = t[<<>>]} : D \in {E \in SUBSET DOMAIN t : <<>> \in E}}

(* The root alone is no cache: the scan goes on by STAT (lstype = NO_DTP). *)
NotCached == pc' = "ready" /\ UNCHANGED <<job, cache>>

\* what is left in dbuff at the end is dropped
CachedWithoutLast(tree) ==
  /\ pc' = "ready" /\ job' = "cached"
  /\ \E t \in Parsed(tree), last \in DOMAIN tree : cache' = Restricted(t, DOMAIN t \ {last})
Cached(tree) ==
  \/ ~cp /\ pc' = "ready" /\ job' = "cached" /\ cache' \in Parsed(tree)
  \/ cp /\ NotCached
  \/ cp /\ "names" \in faults /\ pc' = "ready" /\ job' = "cached" /\ \E t \in Parsed(tree) : cache' \in Misnamed(t)

extend_cache ==
  /\ pc = "226" /\ Caching
  /\ CloseData
  /\ LET tree == data[1].tree IN
     \/ data[1].cut /\ pc' = "loops" /\ UNCHANGED <<job, cache>>
     \/ ~data[1].cut /\ Cardinality(DOMAIN tree) > 1 /\ Cached(tree)
     \/ ~data[1].cut /\ Cardinality(DOMAIN tree) <= 1 /\ pc' = "failure" /\ UNCHANGED <<job, cache>>
     \/ ~data[1].cut /\ tree = [p \in {<<>>} |-> {}] /\ NotCached
  /\ UNCHANGED walk

\* nothing is told of a directory when the connection is broken
ListBrokenEmpty ==
  /\ pc \in {"STAT", "PASV", "PORT", "select", "150", "excuse"}
  /\ Broken /\ Tell({}) /\ Disconnected
  /\ UNCHANGED <<server, owed, wire, netbuff, job, curpath, errors, tries, cache, cp>>

(* An error on the control connection closes the data socket too, except   *)
(* in RecvData.                                                            *)
ListBroken ==
  /\ pc \in {"STAT", "PASV", "PORT", "select", "150", "excuse"}
  /\ pc = "select" => ~linked
  /\ Broken /\ NetworkError
  /\ Disconnected
  /\ UNCHANGED <<server, owed, wire, netbuff, walk, job, curpath, tries, cache, cp>>

DataBroken ==
  /\ pc = "data"
  /\ \/ "drop" \in faults /\ NetDataError
     \/ data = <<>> /\ ("late" \in faults \/ Silent) /\ NetworkError
  /\ UNCHANGED <<server, owed, wire, netbuff, dtp, walk, job, curpath, tries, cache, cp>>

-----------------------------------------------------------------------------
(* ftp_go_somewhere; pc = "go" when the call is repeated.                  *)
GoTo(p) ==
  /\ job # "cached"
  /\ curpath' = p
  /\ job' = "go"
  /\ Ask("CWD", p)
  /\ UNCHANGED <<server, wire, netbuff, dtp, walk, errors, tries, cache, cp>>

GoChild(n) == pc = "ready" /\ W!Try(n) /\ GoTo(Append(curpath, n))
GoParent == pc = "ready" /\ W!Leaving /\ GoTo(W!Parent(curpath))
GoAgain == pc = "go" /\ GoTo(curpath)

\* nothing is asked for when there is a cache
GoCached ==
  /\ job = "cached" /\ pc = "ready"
  /\ \/ \E n \in Names : W!Descend(n)
     \/ W!Ascend
  /\ curpath' = path'
  /\ UNCHANGED <<server, owed, wire, netbuff, dtp, pc, job, errors, tries, cache, cp>>

Down == Len(curpath) > Len(path)
Goal == curpath[Len(curpath)]

\* the directory before a refusal is forgotten
ChDirLost ==
  /\ pc = "CWD" /\ ~Waiting
  /\ Enough
  /\ \/ Code = 2 /\ Down /\ W!Descend(Goal) /\ pc' = "ready"
     \/ Code = 2 /\ ~Down /\ W!Ascend /\ pc' = "ready"
     \/ Code # 2 /\ Down /\ W!Refuse(Goal) /\ pc' = "ready"
     \/ Code # 2 /\ ~Down /\ W!AscendFails /\ pc' = "failure"
  /\ UNCHANGED <<server, dtp, job, curpath, errors, tries, cache, cp>>

ChDir ==
  /\ pc = "CWD" /\ ~Waiting
  /\ Enough
  /\ \/ Code = 2 /\ Down /\ W!Descend(Goal) /\ pc' = "ready" /\ curpath' = curpath
     \/ Code = 2 /\ ~Down /\ W!Ascend /\ pc' = "ready" /\ curpath' = curpath
     \/ Code # 2 /\ Down /\ W!Refuse(Goal) /\ pc' = "ready" /\ curpath' = path
     \/ Code # 2 /\ ~Down /\ W!AscendFails /\ pc' = "failure" /\ curpath' = path
  /\ UNCHANGED <<server, dtp, job, errors, tries, cache, cp>>

GoBroken ==
  /\ pc = "CWD" /\ Broken
  /\ NetworkError
  /\ UNCHANGED <<server, owed, wire, netbuff, dtp, walk, job, curpath, tries, cache, cp>>

Finish ==
  /\ pc = "ready" /\ W!Finish
  /\ pc' = "success"
  /\ UNCHANGED <<server, owed, wire, netbuff, dtp, job, curpath, errors, tries, cache, cp>>

(* A loop in CacheDirs never ends.                                         *)
Ended == pc \in {"success", "failure", "noconnect"}

Client ==
  \/ Reconnect \/ NoConnection \/ Greeted \/ User \/ Pass \/ Feat \/ Clnt \/ Opts \/ Reconnected \/ Type \/ NotStarted
  \/ CacheDirs \/ extend_cache \/ TellCached \/ GoCached
  \/ FindFirstFile \/ Stat \/ Passive \/ Port \/ Select \/ SelectTimedOut \/ Accept \/ Excuse \/ Transferring
  \/ ReadAllData \/ ListRead \/ ListBroken \/ DataBroken
  \/ \E n \in Names : GoChild(n)
  \/ GoParent \/ GoAgain \/ ChDir \/ GoBroken \/ Finish

clientVars == <<walk, pc, job, curpath, errors, tries, cache, cp, netbuff>>
ServerStep == ~Ended /\ Server /\ UNCHANGED clientVars
Next == Client \/ ServerStep

Spec == Init /\ [][Next]_vars

(* The client runs, and waits no longer than its timeout, except in        *)
(* accept; a server that is not late answers at some time.                 *)
FairSpec == Spec /\ WF_vars(Client) /\ WF_vars(ServerStep)

-----------------------------------------------------------------------------
Commands == [cmd : Starting \cup {"CWD", "STAT", "PASV", "PORT", "LIST", "LIST -R"}, dir : W!Path]

(* TYPE: all variables, and between two calls of the engine the walker is  *)
(* in the engine's directory (olddir, after a refusal).                    *)
TypeOK ==
  /\ <<mode, faults>> \in Cases
  /\ up \in BOOLEAN /\ linked \in BOOLEAN /\ cp \in BOOLEAN
  /\ owed \in Seq(Commands)
  /\ netbuff \o wire \in Seq([to : Commands, code : 1..5, kids : SUBSET Names])
  /\ steps \subseteq {"150", "sent"}
  /\ dsock \in {"none", "socket", "listen", "open"}
  /\ Len(data) <= 1
  /\ \A f \in {cache} \cup {data[i].tree : i \in DOMAIN data} :
       DOMAIN f \subseteq W!Path /\ \A p \in DOMAIN f : f[p] \subseteq Names
  /\ W!TypeOK
  /\ pc \in Starting \cup {"connect", "ready", "list", "go", "STAT", "PASV", "PORT", "select", "accept",
                          "excuse", "150", "data", "226", "CWD", "loops", "success", "failure", "noconnect"}
  /\ job \in {"start", "list", "go", "refused", "cached"}
  /\ errors \in -2..MaxErrors
  /\ tries \in 0..2
  /\ pc = "ready" => curpath = path

(* SAFETY: "Previous connection not closed", an assertion of RawConnCmd    *)
(* (FtpSockLib.cpp:767), does not fail: whatever broke, and whenever, the  *)
(* data socket is closed when the next listing is asked for.               *)
DataClosed == (pc = "ready" /\ phase = "enter") \/ pc = "list" => dsock = "none"

(* SAFETY: the reply that is read is that to the command that was sent,    *)
(* though calls are repeated and replies are received ahead of time.  It   *)
(* is not claimed of a server that may be late, unless listings come by    *)
(* STAT: a transfer whose end is not waited for long enough, or a listing  *)
(* that is given up in select, brings the client out of step for good,     *)
(* because CloseData and RawConnCmd keep the connection.  Nor is it of a   *)
(* client that cannot connect for its data when "150" was sent.            *)
Punctual ==
  \/ mode = "stat"
  \/ "late" \notin faults /\ (mode \in {"active", "Ra"} \/ "nodata" \notin faults)
Awaited ==
  CASE pc \in {"select", "150", "226", "excuse"} -> IF Caching THEN "LIST -R" ELSE "LIST"
    [] OTHER -> pc
OwnReply ==
  /\ Punctual
  /\ pc \in Starting \cup {"STAT", "PASV", "PORT", "select", "150", "226", "excuse", "CWD"}
  /\ ~Waiting
  => Incoming.to.cmd = Awaited /\ (Awaited \in {"STAT", "LIST", "CWD"} => Incoming.to.dir = curpath)

(* SAFETY: what is told of a directory is in it, whatever the server and   *)
(* the network do wrong, in step or not.  Where paths cannot be converted  *)
(* the cache may have the listing of another directory under its name.     *)
NeverForeign ==
  [][phase = "enter" /\ phase' = "try" /\ "names" \notin faults
       => left'[Len(left')] \subseteq Kids(path)]_vars

(* REFINEMENT: the walker keeps what dt.h asks of walkers, as long as      *)
(* listings come by STAT and nothing is refused without a reason, though   *)
(* connections break and time out; with passive data connections, as long  *)
(* as the server is not late either.                                       *)
Dependable ==
  \/ mode = "stat" /\ faults \subseteq {"late", "drop"}
  \/ mode = "passive" /\ faults \subseteq {"drop"}
WalkSteps == [][Dependable => W!Next]_walk

(* The same without faults at all.  dt.h:62: "In each directory (including *)
(* the root) readdir() is executed as many times as necessary to get all   *)
(* curdir files/subdirs."                                                  *)
AllListed == [][faults = {} => W!Next]_walk

(* SAFETY: a walk over the cache is told every directory as it is, when    *)
(* the listing was complete, its first part had a subdirectory in it and   *)
(* all paths could be converted.  A client with a codepage then has no     *)
(* cache and walks by STAT; one path that cannot be converted is enough    *)
(* to give it one, in which the other directories are empty.               *)
CacheTellsAll ==
  [][job = "cached" /\ faults \cap {"abort", "long", "names"} = {} /\ phase = "enter" /\ phase' = "try"
       => left'[Len(left')] = Kids(path)]_vars

(* LIVENESS: the scan ends, as repeated calls are counted and waiting is   *)
(* limited, but for a connection that the client waits for with no limit,  *)
(* and a listing of all directories that ends within a name.               *)
ScanEnds ==
  /\ mode \in {"active", "Ra"} => faults \subseteq {"refuse"}
  /\ mode = "Rp" => "abort" \notin faults
  => <>Ended
=============================================================================
