------------------------------- MODULE FtpProofs -------------------------------
(***************************************************************************)
(* The ftp scanner, for every server of FtpServer, every share and any     *)
(* number of retries: its data socket is closed in time, the replies of    *)
(* punctual servers are read in step, what it tells the engine is there,   *)
(* and a dependable server is walked as dt.h wants it.  The invariant says *)
(* which replies are to come at every point of the client, also when it is *)
(* out of step, but for an active client of a late server (Loose).         *)
(***************************************************************************)
EXTENDS FtpClient, SequenceTheorems, TLAPS

(* The inductive invariant: the socket is closed not only when a listing   *)
(* is asked for but whenever the client waits for nothing that belongs to  *)
(* a transfer.  At "connect" it may be open, after an error in RecvData;   *)
(* Quit closes it.                                                         *)
Quiet == Starting \cup {"ready", "list", "go", "STAT", "CWD", "226"}
QuietClosed == pc \in Quiet => dsock = "none"

LEMMA InitQuiet == Init => QuietClosed
BY DEF Init, QuietClosed, Quiet, Starting

(* The server does not touch the client's socket.                          *)
LEMMA ServerLeavesSocket == ServerStep => dsock' = dsock /\ pc' = pc
BY DEF ServerStep, clientVars, Server, Answer, Begin, Link, Transmit, Complete, Refuse, Abort, Drop, EndTransfer

(* Errors lead to a new connection or end the program.                     *)
Failing == NetworkError \/ NetDataError

LEMMA FailingIs ==
  ASSUME Failing
  PROVE  /\ pc' \in {"connect", "failure", "noconnect"} /\ errors' \in {errors, errors - 1}
         /\ (errors' = errors - 1 /\ errors < 0) => pc' \in {"failure", "noconnect"}
BY DEF Failing, NetworkError, NetDataError, Fail

LEMMA FailNotQuiet == Failing => pc' \notin Quiet
BY FailingIs DEF Quiet, Starting

LEMMA StepQuiet == QuietClosed /\ [Next]_vars => QuietClosed'
<1> SUFFICES ASSUME QuietClosed, [Next]_vars PROVE QuietClosed'
  OBVIOUS
<1> USE DEF QuietClosed, Quiet, Starting
<1>1. CASE Reconnect
  BY <1>1 DEF Reconnect, Quit, Disconnected
<1>2. CASE NoConnection \/ NotStarted
  BY <1>2 DEF NoConnection, NotStarted
<1>3. CASE Greeted \/ User \/ Pass \/ Feat \/ Clnt \/ Opts \/ Reconnected \/ Type
  BY <1>3 DEF Greeted, User, Pass, Feat, Clnt, Opts, Reconnected, Type, dtp
<1>4. CASE CacheDirs
  BY <1>4 DEF CacheDirs, Dtp, Then, Ask, dtp
<1>5. CASE extend_cache
  BY <1>5 DEF extend_cache, CloseData
<1>6. CASE TellCached \/ GoCached
  BY <1>6 DEF TellCached, GoCached, dtp
<1>7. CASE FindFirstFile
  BY <1>7 DEF FindFirstFile, Dtp, Ask, dtp
<1>8. CASE Stat \/ Excuse
  BY <1>8 DEF Stat, Excuse, NoListing, Disconnected, dtp
<1>9. CASE Passive
  BY <1>9, FailNotQuiet DEF Passive, NoListing, Disconnected, Failing
<1>10. CASE Port \/ Transferring
  BY <1>10 DEF Port, Transferring, NoListing, Disconnected, dtp
<1>11. CASE Select \/ SelectTimedOut
  BY <1>11 DEF Select, SelectTimedOut, Accepted, NoListing, Disconnected, Then, Ask, dtp
<1>12. CASE Accept
  BY <1>12 DEF Accept, Accepted
<1>13. CASE ReadAllData
  BY <1>13 DEF ReadAllData
<1>14. CASE ListRead
  BY <1>14 DEF ListRead, CloseData
<1>15. CASE ListBroken \/ DataBroken \/ GoBroken
  BY <1>15, FailNotQuiet DEF ListBroken, DataBroken, GoBroken, Disconnected, Failing
<1>16. CASE (\E n \in Names : GoChild(n)) \/ GoParent \/ GoAgain
  BY <1>16 DEF GoChild, GoParent, GoAgain, GoTo, dtp
<1>17. CASE ChDir \/ Finish
  BY <1>17 DEF ChDir, Finish, dtp
<1>18. CASE ServerStep
  BY <1>18, ServerLeavesSocket
<1>19. CASE UNCHANGED vars
  BY <1>19 DEF vars
<1> QED
  BY <1>1, <1>2, <1>3, <1>4, <1>5, <1>6, <1>7, <1>8, <1>9, <1>10, <1>11, <1>12, <1>13,
     <1>14, <1>15, <1>16, <1>17, <1>18, <1>19 DEF Next, Client

(* The assertion "Previous connection not closed" of RawConnCmd            *)
(* (FtpSockLib.cpp:767) never fails, whatever breaks and whenever.         *)
THEOREM DataSocketClosed == Spec => []DataClosed
<1>1. QuietClosed => DataClosed
  BY DEF QuietClosed, Quiet, DataClosed
<1> QED
  BY <1>1, InitQuiet, StepQuiet, PTL DEF Spec

-----------------------------------------------------------------------------
(* The walk by itself, with the engine's steps for this walker.            *)
WP == INSTANCE WalkProofs WITH pc <- phase, Saved <- {}, saved <- {}, Beyond <- {}, Big <- {}, Looped <- {}

(* Types of the connections and of what comes over them.                   *)
Replies == [to : Commands, code : 1..5, kids : SUBSET Names]
(* What is told of a directory in listings is in it, and in the cache too, *)
(* if its paths can be converted.                                          *)
Typed(f) == DOMAIN f \subseteq W!Path /\ \A p \in DOMAIN f : f[p] \subseteq Names
Tree(f) == DOMAIN f \subseteq W!Path /\ \A p \in DOMAIN f : f[p] \subseteq Kids(p)
Connections ==
  /\ <<mode, faults>> \in Cases
  /\ up \in BOOLEAN
  /\ owed \in Seq(Commands)
  /\ wire \in Seq(Replies) /\ netbuff \in Seq(Replies)
  /\ steps \subseteq {"150", "sent"} /\ ("sent" \in steps => "150" \in steps)
  /\ dsock \in {"none", "socket", "listen", "open"} /\ linked \in BOOLEAN
  /\ data = <<>> \/ (data = <<data[1]>> /\ Tree(data[1].tree))

(* What the client is at, and what it does so for.                         *)
ByList == {"PASV", "PORT", "select", "accept", "excuse", "150", "data", "226"}
Control ==
  /\ pc \in Starting \cup ByList \cup {"connect", "ready", "list", "go", "STAT", "CWD", "loops", "success", "failure", "noconnect"}
  /\ job \in {"start", "list", "go", "refused", "cached"}
  /\ cp \in BOOLEAN
  /\ pc \in ByList => mode # "stat" /\ job \in {"start", "list"}
  /\ pc \in ByList => (job = "start" <=> mode \in {"Rp", "Ra"})
  /\ pc = "PASV" => mode \in {"passive", "Rp"}
  /\ pc \in {"PORT", "select", "accept"} => mode \in {"active", "Ra"}
  /\ pc = "excuse" => \/ ("nodata" \in faults /\ mode \in {"passive", "Rp"})
                      \/ ("late" \in faults /\ mode \in {"active", "Ra"})
  /\ pc = "STAT" => mode \notin {"passive", "active"}
  /\ pc \in {"list", "STAT"} => job = "list"
  /\ pc \in {"go", "CWD"} => job = "go"
  /\ pc \in {"TYPE", "CWD root"} => job = "start"
  /\ job = "refused" => pc \in {"FEAT", "CLNT", "OPTS", "failure", "noconnect"}
  /\ job = "cached" => pc \in {"ready", "success"} /\ mode \in {"Rp", "Ra"}
  /\ pc = "226" => data # <<>>
  /\ Typed(cache) /\ ("names" \notin faults => Tree(cache))
Counts ==
  /\ tries \in 0..2 /\ (pc \in {"PORT", "select"} => tries >= 1)
  /\ errors \in Int /\ -2 <= errors /\ errors <= MaxErrors
  /\ errors = -2 => pc \in {"failure", "noconnect"}

(* The walker's directory is the engine's, except while it goes elsewhere. *)
Going == job = "go" /\ pc \in Starting \cup {"connect", "go", "CWD"}
Target ==
  /\ phase = "try"
  /\ \/ \E n \in W!Rest : curpath = Append(path, n)
     \/ W!Rest = {} /\ path # <<>> /\ curpath = W!Parent(path)
Place ==
  /\ W!TypeOK /\ curpath \in W!Path
  /\ job = "start" => path = <<>> /\ phase = "enter"
  /\ IF Going THEN Target ELSE job = "refused" \/ pc \in {"failure", "noconnect"} \/ curpath = path

(* The replies to come.  After a connection is broken none are.            *)
Line == netbuff \o wire
Owing(s) == up => owed = s
Nothing == Line = <<>> /\ Owing(<<>>)
Single(c) ==
  \/ Line = <<>> /\ Owing(<<c>>)
  \/ Len(Line) = 1 /\ Line[1].to = c /\ Owing(<<>>)
(* A listing is answered by 1xx and a final reply, or by a final one only. *)
Begun(c) ==
  \/ Line = <<>> /\ Owing(<<c>>) /\ (up => "150" \in steps)
  \/ Len(Line) = 1 /\ Line[1].to = c /\ Line[1].code # 1 /\ Owing(<<>>)
Unread(c) ==
  \/ Line = <<>> /\ Owing(<<c>>) /\ (up => "150" \notin steps)
  \/ Len(Line) = 1 /\ Line[1].to = c /\ Line[1].code = 1 /\ Owing(<<c>>) /\ (up => "150" \in steps)
  \/ /\ Len(Line) = 1 /\ Line[1].to = c /\ Line[1].code # 1 /\ Owing(<<>>)
     /\ faults \cap {"refuse", "nodata"} # {}
  \/ Len(Line) = 2 /\ Line[1].to = c /\ Line[2].to = c /\ Line[1].code = 1 /\ Line[2].code # 1 /\ Owing(<<>>)

Active == mode \in {"active", "Ra"}
ForDirectory == {"STAT", "LIST", "CWD"}
Lists == {"LIST", "LIST -R"}

(* The client gets out of step when it does not wait for the end of a      *)
(* transfer, or gives one up: then one reply is to come that it does not   *)
(* wait for, and it takes every reply for the next.  In the passive mode   *)
(* it asks for a listing by PASV after a CWD only, whose reply is no       *)
(* address, so that it never gets one then; and after LIST -R it asks by   *)
(* STAT for the root only, and is told nothing.  In the active mode it     *)
(* goes on, and what is to come grows without bound (Loose).               *)
Loose == mode = "active" /\ "late" \in faults
Final(x) == IF x.cmd \in Lists THEN Begun(x) ELSE Single(x)
Two(x, c) ==
  \/ Line = <<>> /\ Owing(<<x, c>>) /\ (x.cmd \in Lists /\ up => "150" \in steps)
  \/ Len(Line) = 1 /\ Line[1].to = x /\ (x.cmd \in Lists => Line[1].code # 1) /\ Owing(<<c>>)
  \/ Len(Line) = 2 /\ Line[1].to = x /\ (x.cmd \in Lists => Line[1].code # 1) /\ Line[2].to = c /\ Owing(<<>>)
Stray(x) ==
  /\ x \in Commands /\ ~Punctual
  /\ mode = "passive" => /\ x.cmd \in {"LIST", "CWD", "PASV"} /\ pc # "STAT"
                         /\ pc = "PASV" \/ (pc = "ready" /\ phase = "enter") => x.cmd = "CWD"
  /\ mode \in {"Rp", "Ra"} => /\ pc \in {"ready", "STAT"} /\ path = <<>>
                              /\ phase = "enter" \/ pc = "STAT" => x.cmd = "LIST -R"
                              /\ phase # "enter" => x.cmd = "STAT" /\ W!Rest = {}

(* The command whose reply is awaited, as the client knows it.             *)
Waits(c) ==
  /\ c \in Commands
  /\ c.cmd \in ForDirectory => c.dir = curpath
InStep ==
  /\ pc \in {"list", "go"} => Nothing
  /\ pc = "ready" /\ job # "cached" => Nothing \/ \E x \in Commands : Stray(x) /\ Final(x)
  /\ pc \in Starting \cup {"PORT", "STAT", "PASV", "CWD"} =>
       \E c \in Commands :
         /\ Waits(c) /\ c.cmd = pc
         /\ Single(c) \/ (pc \in {"STAT", "PASV", "CWD"} /\ \E x \in Commands : Stray(x) /\ Two(x, c))
  /\ pc \in {"select", "excuse", "accept", "150", "data", "226"} =>
       \E c \in Commands :
         /\ Waits(c) /\ c.cmd = IF Caching THEN "LIST -R" ELSE "LIST"
         /\ pc \in {"select", "excuse"} => Unread(c)
         /\ pc = "150" => Unread(c) \/ (Begun(c) /\ Active)
         /\ pc \in {"accept", "data", "226"} => Begun(c)
StepsFit == up /\ (owed = <<>> \/ Head(owed).cmd \notin {"LIST", "LIST -R"}) => steps = {}

Types == Connections /\ Control /\ Counts /\ Place

(* Replies tell what is there.                                             *)
Honest(r) ==
  /\ r.kids = IF r.to.cmd = "STAT" /\ r.code = 2 THEN Kids(r.to.dir) ELSE {}
  /\ "refuse" \notin faults =>
       /\ r.to.cmd \in {"CWD", "STAT"} => (r.code = 2 <=> r.to.dir \in Share)
       /\ r.to.cmd = "PASV" => r.code = 2
AllHonest == \A i \in 1..Len(Line) : Honest(Line[i])

(* Data comes over the connection that was made for it only, and is what   *)
(* was asked for last.                                                     *)
LinkedFits ==
  /\ linked => dsock \in {"listen", "open"}
  /\ pc = "PASV" => dsock = "socket"
  /\ pc \in {"PORT", "select", "accept"} => dsock = "listen"
  /\ pc = "150" => dsock = "open"
  /\ pc = "excuse" => dsock = IF Active THEN "listen" ELSE "socket"
OneReply == Starting \cup {"PORT", "STAT", "PASV", "CWD"}
AtListing == {"select", "excuse", "accept", "150", "data", "226"}
ListCommand == Command(IF Caching THEN "LIST -R" ELSE "LIST", curpath)
DataFits == data # <<>> =>
  /\ pc \notin OneReply \cup {"ready", "list", "go"}
  /\ pc = "select" => linked
  /\ pc \in AtListing => /\ DOMAIN data[1].tree \subseteq Sections(ListCommand)
                         /\ "abort" \notin faults => data = <<Whole(ListCommand)>>

(* Where any number of listings may be owed, those that are not for the    *)
(* port the client listens on are before the PORT that told it; after it   *)
(* comes the listing the client is at.                                     *)
Wanted(c) == (pc \in AtListing /\ c = ListCommand) \/ pc \in {"connect", "failure", "noconnect"}
Renewed(i) == \E j \in 1..Len(owed) : j > i /\ owed[j].cmd = "PORT"
PortsFit == Loose /\ up =>
  /\ dsock \in {"listen", "open"} =>
       \A i \in 1..Len(owed) : owed[i].cmd \in Lists => Renewed(i) \/ Wanted(owed[i])
  /\ linked => \A i \in 1..Len(owed) : owed[i].cmd # "PORT"

FtpInv == /\ Types /\ StepsFit /\ (~Loose => InStep) /\ PortsFit
          /\ QuietClosed /\ AllHonest /\ LinkedFits /\ DataFits

-----------------------------------------------------------------------------
(* A reply is read: the first on the line goes, and the others stay there, *)
(* however many were received with it.                                     *)
LEMMA FirstOnLine ==
  ASSUME Connections
  PROVE  /\ Len(Line) \in Nat /\ (Waiting <=> Line = <<>>) /\ (Line = <<>> <=> Len(Line) = 0)
         /\ ~Waiting => Incoming = Line[1] /\ Incoming \in Replies
<1>1. Line \in Seq(Replies)
  BY DEF Connections, Line
<1>2. netbuff \in Seq(Replies) /\ wire \in Seq(Replies)
  BY DEF Connections
<1>3. Waiting <=> Line = <<>>
  BY <1>2 DEF Waiting, Line
<1>4. Incoming = Head(Line)
  BY DEF Incoming, Line
<1> HIDE DEF Line
<1> QED BY <1>1, <1>3, <1>4

LEMMA ReadOne ==
  ASSUME Connections, rawread
  PROVE  /\ wire' \in Seq(Replies) /\ netbuff' \in Seq(Replies)
         /\ Len(Line) \in Nat \ {0} /\ Len(Line') = Len(Line) - 1
         /\ \A i \in 1..Len(Line') : Line'[i] = Line[i + 1]
<1>1. netbuff \in Seq(Replies) /\ wire \in Seq(Replies)
  BY DEF Connections
<1>2. CASE netbuff # <<>> /\ netbuff' = Tail(netbuff) /\ wire' = wire
  BY <1>1, <1>2 DEF Line
<1>3. CASE \E k \in 1..Len(wire) : netbuff = <<>> /\ netbuff' = SubSeq(wire, 2, k) /\ wire' = SubSeq(wire, k + 1, Len(wire))
  <2>1. PICK k \in 1..Len(wire) : netbuff = <<>> /\ netbuff' = SubSeq(wire, 2, k) /\ wire' = SubSeq(wire, k + 1, Len(wire))
    BY <1>3
  <2> DEFINE l == Len(wire)
  <2>2. l \in Nat /\ k \in 1..l
    BY <1>1, <2>1
  <2>3. \A i \in 1..l : wire[i] \in Replies
    BY <1>1
  <2>4. /\ netbuff' \in Seq(Replies)
        /\ Len(netbuff') = IF 2 <= k THEN k - 2 + 1 ELSE 0
        /\ \A i \in 1..(k - 2 + 1) : netbuff'[i] = wire[2 + i - 1]
    BY <2>1, <2>2, <2>3, SubSeqProperties
  <2>5. /\ wire' \in Seq(Replies)
        /\ Len(wire') = IF k + 1 <= l THEN l - (k + 1) + 1 ELSE 0
        /\ \A i \in 1..(l - (k + 1) + 1) : wire'[i] = wire[k + 1 + i - 1]
    BY <2>1, <2>2, <2>3, SubSeqProperties
  <2> HIDE DEF l
  <2>6. Len(netbuff') = k - 1 /\ Len(wire') = l - k
    BY <2>2, <2>4, <2>5
  <2>7. Len(Line') = l - 1 /\ Len(Line) = l
    <3>1. Len(Line') = Len(netbuff') + Len(wire') /\ Len(Line) = Len(wire)
      BY <1>1, <2>1, <2>4, <2>5 DEF Line
    <3> QED BY <2>2, <2>6, <3>1 DEF l
  <2>8. ASSUME NEW i \in 1..(l - 1) PROVE Line'[i] = Line[i + 1]
    <3>1. Line[i + 1] = wire[i + 1]
      BY <1>1, <2>1, <2>2 DEF Line, l
    <3>2. CASE i <= k - 1
      <4>1. Line'[i] = netbuff'[i] /\ i \in 1..(k - 2 + 1) /\ 2 + i - 1 = i + 1
        BY <2>2, <2>4, <2>5, <2>6, <3>2 DEF Line
      <4> QED BY <2>4, <3>1, <4>1
    <3>3. CASE i > k - 1
      <4> DEFINE j == i - (k - 1)
      <4>1. Line'[i] = wire'[j] /\ j \in 1..(l - (k + 1) + 1) /\ k + 1 + j - 1 = i + 1
        BY <2>2, <2>4, <2>5, <2>6, <3>3 DEF Line
      <4> HIDE DEF j
      <4> QED BY <2>5, <3>1, <4>1
    <3> QED BY <2>2, <3>2, <3>3
  <2> QED BY <2>2, <2>4, <2>5, <2>7, <2>8
<1> QED BY <1>2, <1>3 DEF rawread

-----------------------------------------------------------------------------
(* What a step of the client does to the connections.                      *)
Reads == rawread \/ UNCHANGED <<wire, netbuff>>
Asks == owed' = owed \/ \E c \in Commands : Sent(c)
DtpStep ==
  /\ dsock' \in {"none", "socket", "listen", "open"} /\ linked' \in BOOLEAN
  /\ data' \in {data, <<>>}
ClientStep == UNCHANGED <<mode, faults, up, steps>> /\ Reads /\ Asks /\ DtpStep

LEMMA DtpKept == Connections /\ UNCHANGED dtp => DtpStep
BY DEF Connections, DtpStep, dtp

LEMMA ClientConnections == ASSUME Connections, ClientStep PROVE Connections'
<1>1. wire' \in Seq(Replies) /\ netbuff' \in Seq(Replies)
  BY ReadOne DEF Connections, ClientStep, Reads
<1>2. owed' \in Seq(Commands)
  <2>1. CASE owed' = owed
    BY <2>1 DEF Connections
  <2>2. CASE \E c \in Commands : Sent(c)
    BY <2>2 DEF Sent, Connections
  <2> QED BY <2>1, <2>2 DEF ClientStep, Asks
<1>3. data' = <<>> \/ (data' = <<data'[1]>> /\ Tree(data'[1].tree))
  BY DEF Connections, ClientStep, DtpStep, Tree
<1> QED BY <1>1, <1>2, <1>3 DEF Connections, ClientStep, DtpStep

LEMMA CommandsToSend ==
  ASSUME NEW p \in W!Path,
         NEW c \in Starting \cup {"CWD", "STAT", "PASV", "PORT", "LIST", "LIST -R"}
  PROVE  Command(c, p) \in Commands
BY DEF Command, Commands

LEMMA FrontPath ==
  ASSUME NEW p \in Seq(Names), p # <<>>
  PROVE  SubSeq(p, 1, Len(p) - 1) \in Seq(Names) /\ Len(SubSeq(p, 1, Len(p) - 1)) = Len(p) - 1
BY WP!FrontOf, ShareAssumption DEF WP!Path

LEMMA AppendPath ==
  ASSUME NEW p \in Seq(Names), NEW n \in Names
  PROVE  /\ Append(p, n) \in Seq(Names) /\ Len(p) \in Nat /\ Len(Append(p, n)) = Len(p) + 1
         /\ Append(p, n)[Len(p) + 1] = n
BY AppendProperties

LEMMA RootIsPath == <<>> \in W!Path
BY DEF W!Path

LEMMA StartSteps ==
  ASSUME Types, Greeted \/ User \/ Pass \/ Feat \/ Clnt \/ Opts \/ Reconnected \/ Type \/ NoConnection \/ NotStarted
  PROVE  ClientStep
<1>1. \A c \in Starting : \A p \in {<<>>, curpath} : Command(c, p) \in Commands
  BY CommandsToSend, RootIsPath DEF Types, Place
<1>2. ASSUME UNCHANGED server, UNCHANGED dtp, Reads, Asks PROVE ClientStep
  BY <1>2, DtpKept DEF server, ClientStep, Types
<1>3. CASE Greeted \/ User \/ Pass
  BY <1>1, <1>2, <1>3 DEF Greeted, User, Pass, Then, Enough, Ask, LoggedOn, Reads, Asks, Starting
<1>4. CASE Feat \/ Clnt \/ Opts
  BY <1>1, <1>2, <1>4 DEF Feat, Clnt, Opts, Then, Enough, Ask, LoggedOn, Reads, Asks, Starting
<1>5. CASE Reconnected \/ Type
  BY <1>1, <1>2, <1>5 DEF Reconnected, Type, Then, Enough, Ask, Reads, Asks, Starting
<1>6. CASE NoConnection \/ NotStarted
  BY <1>2, <1>6 DEF NoConnection, NotStarted, Reads, Asks, Quit, Disconnected, server, ClientStep, DtpStep, Types, Connections
<1> QED BY <1>3, <1>4, <1>5, <1>6

LEMMA ListSteps ==
  ASSUME Types, CacheDirs \/ FindFirstFile \/ Stat \/ Passive \/ Port \/ Select \/ SelectTimedOut \/ Accept \/ Excuse \/ Transferring
  PROVE  ClientStep
<1>1. \A c \in Starting \cup {"CWD", "STAT", "PASV", "PORT", "LIST", "LIST -R"} :
        \A p \in {<<>>, curpath} : Command(c, p) \in Commands
  BY CommandsToSend, RootIsPath DEF Types, Place
<1>2. ASSUME UNCHANGED server, DtpStep, Reads, Asks PROVE ClientStep
  BY <1>2 DEF server, ClientStep
<1>3. UNCHANGED dtp => DtpStep
  BY DtpKept DEF Types
<1>4. Disconnected => DtpStep
  BY DEF Disconnected, DtpStep
<1>5. \A k : Dtp(k) => DtpStep /\ Asks
  BY <1>1 DEF Dtp, DtpStep, Asks, Ask, Types, Connections
<1>6. SendList => Asks
  BY <1>1 DEF SendList, Asks
<1>7. CASE CacheDirs
  BY <1>1, <1>2, <1>3, <1>5, <1>7 DEF CacheDirs, Then, Ask, Enough, Reads, Asks, Starting
<1>8. CASE FindFirstFile
  BY <1>1, <1>2, <1>3, <1>5, <1>8 DEF FindFirstFile, Ask, Reads, Asks
<1>9. CASE Stat \/ Excuse
  BY <1>2, <1>3, <1>4, <1>9 DEF Stat, Excuse, NoListing, Enough, Reads, Asks
<1>10. CASE Passive
  <2>1. UNCHANGED server /\ Reads
    BY <1>10 DEF Passive, NoListing, Enough, Reads
  <2>2. Asks
    BY <1>6, <1>10 DEF Passive, NoListing, Enough, Asks
  <2>3. DtpStep
    BY <1>4, <1>10 DEF Passive, NoListing, DtpStep, Types, Connections
  <2> QED BY <1>2, <2>1, <2>2, <2>3
<1>11. CASE Port
  BY <1>2, <1>3, <1>4, <1>6, <1>11 DEF Port, NoListing, Enough, Reads, Asks
<1>12. Accepted => DtpStep /\ Reads /\ Asks
  BY DEF Accepted, DtpStep, Types, Connections, tcp, Reads, Asks
<1>13. CASE Select
  <2>1. UNCHANGED server
    BY <1>13 DEF Select
  <2>2. Reads
    BY <1>12, <1>13 DEF Select, Then, NoListing, Enough, Reads
  <2>3. Asks
    BY <1>1, <1>12, <1>13 DEF Select, Then, Ask, NoListing, Enough, Asks
  <2>4. DtpStep
    BY <1>3, <1>4, <1>12, <1>13 DEF Select, NoListing
  <2> QED BY <1>2, <2>1, <2>2, <2>3, <2>4
<1>14. CASE Accept \/ SelectTimedOut
  BY <1>2, <1>3, <1>12, <1>14 DEF Accept, SelectTimedOut, Accepted, tcp, server, Reads, Asks
<1>15. CASE Transferring
  BY <1>2, <1>3, <1>4, <1>15 DEF Transferring, NoListing, Enough, Reads, Asks
<1> QED BY <1>7, <1>8, <1>9, <1>10, <1>11, <1>13, <1>14, <1>15

LEMMA OtherSteps ==
  ASSUME Types,
         \/ extend_cache \/ TellCached \/ GoCached \/ ReadAllData \/ ListRead \/ ListBroken \/ DataBroken
         \/ (\E n \in Names : GoChild(n)) \/ GoParent \/ GoAgain \/ ChDir \/ GoBroken \/ Finish
  PROVE  ClientStep
<1>2. ASSUME UNCHANGED server, DtpStep, Reads, Asks PROVE ClientStep
  BY <1>2 DEF server, ClientStep
<1>3. UNCHANGED dtp => DtpStep
  BY DtpKept DEF Types
<1>4. Disconnected => DtpStep
  BY DEF Disconnected, DtpStep
<1>5. CloseData => UNCHANGED server /\ DtpStep /\ Reads /\ Asks
  BY DEF CloseData, Enough, DtpStep, Reads, Asks, Types, Connections
<1>6. CASE extend_cache \/ ListRead
  BY <1>2, <1>5, <1>6 DEF extend_cache, ListRead
<1>7. CASE TellCached \/ GoCached \/ Finish \/ ListBroken \/ DataBroken \/ GoBroken
  BY <1>2, <1>3, <1>4, <1>7 DEF TellCached, GoCached, Finish, ListBroken, DataBroken, GoBroken, Reads, Asks
<1>8. CASE ReadAllData
  BY <1>2, <1>8 DEF ReadAllData, Reads, Asks, DtpStep
<1>9. ASSUME NEW p \in W!Path, GoTo(p) PROVE ClientStep
  <2>1. Command("CWD", p) \in Commands
    BY CommandsToSend
  <2> QED BY <1>2, <1>3, <1>9, <2>1 DEF GoTo, Ask, Reads, Asks
<1>10. CASE (\E n \in Names : GoChild(n)) \/ GoParent \/ GoAgain
  <2>1. \A n \in Names : Append(curpath, n) \in W!Path
    <3>1. curpath \in Seq(Names)
      BY DEF Types, Place, W!Path
    <3>2. ASSUME NEW n \in Names PROVE Append(curpath, n) \in Seq(Names)
      BY <3>1, AppendProperties
    <3> QED BY <3>2 DEF W!Path
  <2>2. GoParent => W!Parent(curpath) \in W!Path
    <3>1. GoParent => curpath = path /\ path # <<>>
      BY DEF GoParent, Types, Place, Going, Starting, Control, W!Leaving, GoTo
    <3>2. curpath # <<>> => SubSeq(curpath, 1, Len(curpath) - 1) \in Seq(Names)
      BY WP!FrontOf DEF Types, Place, W!Path
    <3> QED BY <3>1, <3>2 DEF W!Parent, W!Path
  <2> QED BY <1>9, <1>10, <2>1, <2>2 DEF GoChild, GoParent, GoAgain, Types, Place
<1>11. CASE ChDir
  BY <1>2, <1>3, <1>11 DEF ChDir, Enough, Reads, Asks
<1> QED BY <1>6, <1>7, <1>8, <1>10, <1>11

-----------------------------------------------------------------------------
(* What the server may do: answer the command at the head of owed.         *)
LEMMA Answers ==
  ASSUME Connections, owed # <<>>, NEW k \in 1..5
  PROVE  Asked \in Commands /\ Tail(owed) \in Seq(Commands) /\ Reply(Asked, k) \in Replies
<1>1. owed \in Seq(Commands)
  BY DEF Connections
<1>2. Asked \in Commands /\ Tail(owed) \in Seq(Commands)
  BY <1>1 DEF Asked
<1>3. \A c \in Commands : Reply(c, k) \in Replies
  BY DEF Reply, Replies, Kids
<1> QED BY <1>2, <1>3

(* A listing that ends early is about some of the directories, the last of *)
(* them perhaps in part.                                                   *)
LEMMA PartsAre ==
  ASSUME NEW c, NEW x \in Parts(c)
  PROVE  \/ \E S \in SUBSET Sections(c) : x = [tree |-> [p \in S |-> Kids(p)], cut |-> TRUE]
         \/ \E S \in SUBSET Sections(c) : \E last \in S : \E part \in SUBSET Kids(last) :
              x = [tree |-> [p \in S |-> IF p = last THEN part ELSE Kids(p)], cut |-> FALSE]
<1> DEFINE heads == {S \in SUBSET Sections(c) : \A p \in S : \A q \in Sections(c) :
                       (\E n \in Names : p = Append(q, n)) => q \in S}
           Begun1(S) == [tree |-> [p \in S |-> Kids(p)], cut |-> TRUE]
           Upto(S, last, part) == [tree |-> [p \in S |-> IF p = last THEN part ELSE Kids(p)], cut |-> FALSE]
           From(S, last) == {Upto(S, last, part) : part \in SUBSET Kids(last)}
           In(S) == UNION {From(S, last) : last \in S}
           few == IF c.cmd = "LIST" THEN {} ELSE heads
<1>1. Parts(c) = {Begun1(S) : S \in few} \cup UNION {In(S) : S \in heads}
  BY DEF Parts
<1>2. heads \subseteq SUBSET Sections(c) /\ few \subseteq heads
  OBVIOUS
<1> HIDE DEF heads, few
<1>3. CASE x \in {Begun1(S) : S \in few}
  BY <1>2, <1>3
<1>4. CASE x \in UNION {In(S) : S \in heads}
  <2> HIDE DEF In
  <2>1. PICK S \in heads : x \in In(S)
    BY <1>4
  <2> HIDE DEF From
  <2>2. PICK last \in S : x \in From(S, last)
    BY <2>1 DEF In
  <2> HIDE DEF Upto
  <2>3. PICK part \in SUBSET Kids(last) : x = Upto(S, last, part)
    BY <2>2 DEF From
  <2>4. S \in SUBSET Sections(c) /\ \E l \in S : \E p \in SUBSET Kids(l) : x = Upto(S, l, p)
    BY <1>2, <2>3
  <2> QED BY <2>4 DEF Upto
<1> HIDE DEF Begun1, In
<1> QED BY <1>1, <1>3, <1>4

LEMMA ListingsFit ==
  ASSUME NEW c \in Commands
  PROVE  Tree(Whole(c).tree) /\ \A part \in Parts(c) : Tree(part.tree)
<1>1. Sections(c) \subseteq W!Path
  BY ShareAssumption DEF Sections, Commands, W!Path
<1>2. \A p : Kids(p) \subseteq Names
  BY DEF Kids
<1>3. Tree(Whole(c).tree)
  BY <1>1, <1>2 DEF Tree, Whole
<1>4. ASSUME NEW S \in SUBSET Sections(c) PROVE Tree([p \in S |-> Kids(p)])
  BY <1>1, <1>2 DEF Tree
<1>5. ASSUME NEW S \in SUBSET Sections(c), NEW last \in S, NEW part \in SUBSET Kids(last)
      PROVE  Tree([p \in S |-> IF p = last THEN part ELSE Kids(p)])
  BY <1>1, <1>2 DEF Tree
<1>6. ASSUME NEW x \in Parts(c) PROVE Tree(x.tree)
  <2>1. \/ \E S \in SUBSET Sections(c) : x = [tree |-> [p \in S |-> Kids(p)], cut |-> TRUE]
        \/ \E S \in SUBSET Sections(c) : \E last \in S : \E part \in SUBSET Kids(last) :
             x = [tree |-> [p \in S |-> IF p = last THEN part ELSE Kids(p)], cut |-> FALSE]
    BY PartsAre
  <2>2. CASE \E S \in SUBSET Sections(c) : x = [tree |-> [p \in S |-> Kids(p)], cut |-> TRUE]
    BY <1>4, <2>2
  <2>3. CASE \E S \in SUBSET Sections(c) : \E last \in S : \E part \in SUBSET Kids(last) :
               x = [tree |-> [p \in S |-> IF p = last THEN part ELSE Kids(p)], cut |-> FALSE]
    BY <1>5, <2>3
  <2> QED BY <2>1, <2>2, <2>3
<1> QED BY <1>3, <1>6

(* It never takes back data, nor changes what the client is at.            *)
LEMMA ServerConnections ==
  ASSUME Connections, ServerStep
  PROVE  Connections' /\ UNCHANGED clientVars /\ (data # <<>> => data' # <<>>)
<1>1. UNCHANGED clientVars /\ netbuff' = netbuff
  BY DEF ServerStep, clientVars
<1>2. (Busy \/ Listing) => owed # <<>>
  BY DEF Busy, Listing
<1> HIDE DEF Asked
<1>3. ASSUME NEW k \in 1..5, Busy \/ Listing, Reported(k) PROVE wire' \in Seq(Replies)
  BY <1>2, <1>3, Answers DEF Reported, Connections
<1>4. (Busy \/ Listing) => Asked \in Commands /\ Tail(owed) \in Seq(Commands)
  BY <1>2, Answers
<1>5. CASE Answer
  <2>1. \A c : Codes(c) \subseteq 1..5
    BY DEF Codes
  <2>2. Busy /\ owed' = Tail(owed) /\ (\E k \in 1..5 : Reported(k)) /\ UNCHANGED <<mode, faults, up, steps, dsock, linked, data>>
    BY <1>5, <2>1 DEF Answer
  <2>3. wire' \in Seq(Replies) /\ owed' \in Seq(Commands)
    BY <1>3, <1>4, <2>2
  <2> QED BY <1>1, <2>2, <2>3 DEF Connections, Tree
<1>6. CASE Begin
  <2>1. wire' \in Seq(Replies)
    BY <1>3, <1>6 DEF Begin
  <2> QED BY <1>1, <1>6, <2>1 DEF Begin, Connections, Tree
<1>7. CASE Link \/ Drop
  BY <1>1, <1>7 DEF Link, Drop, Connections, Tree
<1>8. CASE Transmit
  <2>1. Asked \in Commands /\ data' = <<Whole(Asked)>>
    BY <1>4, <1>8 DEF Transmit
  <2>2. data' = <<data'[1]>> /\ Tree(data'[1].tree) /\ data' # <<>>
    BY <2>1, ListingsFit
  <2>3. Tree(data'[1].tree) => Tree(data[1].tree)'
    BY DEF Tree
  <2> QED BY <1>1, <1>8, <2>2, <2>3 DEF Transmit, Connections
<1>9. ASSUME NEW k \in 1..5, Listing, EndTransfer(k), data' = data \/ (data' = <<data'[1]>> /\ Tree(data'[1].tree))
      PROVE  Connections'
  <2>1. wire' \in Seq(Replies) /\ owed' \in Seq(Commands)
    BY <1>3, <1>4, <1>9 DEF EndTransfer
  <2>2. Tree(data'[1].tree) => Tree(data[1].tree)'
    BY DEF Tree
  <2> QED BY <1>1, <1>9, <2>1, <2>2 DEF EndTransfer, Connections
<1>10. CASE Complete
  BY <1>1, <1>9, <1>10 DEF Complete
<1>11. CASE Refuse
  BY <1>1, <1>9, <1>11 DEF Refuse
<1>12. CASE Abort
  <2>1. Asked \in Commands /\ Listing /\ EndTransfer(4)
    BY <1>4, <1>12 DEF Abort
  <2>2. data' = data \/ \E part \in Parts(Asked) : data' = <<part>>
    BY <1>12 DEF Abort
  <2>3. data' = data \/ (data' = <<data'[1]>> /\ Tree(data'[1].tree) /\ data' # <<>>)
    BY <2>1, <2>2, ListingsFit
  <2> QED BY <1>1, <1>9, <2>1, <2>3
<1> QED BY <1>5, <1>6, <1>7, <1>8, <1>10, <1>11, <1>12 DEF ServerStep, Server

LEMMA ReconnectConnections == ASSUME Connections, Reconnect PROVE Connections'
<1>1. owed' \in Seq(Commands)
  <2>1. Command("greeting", <<>>) \in Commands
    BY CommandsToSend, RootIsPath DEF Starting
  <2> QED BY <2>1 DEF Reconnect, tryconn
<1>2. wire' \in Seq(Replies) /\ netbuff' \in Seq(Replies)
  BY DEF Reconnect, tryconn
<1> QED BY <1>1, <1>2 DEF Reconnect, Quit, Disconnected, tryconn, Connections

-----------------------------------------------------------------------------
(* What a step of the client tells the engine keeps the walk's types.      *)
LEMMA WalkTypes ==
  ASSUME W!TypeOK,
         \/ UNCHANGED walk
         \/ \E kids \in SUBSET Names : W!Enter(kids)
         \/ \E n \in Names : W!Descend(n) \/ W!Refuse(n)
         \/ W!Ascend \/ W!AscendFails \/ W!Finish
  PROVE  W!TypeOK'
<1> USE DEF W!Path, WP!Path
<1>1. W!TypeOK <=> WP!TypeOK
  BY DEF W!TypeOK, WP!TypeOK
<1>2. W!TypeOK' <=> WP!TypeOK'
  BY DEF W!TypeOK, WP!TypeOK
<1>3. CASE UNCHANGED walk
  BY <1>3 DEF walk, W!TypeOK
<1>4. CASE \E kids \in SUBSET Names : W!Enter(kids)
  <2>1. PICK kids \in SUBSET Names : WP!Enter(kids)
    BY <1>4 DEF W!Enter, WP!Enter
  <2> QED BY <1>1, <1>2, <2>1, WP!EnterType, ShareAssumption
<1>5. CASE \E n \in Names : W!Descend(n)
  <2>1. PICK n \in Names : WP!Descend(n)
    BY <1>5 DEF W!Descend, WP!Descend, W!Try, WP!Try, W!Rest, WP!Rest, W!RestWithout, WP!RestWithout
  <2> QED BY <1>1, <1>2, <2>1, WP!DescendType, ShareAssumption
<1>6. CASE \E n \in Names : W!Refuse(n)
  <2>1. PICK n \in Names : WP!Refuse(n)
    BY <1>6 DEF W!Refuse, WP!Refuse, W!Try, WP!Try, W!Rest, WP!Rest, W!RestWithout, WP!RestWithout
  <2> QED BY <1>1, <1>2, <2>1, WP!RefuseType, ShareAssumption
<1>7. CASE W!Ascend
  <2>1. WP!Ascend
    BY <1>7 DEF W!Ascend, WP!Ascend, W!Leaving, WP!Leaving, W!Rest, WP!Rest, W!Parent, WP!Parent
  <2> QED BY <1>1, <1>2, <2>1, WP!AscendType, ShareAssumption
<1>8. CASE W!AscendFails \/ W!Finish
  BY <1>8 DEF W!TypeOK, W!AscendFails, W!Leaving, W!Finish
<1> QED BY <1>3, <1>4, <1>5, <1>6, <1>7, <1>8

(* What of the walk and the way it goes is unchanged.                      *)
LEMMA TargetKept == UNCHANGED <<walk, curpath>> /\ Target => Target'
BY DEF walk, Target, W!Rest, W!Parent

(* While the walker's directory stays, it is enough to know whether it is  *)
(* on its way.                                                             *)
LEMMA StayPlace ==
  ASSUME Place, UNCHANGED <<walk, curpath>>,
         Going' => Going,
         ~Going' => ~Going \/ job' = "refused" \/ pc' \in {"failure", "noconnect"},
         job' = "start" => job = "start",
         ~Going /\ (job = "refused" \/ pc \in {"failure", "noconnect"})
           => job' = "refused" \/ pc' \in {"failure", "noconnect"}
  PROVE  Place'
<1>1. W!TypeOK'
  BY WalkTypes DEF Place
<1>2. curpath' \in W!Path
  BY DEF Place
<1> USE DEF walk
<1>3. CASE Going'
  BY <1>1, <1>2, <1>3, TargetKept DEF Place
<1>4. CASE ~Going'
  BY <1>1, <1>2, <1>4 DEF Place, walk
<1> QED BY <1>3, <1>4

(* Entries are told of the engine's directory.                             *)
LEMMA TellPlace ==
  ASSUME Types, NEW kids \in SUBSET Names, Tell(kids), curpath' = curpath, job' = job,
         ~Going, job \notin {"start", "refused"}, pc \notin {"failure", "noconnect"}
  PROVE  Place'
<1>1. W!TypeOK'
  BY WalkTypes DEF Types, Place, Tell
<1>2. curpath' = path' /\ pc' = "ready" /\ curpath \in W!Path
  BY DEF Types, Place, Tell, W!Enter
<1>3. ~Going'
  BY <1>2 DEF Going, Starting
<1> QED BY <1>1, <1>2, <1>3 DEF Place

-----------------------------------------------------------------------------
(* Control and Place, one lemma for every group of steps.                  *)
LEMMA CacheKept ==
  ASSUME Control, UNCHANGED <<cache, faults>>
  PROVE  Typed(cache)' /\ ("names" \notin faults' => Tree(cache)')
BY DEF Control, Typed, Tree

LEMMA StartControl ==
  ASSUME Types,
         Reconnect \/ NoConnection \/ Greeted \/ User \/ Pass \/ Feat \/ Clnt \/ Opts \/ Reconnected \/ Type \/ NotStarted
  PROVE  Control' /\ Counts'
<1> USE DEF Types, Control, Counts, Starting, ByList, Tree, Typed
<1>1. CASE Reconnect \/ NoConnection \/ NotStarted
  BY <1>1 DEF Reconnect, NoConnection, NotStarted, server, Quit, Disconnected
<1>2. CASE Greeted \/ User
  BY <1>2 DEF Greeted, User, Then, Enough, Ask, server, dtp
<1>3. CASE Pass
  BY <1>3 DEF Pass, LoggedOn, Then, Enough, Ask, server, dtp
<1>4. CASE Feat
  BY <1>4 DEF Feat, LoggedOn, Then, Enough, Ask, server, dtp
<1>5. CASE Clnt \/ Opts
  BY <1>5 DEF Clnt, Opts, LoggedOn, Then, Enough, Ask, server, dtp
<1>6. CASE Reconnected
  BY <1>6 DEF Reconnected, Then, Enough, Ask, server, dtp
<1>7. CASE Type
  BY <1>7 DEF Type, Enough, server, dtp
<1> QED BY <1>1, <1>2, <1>3, <1>4, <1>5, <1>6, <1>7

LEMMA StartPlace ==
  ASSUME Types,
         Reconnect \/ NoConnection \/ Greeted \/ User \/ Pass \/ Feat \/ Clnt \/ Opts \/ Reconnected \/ Type \/ NotStarted
  PROVE  Place'
<1>1. UNCHANGED <<walk, curpath>>
  BY DEF Reconnect, NoConnection, Greeted, User, Pass, Feat, Clnt, Opts, Reconnected, Type, NotStarted
<1> USE DEF Types, Control, Starting, Going
<1>2. CASE Reconnect \/ NoConnection \/ NotStarted
  BY <1>1, <1>2, StayPlace DEF Reconnect, NoConnection, NotStarted
<1>3. CASE Greeted \/ User
  BY <1>1, <1>3, StayPlace DEF Greeted, User, Then, Enough, Ask
<1>4. CASE Pass \/ Feat
  BY <1>1, <1>4, StayPlace DEF Pass, Feat, LoggedOn, Then, Enough, Ask
<1>5. CASE Clnt \/ Opts
  BY <1>1, <1>5, StayPlace DEF Clnt, Opts, LoggedOn, Then, Enough, Ask
<1>6. CASE Reconnected \/ Type
  BY <1>1, <1>6, StayPlace DEF Reconnected, Type, Then, Enough, Ask
<1> QED BY <1>2, <1>3, <1>4, <1>5, <1>6

(* Errors are counted down to the one that ends the program.               *)
LEMMA FailCounts ==
  ASSUME Types, Failing, pc \notin {"failure", "noconnect"}
  PROVE  /\ pc' \in {"connect", "failure", "noconnect"}
         /\ errors' \in Int /\ -2 <= errors' /\ errors' <= MaxErrors
         /\ errors' = -2 => pc' \in {"failure", "noconnect"}
<1>1. errors \in Int /\ -1 <= errors /\ errors <= MaxErrors /\ MaxErrors \in Nat
  BY CasesAssumption DEF Types, Counts
<1> QED BY <1>1, FailingIs

(* The retries of the active mode start, while errors stay.                *)
LEMMA CountsStart ==
  ASSUME Counts, errors' = errors, errors # -2, tries' = 2
  PROVE  Counts'
BY DEF Counts

LEMMA CountsStay ==
  ASSUME Counts, errors' = errors, errors # -2, tries' = tries, pc' \notin {"PORT", "select"}
  PROVE  Counts'
BY DEF Counts

LEMMA ListControl ==
  ASSUME Types, CacheDirs \/ FindFirstFile \/ Stat \/ Passive \/ Port \/ Select \/ SelectTimedOut \/ Accept \/ Excuse \/ Transferring
  PROVE  Control' /\ Counts'
<1> USE DEF Types, Control, Counts, Starting, ByList, Tree, Typed
<1>2. mode \in {"stat", "passive", "active", "Rp", "Ra"}
  BY CasesAssumption DEF Connections
<1>3. ASSUME NoListing PROVE pc' \in {"failure", "ready"}
  BY <1>3 DEF NoListing, Tell
<1>4. CASE CacheDirs
  <2>1. /\ mode \in {"Rp", "Ra"} /\ pc \in {"CWD root", "TYPE"} /\ job = "start"
        /\ UNCHANGED <<mode, faults, job, errors, cache, cp>>
        /\ pc' \in {"failure", "TYPE"} \/ (pc' = "PASV" /\ mode = "Rp") \/ (pc' = "PORT" /\ mode = "Ra")
        /\ tries' = 2 \/ (tries' = tries /\ pc' # "PORT")
    BY <1>4 DEF CacheDirs, Dtp, Then, Enough, Ask, server
  <2>2. Control'
    BY <2>1
  <2>3. Counts'
    BY <2>1, CountsStart, CountsStay
  <2> QED BY <2>2, <2>3
<1>5. CASE FindFirstFile
  <2>1. /\ UNCHANGED <<mode, faults, errors, cache, cp>>
        /\ pc \in {"ready", "list"} /\ job' = "list"
        /\ \/ pc' = "STAT" /\ mode \notin {"passive", "active"}
           \/ pc' = "PASV" /\ mode = "passive"
           \/ pc' = "PORT" /\ mode = "active"
        /\ tries' = 2 \/ (tries' = tries /\ pc' # "PORT")
    BY <1>2, <1>5 DEF FindFirstFile, Dtp, Ask, server
  <2>2. Control'
    BY <2>1
  <2>3. Counts'
    BY <2>1, CountsStart, CountsStay
  <2> QED BY <2>2, <2>3
<1>6. CASE Stat \/ Excuse
  BY <1>3, <1>6 DEF Stat, Excuse, Tell, server
<1>7. CASE Passive
  <2>1. /\ pc = "PASV" /\ UNCHANGED <<mode, faults, job, tries, cache, cp>>
        /\ \/ errors' = errors /\ pc' \in {"150", "failure", "ready"}
           \/ errors' = errors /\ pc' = "excuse" /\ "nodata" \in faults
           \/ Failing
    BY <1>3, <1>7 DEF Passive, server, Failing
  <2> QED BY <2>1, FailCounts
<1>8. CASE Port
  BY <1>3, <1>8 DEF Port, server
<1>9. CASE Select
  <2>1. /\ pc = "select" /\ UNCHANGED <<mode, faults, job, errors, cache, cp>>
        /\ \/ tries' = tries /\ pc' \in {"150", "accept", "failure", "ready"}
           \/ tries' = tries - 1 /\ tries > 1 /\ pc' = "PORT"
           \/ tries' = tries - 1 /\ pc' \in {"failure", "ready"}
    BY <1>3, <1>9 DEF Select, Accepted, Then, Ask, server
  <2>2. Control'
    BY <2>1
  <2>3. Counts'
    BY <2>1
  <2> QED BY <2>2, <2>3
<1>10. CASE Accept \/ SelectTimedOut
  BY <1>10 DEF Accept, SelectTimedOut, Accepted, tcp, server, dtp
<1>11. CASE Transferring
  BY <1>3, <1>11 DEF Transferring, server
<1> QED BY <1>4, <1>5, <1>6, <1>7, <1>8, <1>9, <1>10, <1>11

LEMMA ListPlace ==
  ASSUME Types, CacheDirs \/ FindFirstFile \/ Stat \/ Passive \/ Port \/ Select \/ SelectTimedOut \/ Accept \/ Excuse \/ Transferring
  PROVE  Place'
<1> USE DEF Types, Control, Starting, ByList, Going
<1>1. ASSUME NoListing, curpath' = curpath, job' = job, pc \in ByList PROVE Place'
  <2>1. CASE ~Caching /\ Tell({})
    BY <1>1, <2>1, TellPlace DEF Caching
  <2>2. CASE pc' = "failure" /\ UNCHANGED walk
    BY <1>1, <2>2, StayPlace
  <2> QED BY <1>1, <2>1, <2>2 DEF NoListing
<1>4. CASE CacheDirs
  BY <1>4, StayPlace DEF CacheDirs, Dtp, Then, Enough, Ask
<1>5. CASE FindFirstFile
  BY <1>5, StayPlace DEF FindFirstFile, Dtp, Ask
<1>6. CASE Stat
  <2>1. Incoming.kids \subseteq Names
    BY <1>6, FirstOnLine DEF Stat, Replies
  <2>2. \E kids \in SUBSET Names : Tell(kids)
    BY <1>6, <2>1 DEF Stat
  <2> QED BY <1>6, <2>2, TellPlace DEF Stat
<1>7. CASE Excuse
  BY <1>1, <1>7 DEF Excuse
<1>8. CASE Passive
  <2>1. CASE UNCHANGED walk
    BY <1>8, <2>1, StayPlace, FailingIs DEF Passive, Failing, NoListing, Tell
  <2>2. CASE NoListing
    BY <1>1, <1>8, <2>2 DEF Passive
  <2> QED BY <1>8, <2>1, <2>2 DEF Passive
<1>9. CASE Port
  BY <1>1, <1>9, StayPlace DEF Port
<1>10. CASE Select
  BY <1>1, <1>10, StayPlace DEF Select, Accepted, Then, Ask
<1>11. CASE Accept \/ SelectTimedOut
  BY <1>11, StayPlace DEF Accept, SelectTimedOut, Accepted
<1>12. CASE Transferring
  BY <1>1, <1>12, StayPlace DEF Transferring
<1> QED BY <1>4, <1>5, <1>6, <1>7, <1>8, <1>9, <1>10, <1>11, <1>12

(* What is made of a listing of everything still is one of directories.    *)
LEMMA ParsedFits ==
  ASSUME NEW tree, Tree(tree), NEW t \in Parsed(tree)
  PROVE  Tree(t)
<1>1. CASE "long" \notin faults
  BY <1>1 DEF Parsed
<1>2. CASE "long" \in faults
  <2> DEFINE losses == {{}} \cup {{p} : p \in {q \in DOMAIN tree : Len(q) = 1}}
             Cut(part, lost) == Restricted([tree EXCEPT ![<<>>] = part], DOMAIN tree \ lost)
             Cuts(lost) == {Cut(part, lost) : part \in SUBSET tree[<<>>]}
  <2>1. t \in UNION {Cuts(lost) : lost \in losses}
    BY <1>2 DEF Parsed
  <2> HIDE DEF losses, Cuts
  <2>2. PICK lost \in losses : t \in Cuts(lost)
    BY <2>1
  <2> HIDE DEF Cut
  <2>3. PICK part \in SUBSET tree[<<>>] : t = Cut(part, lost)
    BY <2>2 DEF Cuts
  <2> DEFINE g == [tree EXCEPT ![<<>>] = part]
  <2>4. DOMAIN g = DOMAIN tree /\ \A p \in DOMAIN tree : g[p] = IF p = <<>> THEN part ELSE tree[p]
    OBVIOUS
  <2>5. Tree(g)
    BY <2>4 DEF Tree
  <2> HIDE DEF g
  <2>6. t = [x \in DOMAIN g \cap (DOMAIN tree \ lost) |-> g[x]]
    BY <2>3 DEF Cut, Restricted, g
  <2> QED BY <2>5, <2>6 DEF Tree
<1> QED BY <1>1, <1>2

LEMMA Kinds == \A f : Tree(f) => Typed(f)
BY DEF Tree, Typed, Kids

LEMMA MisnamedFits ==
  ASSUME NEW t, Tree(t), NEW f \in Misnamed(t)
  PROVE  Typed(f)
<1> DEFINE Under(D) == {g \in [D -> SUBSET Names] : g[<<>>] = t[<<>>]}
           Names1 == {E \in SUBSET DOMAIN t : <<>> \in E}
<1>1. f \in UNION {Under(D) : D \in Names1}
  BY DEF Misnamed
<1> HIDE DEF Under
<1>2. PICK D \in Names1 : f \in Under(D)
  BY <1>1
<1>3. f \in [D -> SUBSET Names] /\ D \subseteq DOMAIN t
  BY <1>2 DEF Under
<1> QED BY <1>3 DEF Tree, Typed

LEMMA OtherControl ==
  ASSUME Types,
         \/ extend_cache \/ TellCached \/ GoCached \/ ReadAllData \/ ListRead \/ ListBroken \/ DataBroken
         \/ (\E n \in Names : GoChild(n)) \/ GoParent \/ GoAgain \/ ChDir \/ GoBroken \/ Finish
  PROVE  Control' /\ Counts'
<1> USE DEF Types, Control, Counts, Starting, ByList, Typed
<1>2. CASE extend_cache
  <2>1. Tree(data[1].tree)
    BY <1>2 DEF extend_cache, Connections
  <2>2. cache' = cache \/ Tree(cache') \/ ("names" \in faults /\ Typed(cache'))
    <3>1. cache' = cache \/ Cached(data[1].tree)
      BY <1>2 DEF extend_cache, NotCached
    <3>2. ASSUME NEW t \in Parsed(data[1].tree), cache' \in Misnamed(t) PROVE Typed(cache')
      BY <2>1, <3>2, ParsedFits, MisnamedFits
    <3> QED BY <2>1, <3>1, <3>2, ParsedFits DEF Cached, NotCached
  <2>3. /\ pc = "226" /\ job = "start" /\ mode \in {"Rp", "Ra"} /\ UNCHANGED <<mode, faults, tries, errors, cp>>
        /\ \/ pc' \in {"loops", "failure", "ready"} /\ job' = job
           \/ pc' = "ready" /\ job' = "cached"
    BY <1>2 DEF extend_cache, Cached, NotCached, CloseData, Caching, server
  <2>4. Typed(cache') /\ ("names" \notin faults => Tree(cache'))
    BY <2>2, Kinds
  <2> QED BY <2>3, <2>4 DEF Tree
<1>3. CASE TellCached
  <2>1. Typed(cache') /\ ("names" \notin faults => Tree(cache'))
    BY <1>3 DEF TellCached, Tree
  <2> QED BY <1>3, <2>1 DEF TellCached, Tell, server, dtp, Tree
<1>4. CASE GoCached \/ Finish
  BY <1>4 DEF GoCached, Finish, server, dtp, Tree
<1>5. CASE ReadAllData
  BY <1>5 DEF ReadAllData, server, Tree
<1>6. CASE ListRead
  BY <1>6 DEF ListRead, CloseData, Tell, server, Tree
<1>7. CASE ListBroken \/ DataBroken \/ GoBroken
  <2>1. /\ UNCHANGED <<mode, faults, job, tries, cache, cp>>
        /\ pc \in ByList \cup {"STAT", "CWD"}
        /\ Failing
    BY <1>7 DEF ListBroken, DataBroken, GoBroken, server, Failing
  <2> QED BY <2>1, FailCounts DEF Tree
<1>8. CASE (\E n \in Names : GoChild(n)) \/ GoParent \/ GoAgain
  BY <1>8 DEF GoChild, GoParent, GoAgain, GoTo, Ask, server, dtp, Tree
<1>9. CASE ChDir
  BY <1>9 DEF ChDir, server, dtp, Tree
<1> QED BY <1>2, <1>3, <1>4, <1>5, <1>6, <1>7, <1>8, <1>9

(* Where the walker goes, by what the engine asked for.                    *)
LEMMA GoalIsChild ==
  ASSUME Types, ChDir
  PROVE  /\ W!Rest \subseteq Names
         /\ Down => \E n \in W!Rest : curpath = Append(path, n) /\ Goal = n
         /\ ~Down => curpath = W!Parent(path)
<1>1. Target /\ W!TypeOK /\ curpath \in W!Path /\ path \in W!Path
  BY DEF ChDir, Types, Control, Place, Going, Starting, W!TypeOK
<1>2. path \in Seq(Names) /\ curpath \in Seq(Names) /\ W!Rest \subseteq Names
  <2>1. left \in Seq(SUBSET Names) /\ Len(left) = Len(path) + 1 /\ path \in Seq(Names)
    BY <1>1 DEF W!TypeOK, Target, W!Path
  <2>2. Len(left) \in 1..Len(left)
    <3>1. Len(path) \in Nat /\ Len(left) \in Nat
      BY <2>1, LenProperties
    <3> QED BY <2>1, <3>1
  <2>3. left[Len(left)] \in SUBSET Names
    BY <2>1, <2>2
  <2> QED BY <1>1, <2>1, <2>3 DEF W!Rest, W!Path
<1>3. Down => \E n \in W!Rest : curpath = Append(path, n) /\ Goal = n
  <2>1. ASSUME NEW n \in W!Rest, curpath = Append(path, n) PROVE Goal = n
    BY <1>2, <2>1, AppendPath DEF Goal
  <2>2. W!Rest = {} /\ path # <<>> /\ curpath = W!Parent(path) => ~Down
    <3>1. path # <<>> => Len(SubSeq(path, 1, Len(path) - 1)) = Len(path) - 1
      BY <1>2, FrontPath
    <3>2. Len(path) \in Nat
      BY <1>2, LenProperties
    <3> QED BY <3>1, <3>2 DEF Down, W!Parent
  <2> QED BY <1>1, <2>1, <2>2 DEF Target
<1>4. ~Down => curpath = W!Parent(path)
  <2>1. ASSUME NEW n \in W!Rest, curpath = Append(path, n) PROVE Down
    BY <1>2, <2>1, AppendPath DEF Down
  <2> QED BY <1>1, <2>1 DEF Target
<1> QED BY <1>2, <1>3, <1>4

(* The walker goes where the engine wants it: a CWD that was answered ends *)
(* the way, over any number of new connections.                            *)
LEMMA ChDirArrives ==
  ASSUME Types, ChDir
  PROVE  Place'
<1> USE DEF Types, Control, Going, Starting
<1>1. Target /\ W!TypeOK /\ curpath \in W!Path /\ path \in W!Path /\ pc' \in {"ready", "failure"} /\ job' = "go" /\ ~Going'
  BY DEF ChDir, Place, W!TypeOK
<1>2. W!Rest \subseteq Names
  BY GoalIsChild
<1>3. Down => \E n \in W!Rest : curpath = Append(path, n) /\ Goal = n
  BY GoalIsChild
<1>4. ~Down => curpath = W!Parent(path)
  BY GoalIsChild
<1> HIDE DEF Types, Control, Going, Starting
<1>5. CASE Down /\ W!Descend(Goal) /\ pc' = "ready" /\ curpath' = curpath
  <2>1. path' = curpath
    BY <1>3, <1>5 DEF W!Descend
  <2>2. W!TypeOK'
    BY <1>1, <1>2, <1>3, <1>5, WalkTypes
  <2> QED BY <1>1, <1>5, <2>1, <2>2 DEF Place
<1>6. CASE ~Down /\ W!Ascend /\ pc' = "ready" /\ curpath' = curpath
  <2>1. W!TypeOK'
    BY <1>1, <1>6, WalkTypes
  <2> QED BY <1>1, <1>4, <1>6, <2>1 DEF Place, W!Ascend
<1>7. CASE Down /\ W!Refuse(Goal) /\ pc' = "ready" /\ curpath' = path
  <2>1. W!TypeOK'
    BY <1>1, <1>2, <1>3, <1>7, WalkTypes
  <2> QED BY <1>1, <1>7, <2>1 DEF Place, W!Refuse
<1>8. CASE ~Down /\ W!AscendFails /\ pc' = "failure" /\ curpath' = path
  <2>1. W!TypeOK'
    BY <1>1, <1>8, WalkTypes
  <2> QED BY <1>1, <1>8, <2>1 DEF Place, W!AscendFails
<1> QED BY <1>5, <1>6, <1>7, <1>8 DEF ChDir

LEMMA OtherPlace ==
  ASSUME Types,
         \/ extend_cache \/ TellCached \/ GoCached \/ ReadAllData \/ ListRead \/ ListBroken \/ DataBroken
         \/ (\E n \in Names : GoChild(n)) \/ GoParent \/ GoAgain \/ ChDir \/ GoBroken \/ Finish
  PROVE  Place'
<1> USE DEF Types, Control, Starting, ByList, Going
<1>1. CASE extend_cache \/ ReadAllData \/ ListBroken \/ DataBroken \/ GoBroken
  BY <1>1, StayPlace, FailingIs
  DEF extend_cache, CloseData, Cached, NotCached, ReadAllData, ListBroken, DataBroken, GoBroken, Failing
<1>2. CASE TellCached
  <2>1. \E kids \in SUBSET Names : Tell(kids)
    BY <1>2 DEF TellCached, Typed
  <2> QED BY <1>2, <2>1, TellPlace DEF TellCached
<1>3. CASE ListRead
  <2>1. Tree(data[1].tree)
    BY <1>3 DEF ListRead, Connections
  <2> DEFINE tree == data[1].tree
  <2>2. UNION {tree[p] : p \in DOMAIN tree} \in SUBSET Names
    <3>1. \A p \in DOMAIN tree : tree[p] \subseteq Names
      BY <2>1 DEF Tree, Kids
    <3> HIDE DEF tree
    <3>2. \A n \in UNION {tree[p] : p \in DOMAIN tree} : n \in Names
      BY <3>1, ZenonT(30)
    <3> QED BY <3>2
  <2>3. \E kids \in SUBSET Names : Tell(kids)
    BY <1>3, <2>2 DEF ListRead
  <2> QED BY <1>3, <2>3, TellPlace DEF ListRead, CloseData, Caching
<1>4. CASE GoCached
  <2>1. W!TypeOK'
    BY <1>4, WalkTypes DEF GoCached, Place
  <2> QED BY <1>4, <2>1 DEF GoCached, Place, W!TypeOK
<1>5. CASE \E n \in Names : GoChild(n)
  <2>1. PICK n \in Names : pc = "ready" /\ W!Try(n) /\ GoTo(Append(curpath, n))
    BY <1>5 DEF GoChild
  <2>2. curpath = path /\ curpath' = Append(path, n) /\ job' = "go" /\ pc' = "CWD" /\ UNCHANGED walk
    BY <2>1 DEF GoTo, Ask, Place
  <2>3. Append(path, n) \in W!Path
    BY <2>2, AppendProperties DEF Place, W!Path
  <2>4. W!TypeOK'
    BY <2>2, WalkTypes DEF Place
  <2>5. Target'
    BY <2>1, <2>2 DEF Target, W!Try, W!Rest, walk
  <2> QED BY <2>2, <2>3, <2>4, <2>5 DEF Place
<1>6. CASE GoParent
  <2>1. curpath = path /\ curpath' = W!Parent(path) /\ job' = "go" /\ pc' = "CWD" /\ UNCHANGED walk /\ W!Leaving
    BY <1>6 DEF GoParent, GoTo, Ask, Place
  <2>2. curpath' \in W!Path
    BY <2>1, FrontPath DEF W!Leaving, W!Parent, Place, W!Path
  <2>3. W!TypeOK'
    BY <2>1, WalkTypes DEF Place
  <2>4. Target'
    BY <2>1 DEF Target, W!Leaving, W!Rest, W!Parent, walk
  <2> QED BY <2>1, <2>2, <2>3, <2>4 DEF Place
<1>7. CASE GoAgain
  BY <1>7, StayPlace DEF GoAgain, GoTo, Ask
<1>8. CASE Finish
  <2>1. W!TypeOK'
    BY <1>8, WalkTypes DEF Finish, Place
  <2> QED BY <1>8, <2>1 DEF Finish, W!Finish, Place
<1> QED BY <1>1, <1>2, <1>3, <1>4, <1>5, <1>6, <1>7, <1>8, ChDirArrives

LEMMA InitTypes == Init => Types
<1> SUFFICES ASSUME Init PROVE Types
  OBVIOUS
<1>1. Connections
  <2>1. <<mode, faults>> \in Cases
    BY CasesAssumption DEF Init
  <2>2. owed \in Seq(Commands) /\ wire \in Seq(Replies) /\ netbuff \in Seq(Replies)
    BY DEF Init
  <2> QED BY <2>1, <2>2 DEF Init, Connections
<1>2. Control
  <2>1. Tree(<<>>) /\ Typed(<<>>)
    BY DEF Tree, Typed
  <2> QED BY <2>1 DEF Init, Control, Starting, ByList
<1>3. Counts
  BY CasesAssumption DEF Init, Counts
<1>4. Place
  <2>1. W!TypeOK /\ path = <<>> /\ phase = "enter"
    BY DEF Init, W!Init, W!TypeOK, W!Path
  <2> QED BY <2>1, RootIsPath DEF Init, Place, Going
<1> QED BY <1>1, <1>2, <1>3, <1>4 DEF Types

LEMMA NextTypes == Types /\ [Next]_vars => Types'
<1> SUFFICES ASSUME Types, [Next]_vars PROVE Types'
  OBVIOUS
<1>1. CASE Reconnect
  BY <1>1, ReconnectConnections, StartControl, StartPlace DEF Types
<1>2. CASE Greeted \/ User \/ Pass \/ Feat \/ Clnt \/ Opts \/ Reconnected \/ Type \/ NoConnection \/ NotStarted
  BY <1>2, StartSteps, ClientConnections, StartControl, StartPlace DEF Types
<1>3. CASE CacheDirs \/ FindFirstFile \/ Stat \/ Passive \/ Port \/ Select \/ SelectTimedOut \/ Accept \/ Excuse \/ Transferring
  BY <1>3, ListSteps, ClientConnections, ListControl, ListPlace DEF Types
<1>4. CASE \/ extend_cache \/ TellCached \/ GoCached \/ ReadAllData \/ ListRead \/ ListBroken \/ DataBroken
           \/ (\E n \in Names : GoChild(n)) \/ GoParent \/ GoAgain \/ ChDir \/ GoBroken \/ Finish
  BY <1>4, OtherSteps, ClientConnections, OtherControl, OtherPlace DEF Types
<1>5. CASE ServerStep
  <2>1. Connections' /\ UNCHANGED clientVars /\ (data # <<>> => data' # <<>>) /\ UNCHANGED <<mode, faults>>
    BY <1>5, ServerConnections DEF Types, ServerStep, Server, Answer, Begin, Link, Transmit, Complete, Refuse, Abort, Drop, EndTransfer
  <2>2. Control' /\ Counts'
    <3>1. UNCHANGED <<mode, faults, pc, job, cp, errors, tries, cache>> /\ (data # <<>> => data' # <<>>)
      BY <2>1 DEF clientVars
    <3>2. Typed(cache)' /\ ("names" \notin faults' => Tree(cache)')
      BY <3>1, CacheKept DEF Types
    <3>3. Counts'
      BY <3>1 DEF Types, Counts
    <3>4. Control'
      BY <3>1, <3>2, ZenonT(30) DEF Types, Control
    <3> QED BY <3>3, <3>4
  <2>3. Place'
    BY <2>1, StayPlace DEF Types, clientVars, Going
  <2> QED BY <2>1, <2>2, <2>3 DEF Types
<1>6. CASE UNCHANGED vars
  <2>1. Connections'
    BY <1>6 DEF Types, Connections, Tree, vars
  <2>2. Control' /\ Counts'
    <3>1. UNCHANGED <<mode, faults, pc, job, cp, errors, tries, cache, data>>
      BY <1>6 DEF vars
    <3>2. Typed(cache)' /\ ("names" \notin faults' => Tree(cache)')
      BY <3>1, CacheKept DEF Types
    <3>3. Counts'
      BY <3>1 DEF Types, Counts
    <3>4. Control'
      BY <3>1, <3>2, ZenonT(30) DEF Types, Control
    <3> QED BY <3>3, <3>4
  <2>3. Place'
    BY <1>6, StayPlace DEF Types, Going, vars, walk
  <2> QED BY <2>1, <2>2, <2>3 DEF Types
<1> QED BY <1>1, <1>2, <1>3, <1>4, <1>5, <1>6 DEF Next, Client

(* TYPE: TypeOK holds for every share and server: between two calls of the *)
(* engine the walker is in the engine's directory, though calls fail and   *)
(* are repeated over new connections.                                      *)
THEOREM TypeCorrect == Spec => []TypeOK
<1>1. Types => TypeOK
  <2> SUFFICES ASSUME Types PROVE TypeOK
    OBVIOUS
  <2>1. netbuff \o wire \in Seq([to : Commands, code : 1..5, kids : SUBSET Names])
    BY DEF Types, Connections, Replies
  <2>2. Len(data) <= 1 /\ \A f \in {cache} \cup {data[i].tree : i \in DOMAIN data} : Typed(f)
    <3>1. CASE data = <<>>
      <4>1. Len(data) = 0 /\ DOMAIN data = {}
        BY <3>1
      <4>2. Typed(cache)
        BY DEF Types, Control
      <4> QED BY <4>1, <4>2
    <3>2. CASE data = <<data[1]>> /\ Tree(data[1].tree)
      <4>1. Len(data) = 1 /\ DOMAIN data = {1}
        BY <3>2
      <4>2. Typed(cache)
        BY DEF Types, Control
      <4> QED BY <3>2, <4>1, <4>2, Kinds
    <3> QED BY <3>1, <3>2 DEF Types, Connections
  <2>3. pc = "ready" => curpath = path
    BY DEF Types, Control, Place, Going, Starting
  <2>4. errors \in -2..MaxErrors
    BY CasesAssumption DEF Types, Counts
  <2> QED BY <2>1, <2>2, <2>3, <2>4 DEF TypeOK, Types, Connections, Control, Counts, Place, ByList, Typed
<1> QED BY <1>1, InitTypes, NextTypes, PTL DEF Spec

-----------------------------------------------------------------------------
(* The transfer's steps belong to the command that is answered.            *)
LEMMA StepsFitKept == Types /\ StepsFit /\ [Next]_vars => StepsFit'
<1> SUFFICES ASSUME Types, StepsFit, [Next]_vars PROVE StepsFit'
  OBVIOUS
<1>1. owed \in Seq(Commands)
  BY DEF Types, Connections
<1>2. ASSUME ClientStep PROVE StepsFit'
  <2>1. CASE owed' = owed
    BY <1>2, <2>1 DEF ClientStep, StepsFit
  <2>2. CASE \E c \in Commands : Sent(c)
    <3>1. PICK c \in Commands : owed' = IF up THEN Append(owed, c) ELSE owed
      BY <2>2 DEF Sent
    <3>2. owed # <<>> => Head(Append(owed, c)) = Head(owed)
      BY <1>1, HeadTailAppend
    <3>3. Append(owed, c) # <<>>
      BY <1>1, AppendProperties
    <3> QED BY <1>2, <3>1, <3>2, <3>3 DEF ClientStep, StepsFit
  <2> QED BY <1>2, <2>1, <2>2 DEF ClientStep, Asks
<1>3. CASE Reconnect
  BY <1>3 DEF Reconnect, tryconn, StepsFit
<1>4. CASE Greeted \/ User \/ Pass \/ Feat \/ Clnt \/ Opts \/ Reconnected \/ Type \/ NoConnection \/ NotStarted
  BY <1>2, <1>4, StartSteps
<1>5. CASE CacheDirs \/ FindFirstFile \/ Stat \/ Passive \/ Port \/ Select \/ SelectTimedOut \/ Accept \/ Excuse \/ Transferring
  BY <1>2, <1>5, ListSteps
<1>6. CASE \/ extend_cache \/ TellCached \/ GoCached \/ ReadAllData \/ ListRead \/ ListBroken \/ DataBroken
           \/ (\E n \in Names : GoChild(n)) \/ GoParent \/ GoAgain \/ ChDir \/ GoBroken \/ Finish
  BY <1>2, <1>6, OtherSteps
<1>7. CASE Answer
  BY <1>7 DEF Answer, Listing, Busy, Asked, StepsFit
<1>8. CASE Begin \/ Link \/ Transmit \/ Drop
  BY <1>8 DEF Begin, Link, Transmit, Drop, Listing, Busy, Asked, StepsFit
<1>9. CASE Complete \/ Refuse \/ Abort
  BY <1>9 DEF Complete, Refuse, Abort, EndTransfer, StepsFit
<1>10. CASE UNCHANGED vars
  BY <1>10 DEF vars, StepsFit
<1> QED BY <1>3, <1>4, <1>5, <1>6, <1>7, <1>8, <1>9, <1>10 DEF Next, Client, ServerStep, Server

-----------------------------------------------------------------------------
(* What reading a reply leaves of the answers to a command.                *)
LEMMA ReadSingle ==
  ASSUME Connections, rawread, NEW c, Single(c)
  PROVE  Line' = <<>> /\ Owing(<<>>)
<1>1. Len(Line) = 1 /\ Owing(<<>>)
  BY ReadOne, FirstOnLine DEF Single
<1>2. Len(Line') = 0 /\ Line' \in Seq(Replies)
  BY <1>1, ReadOne DEF Line
<1> QED BY <1>1, <1>2

LEMMA ReadBegun ==
  ASSUME Connections, rawread, NEW c, Begun(c)
  PROVE  Line' = <<>> /\ Owing(<<>>) /\ Code # 1
<1>1. Len(Line) = 1 /\ Owing(<<>>) /\ Line[1].code # 1
  BY ReadOne, FirstOnLine DEF Begun
<1>2. Len(Line') = 0 /\ Line' \in Seq(Replies)
  BY <1>1, ReadOne DEF Line
<1>3. Code = Line[1].code
  BY <1>1, FirstOnLine DEF Code
<1> QED BY <1>1, <1>2, <1>3

LEMMA ReadUnread ==
  ASSUME Connections, rawread, NEW c, Unread(c)
  PROVE  /\ Code # 1 => Line' = <<>> /\ Owing(<<>>)
         /\ Code = 1 => \/ Line' = <<>> /\ Owing(<<c>>) /\ (up => "150" \in steps)
                        \/ Len(Line') = 1 /\ Line'[1].to = c /\ Line'[1].code # 1 /\ Owing(<<>>)
<1>1. Len(Line) \in Nat \ {0} /\ Len(Line') = Len(Line) - 1
      /\ (\A i \in 1..Len(Line') : Line'[i] = Line[i + 1]) /\ Line' \in Seq(Replies)
  BY ReadOne DEF Line
<1>2. Code = Line[1].code /\ Line # <<>>
  BY <1>1, FirstOnLine DEF Code
<1>3. CASE Len(Line) = 1
  <2>1. Line' = <<>>
    BY <1>1, <1>3
  <2> QED BY <1>2, <1>3, <2>1 DEF Unread
<1>4. CASE Len(Line) = 2
  <2>1. Len(Line') = 1 /\ Line'[1] = Line[2]
    BY <1>1, <1>4
  <2> QED BY <1>2, <1>4, <2>1 DEF Unread
<1> QED BY <1>2, <1>3, <1>4 DEF Unread

(* What sending a command when nothing is to come leads to.                *)
LEMMA SentAlone ==
  ASSUME Connections, StepsFit, UNCHANGED <<up, steps>>, Line' = <<>>, Owing(<<>>), NEW c, Sent(c)
  PROVE  Single(c)' /\ Unread(c)'
<1>1. up => owed = <<>> /\ steps = {}
  BY DEF Owing, StepsFit
<1>2. up' => owed' = <<c>>
  BY <1>1 DEF Sent
<1> QED BY <1>1, <1>2 DEF Single, Unread, Owing

(* A reply that comes is the last on the line.                             *)
LEMMA LineGrows ==
  ASSUME Connections, NEW r \in Replies, wire' = Append(wire, r), netbuff' = netbuff
  PROVE  Len(Line') = Len(Line) + 1 /\ Line'[Len(Line) + 1] = r
         /\ \A i \in 1..Len(Line) : Line'[i] = Line[i]
BY DEF Connections, Line

LEMMA OneCommand == \A c : <<c>> # <<>> /\ Head(<<c>>) = c /\ Tail(<<c>>) = <<>>
OBVIOUS

LEMMA TwoCommands == \A x, c : <<x, c>> # <<>> /\ Head(<<x, c>>) = x /\ Tail(<<x, c>>) = <<c>>
OBVIOUS

LEMMA AppendToOne == ASSUME NEW x, NEW c PROVE Append(<<x>>, c) = <<x, c>>
<1> DEFINE S == {x, c}
           s == Append(<<x>>, c)
<1>1. <<x>> \in Seq(S) /\ Len(<<x>>) = 1 /\ <<x>>[1] = x /\ c \in S /\ <<x, c>> \in Seq(S)
  OBVIOUS
<1> HIDE DEF S
<1>2. s \in Seq(S) /\ Len(s) = 2 /\ s[1] = x /\ s[2] = c
  BY <1>1, AppendProperties
<1> HIDE DEF s
<1>3. s = <<x, c>>
  BY <1>1, <1>2
<1> QED BY <1>3 DEF s

(* When a stray reply is read, what is awaited is to come still.           *)
LEMMA ReadTwo ==
  ASSUME Connections, rawread, NEW x, NEW c, Two(x, c)
  PROVE  Incoming.to = x /\ (UNCHANGED <<owed, up>> => Single(c)')
<1>1. Len(Line) \in Nat \ {0} /\ Len(Line') = Len(Line) - 1
      /\ (\A i \in 1..Len(Line') : Line'[i] = Line[i + 1]) /\ Line' \in Seq(Replies)
  BY ReadOne DEF Line
<1>2. Incoming = Line[1] /\ Line # <<>>
  BY <1>1, FirstOnLine
<1>3. CASE Len(Line) = 1
  <2>1. Line' = <<>>
    BY <1>1, <1>3
  <2> QED BY <1>2, <1>3, <2>1 DEF Two, Single, Owing
<1>4. CASE Len(Line) = 2
  <2>1. Len(Line') = 1 /\ Line'[1] = Line[2]
    BY <1>1, <1>4
  <2> QED BY <1>2, <1>4, <2>1 DEF Two, Single, Owing
<1> QED BY <1>2, <1>3, <1>4 DEF Two

LEMMA SentBehind ==
  ASSUME Connections, StepsFit, UNCHANGED <<up, steps, wire, netbuff>>, NEW x, Final(x), NEW c, Sent(c)
  PROVE  Two(x, c)'
<1>1. Line' = Line
  BY DEF Line
<1>2. up /\ owed = <<x>> => owed' = <<x, c>>
  BY AppendToOne DEF Sent
<1>3. up /\ owed = <<>> => owed' = <<c>>
  BY DEF Sent
<1> QED BY <1>1, <1>2, <1>3 DEF Two, Final, Begun, Single, Owing

(* The server answers the command at the head of owed.                     *)
LEMMA Reports ==
  ASSUME Connections, netbuff' = netbuff, NEW k \in 1..5, Busy, Reported(k)
  PROVE  /\ up /\ owed # <<>> /\ Len(Line') = Len(Line) + 1
         /\ Line'[Len(Line) + 1].to = Head(owed) /\ Line'[Len(Line) + 1].code = k
         /\ \A i \in 1..Len(Line) : Line'[i] = Line[i]
<1>1. up /\ owed # <<>>
  BY DEF Busy
<1>2. Reply(Asked, k) \in Replies /\ wire' = Append(wire, Reply(Asked, k))
  BY <1>1, Answers DEF Reported
<1>3. Reply(Asked, k).to = Head(owed) /\ Reply(Asked, k).code = k
  BY DEF Reply, Asked
<1> HIDE DEF Asked
<1> QED BY <1>1, <1>2, <1>3, LineGrows

LEMMA ServerInStep ==
  ASSUME Types, StepsFit, ServerStep, NEW c \in Commands
  PROVE  /\ Nothing => Nothing'
         /\ Single(c) /\ c.cmd \notin {"LIST", "LIST -R"} => Single(c)'
         /\ Unread(c) /\ c.cmd \in {"LIST", "LIST -R"} /\ dsock # "none" => Unread(c)'
         /\ Begun(c) /\ c.cmd \in {"LIST", "LIST -R"} => Begun(c)'
<1>1. netbuff' = netbuff /\ Connections /\ faults' = faults
  BY DEF ServerStep, clientVars, Types, Server, Answer, Begin, Link, Transmit, Complete, Refuse, Abort, Drop, EndTransfer
<1>2. Len(Line) \in Nat /\ (Line = <<>> <=> Len(Line) = 0)
  BY <1>1, FirstOnLine
<1>3. CASE Drop
  <2>1. Line' = Line /\ ~up'
    BY <1>1, <1>3 DEF Drop, Line
  <2> QED BY <1>1, <2>1 DEF Nothing, Single, Unread, Begun, Owing
<1>4. ASSUME NEW k \in 1..5, Busy, Reported(k)
      PROVE  /\ up /\ owed # <<>> /\ Len(Line') = Len(Line) + 1
             /\ Line'[Len(Line) + 1].to = Head(owed) /\ Line'[Len(Line) + 1].code = k
             /\ \A i \in 1..Len(Line) : Line'[i] = Line[i]
  BY <1>1, <1>4, Reports
<1>5. CASE Answer
  <2>1. \A d : Codes(d) \subseteq 1..5
    BY DEF Codes
  <2>2. PICK k \in 1..5 : Reported(k)
    BY <1>5, <2>1 DEF Answer
  <2>3. Busy /\ owed' = Tail(owed) /\ Head(owed).cmd \notin {"LIST", "LIST -R"} /\ UNCHANGED <<up, steps>>
    BY <1>5 DEF Answer, Listing, Asked
  <2>4. /\ up /\ owed # <<>> /\ Len(Line') = Len(Line) + 1
        /\ Line'[Len(Line) + 1].to = Head(owed)
    BY <1>4, <2>2, <2>3
  <2>5. ~Nothing
    BY <2>4 DEF Nothing, Owing
  <2>6. Single(c) => owed = <<c>> /\ Len(Line) = 0
    BY <1>2, <2>4 DEF Single, Owing
  <2>7. Single(c) => Single(c)'
    <3> SUFFICES ASSUME Single(c) PROVE Single(c)'
      OBVIOUS
    <3>1. owed' = <<>> /\ Head(owed) = c
      BY <2>3, <2>6, OneCommand
    <3>2. Len(Line') = 1 /\ Line'[1].to = c
      BY <2>4, <2>6, <3>1
    <3> QED BY <3>1, <3>2 DEF Single, Owing
  <2>8. c.cmd \in {"LIST", "LIST -R"} => ~Unread(c) /\ ~Begun(c)
    BY <2>3, <2>4, OneCommand DEF Unread, Begun, Owing
  <2> QED BY <2>5, <2>7, <2>8
<1>6. ~Nothing \/ ~Listing
  BY DEF Nothing, Owing, Listing, Busy
<1>7. Listing => Busy /\ up /\ owed # <<>> /\ Head(owed).cmd \in {"LIST", "LIST -R"}
  BY DEF Listing, Busy, Asked
<1>8. Listing /\ c.cmd \notin {"LIST", "LIST -R"} => ~Single(c)
  BY <1>7, OneCommand DEF Single, Owing
<1>9. CASE Link \/ Transmit
  <2>1. Listing /\ Line' = Line /\ UNCHANGED <<up, owed>> /\ ("150" \in steps' <=> "150" \in steps)
    BY <1>1, <1>9 DEF Link, Transmit, Line
  <2> QED BY <1>1, <1>6, <1>8, <2>1 DEF Unread, Begun, Owing
<1>10. CASE Begin
  <2>1. Listing /\ "150" \notin steps /\ "150" \in steps' /\ UNCHANGED <<up, owed>> /\ Reported(1)
    BY <1>10 DEF Begin
  <2>2. /\ Len(Line') = Len(Line) + 1
        /\ Line'[Len(Line) + 1].to = Head(owed) /\ Line'[Len(Line) + 1].code = 1
    <3>1. \E k \in 1..5 : k = 1 /\ Reported(k)
      BY <2>1
    <3> QED BY <1>4, <1>7, <2>1, <3>1
  <2>3. ~Begun(c)
    BY <1>7, <2>1 DEF Begun, Owing
  <2>4. Unread(c) => Unread(c)'
    <3>1. Unread(c) => Line = <<>> /\ owed = <<c>>
      BY <1>7, <2>1 DEF Unread, Owing
    <3>2. Unread(c) => Len(Line') = 1 /\ Line'[1].to = c /\ Line'[1].code = 1
      BY <1>2, <2>2, <3>1
    <3> QED BY <2>1, <3>1, <3>2 DEF Unread, Owing
  <2> QED BY <1>6, <1>8, <2>1, <2>3, <2>4
<1>11. ASSUME NEW k \in 2..5, Listing, EndTransfer(k)
       PROVE  /\ Begun(c) => Begun(c)'
              /\ Unread(c) /\ ("150" \in steps \/ faults \cap {"refuse", "nodata"} # {}) => Unread(c)'
  <2>1. /\ Len(Line') = Len(Line) + 1
        /\ Line'[Len(Line) + 1].to = Head(owed) /\ Line'[Len(Line) + 1].code = k
        /\ \A i \in 1..Len(Line) : Line'[i] = Line[i]
        /\ owed' = Tail(owed) /\ up' = up
    <3>1. Reported(k) /\ k \in 1..5 /\ owed' = Tail(owed) /\ up' = up
      BY <1>11 DEF EndTransfer
    <3> QED BY <1>4, <1>7, <1>11, <3>1
  <2>2. owed = <<c>> => Owing(<<>>)' /\ Head(owed) = c
    BY <2>1, OneCommand DEF Owing
  <2>3. Begun(c) => Begun(c)'
    <3>1. Begun(c) => owed = <<c>> /\ Len(Line) = 0
      BY <1>2, <1>7, <1>11, OneCommand DEF Begun, Owing
    <3> QED BY <2>1, <2>2, <3>1 DEF Begun
  <2>4. ASSUME "150" \in steps \/ faults \cap {"refuse", "nodata"} # {} PROVE Unread(c) => Unread(c)'
    <3>1. Unread(c) => owed = <<c>> /\ (Len(Line) = 0 \/ (Len(Line) = 1 /\ Line[1].to = c /\ Line[1].code = 1))
      BY <1>2, <1>7, <1>11, OneCommand DEF Unread, Owing
    <3>2. CASE Unread(c) /\ Len(Line) = 0
      <4>1. faults' \cap {"refuse", "nodata"} # {}
        <5>1. up
          BY <1>7, <1>11
        <5>2. ~(Len(Line) = 1) /\ ~(Len(Line) = 2)
          BY <3>2
        <5>3. up => "150" \notin steps
          BY <3>2, <5>2 DEF Unread
        <5> QED BY <1>1, <2>4, <5>1, <5>3
      <4>2. Len(Line') = 1 /\ Line'[1].to = c /\ Line'[1].code # 1
        BY <2>1, <2>2, <3>1, <3>2
      <4> QED BY <2>2, <3>1, <3>2, <4>1, <4>2 DEF Unread
    <3>3. CASE Unread(c) /\ Len(Line) = 1
      <4>1. Len(Line') = 2 /\ Line'[1] = Line[1] /\ Line'[2].to = c /\ Line'[2].code # 1
        BY <2>1, <2>2, <3>1, <3>3
      <4> QED BY <2>2, <3>1, <3>3, <4>1 DEF Unread
    <3> QED BY <3>1, <3>2, <3>3
  <2> QED BY <2>3, <2>4
<1>12. CASE Complete \/ Refuse \/ Abort
  <2>1. Listing /\ (\E k \in 2..5 : EndTransfer(k))
        /\ ("150" \in steps \/ faults \cap {"refuse", "nodata"} # {} \/ dsock = "none" \/ Outdated)
    BY <1>1, <1>12 DEF Complete, Refuse, Abort, Unwanted, Connections
  <2>2. Unread(c) /\ c.cmd \in {"LIST", "LIST -R"} => ~Outdated
    <3>1. SUFFICES ASSUME Unread(c), c.cmd \in {"LIST", "LIST -R"} PROVE ~Outdated
      OBVIOUS
    <3>2. owed = <<c>>
      BY <1>7, <2>1, <3>1 DEF Unread, Owing
    <3>3. DOMAIN owed = {1} /\ owed[1] = c
      BY <3>2
    <3> QED BY <3>1, <3>3 DEF Outdated
  <2> QED BY <1>6, <1>8, <1>11, <2>1, <2>2
<1> QED BY <1>3, <1>5, <1>9, <1>10, <1>12 DEF ServerStep, Server

(* The server answers the stray command first.                             *)
LEMMA ServerTwo ==
  ASSUME Types, ServerStep, NEW x \in Commands, NEW c \in Commands, c.cmd \notin Lists, Two(x, c)
  PROVE  Two(x, c)'
<1>1. netbuff' = netbuff /\ Connections
  BY DEF ServerStep, clientVars, Types
<1>2. Len(Line) \in Nat /\ (Line = <<>> <=> Len(Line) = 0)
  BY <1>1, FirstOnLine
<1>3. CASE Drop
  <2>1. Line' = Line /\ ~up'
    BY <1>1, <1>3 DEF Drop, Line
  <2> QED BY <2>1 DEF Two, Owing
<1>4. Busy => \/ Len(Line) = 0 /\ owed = <<x, c>> /\ (x.cmd \in Lists => "150" \in steps)
              \/ Len(Line) = 1 /\ owed = <<c>> /\ Line[1].to = x /\ (x.cmd \in Lists => Line[1].code # 1)
  BY <1>2 DEF Two, Owing, Busy
<1>5. Listing => Busy /\ Len(Line) = 0 /\ owed = <<x, c>> /\ x.cmd \in Lists /\ "150" \in steps
  BY <1>4, OneCommand, TwoCommands DEF Listing, Asked, Lists
<1>6. ASSUME NEW k \in 1..5, Busy, Reported(k), owed' = Tail(owed), up' = up, x.cmd \in Lists /\ Len(Line) = 0 => k # 1
      PROVE  Two(x, c)'
  <2>1. /\ Len(Line') = Len(Line) + 1
        /\ Line'[Len(Line) + 1].to = Head(owed) /\ Line'[Len(Line) + 1].code = k
        /\ \A i \in 1..Len(Line) : Line'[i] = Line[i]
    BY <1>1, <1>6, Reports
  <2>2. CASE Len(Line) = 0 /\ owed = <<x, c>>
    <3>1. Len(Line') = 1 /\ Line'[1].to = x /\ (x.cmd \in Lists => Line'[1].code # 1) /\ owed' = <<c>>
      BY <1>6, <2>1, <2>2, TwoCommands
    <3> QED BY <3>1 DEF Two, Owing
  <2>3. CASE Len(Line) = 1 /\ owed = <<c>> /\ Line[1].to = x /\ (x.cmd \in Lists => Line[1].code # 1)
    <3>1. Len(Line') = 2 /\ Line'[1] = Line[1] /\ Line'[2].to = c /\ owed' = <<>>
      BY <1>6, <2>1, <2>3, OneCommand
    <3> QED BY <2>3, <3>1 DEF Two, Owing
  <2> QED BY <1>4, <1>6, <2>2, <2>3
<1>7. CASE Answer
  <2>1. \A d : Codes(d) \subseteq 1..5
    BY DEF Codes
  <2>2. PICK k \in 1..5 : Reported(k)
    BY <1>7, <2>1 DEF Answer
  <2>3. Busy /\ owed' = Tail(owed) /\ up' = up /\ Head(owed).cmd \notin Lists
    BY <1>7 DEF Answer, Listing, Asked, Lists
  <2>4. x.cmd \notin Lists \/ Len(Line) # 0
    BY <1>4, <2>3, TwoCommands
  <2> QED BY <1>6, <2>2, <2>3, <2>4
<1>8. CASE Begin
  BY <1>5, <1>8 DEF Begin
<1>9. CASE Link \/ Transmit
  <2>1. Line' = Line /\ UNCHANGED <<up, owed>> /\ ("150" \in steps => "150" \in steps')
    BY <1>1, <1>9 DEF Link, Transmit, Line
  <2> QED BY <2>1 DEF Two, Owing
<1>10. CASE Complete \/ Refuse \/ Abort
  <2>1. Listing /\ \E k \in 2..5 : EndTransfer(k)
    BY <1>10 DEF Complete, Refuse, Abort
  <2>2. PICK k \in 2..5 : EndTransfer(k)
    BY <2>1
  <2> QED BY <1>5, <1>6, <2>1, <2>2 DEF EndTransfer
<1> QED BY <1>3, <1>7, <1>8, <1>9, <1>10 DEF ServerStep, Server

-----------------------------------------------------------------------------
(* Replies stay honest: what is read goes, and what comes is an answer.    *)
LEMMA AnswersHonest ==
  ASSUME NEW c \in Commands, NEW k \in 1..5, c.cmd \in Lists \/ k \in Codes(c)
  PROVE  Honest(Reply(c, k))
<1>1. Reply(c, k).to = c /\ Reply(c, k).code = k
      /\ Reply(c, k).kids = IF c.cmd = "STAT" /\ k = 2 THEN Kids(c.dir) ELSE {}
  BY DEF Reply
<1>2. ASSUME "refuse" \notin faults, c.cmd \in {"CWD", "STAT"} PROVE k = 2 <=> c.dir \in Share
  <2>1. Codes(c) = (IF c.dir \in Share THEN {2} ELSE {5}) \cup {}
    BY <1>2 DEF Codes
  <2>2. k \in Codes(c)
    BY <1>2 DEF Lists
  <2> QED BY <2>1, <2>2
<1>3. ASSUME "refuse" \notin faults, c.cmd = "PASV" PROVE k = 2
  BY <1>3 DEF Codes, Lists
<1> QED BY <1>1, <1>2, <1>3 DEF Honest

LEMMA HonestKept == Types /\ AllHonest /\ [Next]_vars => AllHonest'
<1> SUFFICES ASSUME Types, AllHonest, [Next]_vars PROVE AllHonest'
  OBVIOUS
<1>1. Connections /\ Len(Line) \in Nat
  BY FirstOnLine DEF Types
<1>2. \A r : faults' = faults /\ Honest(r) => Honest(r)'
  BY DEF Honest, Kids
<1>3. ASSUME faults' = faults, Reads PROVE AllHonest'
  <2>1. CASE rawread
    <3>1. Len(Line) \in Nat \ {0} /\ Len(Line') = Len(Line) - 1 /\ \A i \in 1..Len(Line') : Line'[i] = Line[i + 1]
      BY <1>1, <2>1, ReadOne
    <3>2. \A i \in 1..Len(Line') : i + 1 \in 1..Len(Line)
      BY <3>1
    <3> QED BY <1>2, <1>3, <3>1, <3>2 DEF AllHonest
  <2>2. CASE UNCHANGED <<wire, netbuff>>
    <3>1. Line' = Line
      BY <2>2 DEF Line
    <3> QED BY <1>2, <1>3, <3>1 DEF AllHonest
  <2> QED BY <1>3, <2>1, <2>2 DEF Reads
<1>4. CASE Reconnect
  <2>1. Len(Line') = 0
    BY <1>4 DEF Reconnect, tryconn, Line
  <2> QED BY <2>1 DEF AllHonest
<1>5. CASE Greeted \/ User \/ Pass \/ Feat \/ Clnt \/ Opts \/ Reconnected \/ Type \/ NoConnection \/ NotStarted
  BY <1>3, <1>5, StartSteps DEF ClientStep
<1>6. CASE CacheDirs \/ FindFirstFile \/ Stat \/ Passive \/ Port \/ Select \/ SelectTimedOut \/ Accept \/ Excuse \/ Transferring
  BY <1>3, <1>6, ListSteps DEF ClientStep
<1>7. CASE \/ extend_cache \/ TellCached \/ GoCached \/ ReadAllData \/ ListRead \/ ListBroken \/ DataBroken
           \/ (\E n \in Names : GoChild(n)) \/ GoParent \/ GoAgain \/ ChDir \/ GoBroken \/ Finish
  BY <1>3, <1>7, OtherSteps DEF ClientStep
<1>8. CASE UNCHANGED vars
  BY <1>3, <1>8 DEF vars, Reads
<1>9. CASE ServerStep
  <2>1. netbuff' = netbuff /\ faults' = faults
    BY <1>9 DEF ServerStep, clientVars, Server, Answer, Begin, Link, Transmit, Complete, Refuse, Abort, Drop, EndTransfer
  <2>2. ASSUME NEW k \in 1..5, Busy, Reported(k), Asked.cmd \in Lists \/ k \in Codes(Asked) PROVE AllHonest'
    <3>1. owed # <<>>
      BY <2>2 DEF Busy
    <3>2. Asked \in Commands /\ Reply(Asked, k) \in Replies /\ wire' = Append(wire, Reply(Asked, k))
      BY <1>1, <2>2, <3>1, Answers DEF Reported
    <3>3. Honest(Reply(Asked, k))
      BY <2>2, <3>2, AnswersHonest
    <3>4. PICK r \in Replies : r = Reply(Asked, k)
      BY <3>2
    <3>5. Len(Line') = Len(Line) + 1 /\ Line'[Len(Line) + 1] = r /\ \A i \in 1..Len(Line) : Line'[i] = Line[i]
      BY <1>1, <2>1, <3>2, <3>4, LineGrows
    <3>6. Honest(r)'
      BY <1>2, <2>1, <3>3, <3>4
    <3> QED BY <1>1, <1>2, <2>1, <3>5, <3>6 DEF AllHonest
  <2>3. CASE Answer
    <3>1. \A d : Codes(d) \subseteq 1..5
      BY DEF Codes
    <3>2. PICK k \in Codes(Asked) : Reported(k)
      BY <2>3 DEF Answer
    <3>3. Busy
      BY <2>3 DEF Answer
    <3> QED BY <2>2, <3>1, <3>2, <3>3
  <2>4. Listing => Busy /\ Asked.cmd \in Lists
    BY DEF Listing, Lists
  <2>5. CASE Begin
    <3>1. Listing /\ \E k \in 1..5 : Reported(k)
      BY <2>5 DEF Begin
    <3> QED BY <2>2, <2>4, <3>1
  <2>6. CASE Complete \/ Refuse \/ Abort
    <3>1. Listing /\ \E k \in 1..5 : Reported(k)
      BY <2>6 DEF Complete, Refuse, Abort, EndTransfer
    <3> QED BY <2>2, <2>4, <3>1
  <2>7. CASE Link \/ Transmit \/ Drop
    BY <1>3, <2>1, <2>7 DEF Link, Transmit, Drop, Reads
  <2> QED BY <1>9, <2>3, <2>5, <2>6, <2>7 DEF ServerStep, Server
<1> QED BY <1>4, <1>5, <1>6, <1>7, <1>8, <1>9 DEF Next, Client

-----------------------------------------------------------------------------
(* The client, step by step.  Alone: no reply is to come once the first    *)
(* one is read.                                                            *)
Alone == Line' = <<>> /\ Owing(<<>>)
Behind == \E x, c \in Commands : Waits(c) /\ c.cmd = pc /\ Stray(x) /\ Two(x, c)

LEMMA WaitsToRead ==
  ASSUME Types, InStep, pc \in OneReply, rawread
  PROVE  Alone \/ (pc \in {"STAT", "PASV", "CWD"} /\ Behind)
<1>1. PICK c \in Commands :
        /\ Waits(c) /\ c.cmd = pc
        /\ Single(c) \/ (pc \in {"STAT", "PASV", "CWD"} /\ \E x \in Commands : Stray(x) /\ Two(x, c))
  BY DEF InStep, OneReply
<1> QED BY <1>1, ReadSingle DEF Types, Alone, Behind

(* What is sent now is what is waited for.                                 *)
LEMMA AskInStep ==
  ASSUME Types, StepsFit, UNCHANGED <<up, steps>>, Alone,
         NEW c \in OneReply, NEW p \in {<<>>, curpath'}, curpath' \in W!Path, Ask(c, p),
         c \in ForDirectory => p = curpath'
  PROVE  InStep'
<1>1. Command(c, p) \in Commands
  BY CommandsToSend, RootIsPath DEF OneReply
<1>2. Single(Command(c, p))'
  BY SentAlone DEF Types, Alone, Ask
<1>3. Waits(Command(c, p))' /\ Command(c, p).cmd = pc' /\ pc' = c
  BY <1>1 DEF Waits, Ask, Command
<1>4. pc' \in Starting \cup {"STAT", "PASV", "PORT", "CWD"}
  BY <1>3 DEF OneReply
<1> HIDE DEF Command
<1>5. \E d \in Commands : Waits(d)' /\ d.cmd = pc' /\ Single(d)'
  BY <1>1, <1>2, <1>3
<1>6. pc' \notin {"ready", "list", "go", "select", "excuse", "accept", "150", "data", "226"}
  BY <1>4 DEF Starting
<1> QED BY <1>5, <1>6 DEF InStep

(* The same behind a stray reply.                                          *)
LEMMA AskBehind ==
  ASSUME Types, StepsFit, UNCHANGED <<up, steps, wire, netbuff>>,
         NEW x \in Commands, Final(x), Stray(x)',
         NEW c \in {"STAT", "PASV", "CWD"}, NEW p \in {<<>>, curpath'}, curpath' \in W!Path, Ask(c, p),
         c \in ForDirectory => p = curpath'
  PROVE  InStep'
<1>1. Command(c, p) \in Commands
  BY CommandsToSend, RootIsPath
<1>2. Two(x, Command(c, p))'
  BY SentBehind DEF Types, Ask
<1>3. Waits(Command(c, p))' /\ Command(c, p).cmd = pc' /\ pc' = c
  BY <1>1 DEF Waits, Ask, Command
<1> HIDE DEF Command
<1>4. \E d \in Commands : Waits(d)' /\ d.cmd = pc' /\ \E y \in Commands : Stray(y)' /\ Two(y, d)'
  BY <1>1, <1>2, <1>3
<1>5. pc' \notin {"ready", "list", "go", "select", "excuse", "accept", "150", "data", "226"}
  BY <1>3
<1> QED BY <1>3, <1>4, <1>5 DEF InStep

(* The command that asks for a listing.                                    *)
LEMMA SendListInStep ==
  ASSUME Types, StepsFit, UNCHANGED <<up, steps, curpath, job>>, Alone, SendList, pc' \in {"select", "150", "excuse"}
  PROVE  InStep'
<1>1. ListCommand \in Commands
  BY CommandsToSend DEF ListCommand, Types, Place
<1>2. PICK c \in Commands : c = ListCommand /\ Sent(c)
  BY <1>1 DEF SendList, ListCommand
<1>3. Unread(c)'
  BY <1>2, SentAlone DEF Types, Alone
<1>4. Waits(c)' /\ c.cmd = IF Caching' THEN "LIST -R" ELSE "LIST"
  BY <1>2 DEF Waits, ListCommand, Command, Caching
<1> QED BY <1>3, <1>4 DEF InStep, Starting

(* Nothing is sent: the walker is at the beginning of a call.              *)
LEMMA EnoughInStep ==
  ASSUME UNCHANGED <<owed, up>>, Alone,
         pc' \in {"ready", "list", "go", "connect", "loops", "success", "failure", "noconnect"}
  PROVE  InStep'
<1>1. Nothing'
  BY DEF Alone, Nothing, Owing
<1> QED BY <1>1 DEF InStep, Starting

LEMMA StrayInStep ==
  ASSUME pc' = "ready", NEW x \in Commands, Stray(x)', Final(x)'
  PROVE  InStep'
BY DEF InStep, Starting

LEMMA EndInStep ==
  ASSUME pc' \in {"connect", "loops", "success", "failure", "noconnect"}
  PROVE  InStep'
BY DEF InStep, Starting

LEMMA NothingToRead ==
  ASSUME Nothing, UNCHANGED <<wire, netbuff>>
  PROVE  Alone
BY DEF Nothing, Alone, Line

(* The reply to one command is read, and another one is on its way.        *)
LEMMA NextInStep ==
  ASSUME Types, Enough, up' = up, NEW x, NEW c \in Commands, Two(x, c), c.cmd \notin Lists, pc' = "ready", Stray(c)'
  PROVE  InStep'
<1>1. Single(c)'
  BY ReadTwo DEF Types, Enough
<1> QED BY <1>1, StrayInStep DEF Final

LEMMA OutOfStep ==
  ASSUME Connections, ~Punctual, ~Loose
  PROVE  mode \in {"passive", "Rp", "Ra"}
<1>1. mode \in {"stat", "passive", "active", "Rp", "Ra"}
  BY CasesAssumption DEF Connections
<1> QED BY <1>1 DEF Punctual, Loose

LEMMA StartInStep ==
  ASSUME Types, StepsFit, InStep,
         Reconnect \/ NoConnection \/ Greeted \/ User \/ Pass \/ Feat \/ Clnt \/ Opts \/ Reconnected \/ Type \/ NotStarted
  PROVE  InStep'
<1>1. curpath' = curpath /\ curpath \in W!Path
  BY DEF Reconnect, NoConnection, Greeted, User, Pass, Feat, Clnt, Opts, Reconnected, Type, NotStarted, Types, Place
<1>2. ASSUME UNCHANGED server, pc \in Starting, NEW c \in Starting, NEW p \in {<<>>, curpath}, Then(c, p)
      PROVE  InStep'
  <2>1. Alone
    BY <1>2, WaitsToRead DEF Then, OneReply, Starting
  <2>2. c \in OneReply /\ c \notin ForDirectory
    BY <1>2 DEF OneReply, Starting, ForDirectory
  <2> QED BY <1>1, <1>2, <2>1, <2>2, AskInStep DEF Then, server
<1>3. ASSUME UNCHANGED server, pc \in Starting, Enough, pc' \in {"ready", "list", "go", "failure", "noconnect"}
      PROVE  InStep'
  <2>1. Alone
    BY <1>3, WaitsToRead DEF Enough, OneReply, Starting
  <2> QED BY <1>3, <2>1, EnoughInStep DEF Enough, server
<1>4. CASE Reconnect
  <2> DEFINE c == Command("greeting", <<>>)
  <2>1. c \in Commands
    BY CommandsToSend, RootIsPath DEF Starting
  <2>2. Line' = <<>> /\ owed' = <<c>> /\ pc' = "greeting"
    BY <1>4 DEF Reconnect, tryconn, Line
  <2>3. Single(c)' /\ Waits(c)' /\ c.cmd = pc'
    BY <2>1, <2>2 DEF Single, Owing, Waits, Command, ForDirectory
  <2> HIDE DEF c
  <2> QED BY <2>1, <2>2, <2>3 DEF InStep, Starting
<1>5. CASE NoConnection \/ NotStarted
  BY <1>5, EndInStep DEF NoConnection, NotStarted
<1> USE DEF Starting
<1>6. CASE Greeted \/ User
  BY <1>1, <1>2, <1>3, <1>6 DEF Greeted, User
<1>7. CASE Pass
  BY <1>1, <1>2, <1>3, <1>7 DEF Pass, LoggedOn
<1>8. CASE Feat
  BY <1>1, <1>2, <1>3, <1>8 DEF Feat, LoggedOn
<1>9. CASE Clnt \/ Opts
  BY <1>1, <1>2, <1>3, <1>9 DEF Clnt, Opts, LoggedOn
<1>10. CASE Reconnected
  <2>1. job \in {"start", "list", "go"}
    BY <1>10 DEF Reconnected, Types, Control
  <2> QED BY <1>1, <1>2, <1>3, <1>10, <2>1 DEF Reconnected
<1>11. CASE Type
  BY <1>3, <1>11 DEF Type
<1> QED BY <1>4, <1>5, <1>6, <1>7, <1>8, <1>9, <1>10, <1>11

(* STAT, behind a stray reply: that to LIST -R, which tells nothing.       *)
LEMMA StatInStep ==
  ASSUME Types, InStep, ~Loose, AllHonest, Stat
  PROVE  InStep'
<1>1. /\ pc = "STAT" /\ pc' = "ready" /\ Enough /\ ~Waiting /\ UNCHANGED <<up, steps, mode, faults, curpath>>
      /\ W!Enter(IF Code = 2 THEN Incoming.kids ELSE {}) /\ path' = path /\ phase' = "try"
  BY DEF Stat, Tell, W!Enter, server
<1>2. CASE Alone
  BY <1>1, <1>2, EnoughInStep DEF Enough
<1>3. CASE Behind
  <2>1. PICK x \in Commands, c \in Commands : Waits(c) /\ c.cmd = pc /\ Stray(x) /\ Two(x, c)
    BY <1>3 DEF Behind
  <2>2. ~Punctual /\ mode \in {"Rp", "Ra"} /\ path = <<>> /\ x.cmd = "LIST -R"
    BY <1>1, <2>1, OutOfStep DEF Stray, Types
  <2>3. Incoming.to = x
    BY <1>1, <2>1, ReadTwo DEF Enough, Types
  <2>4. Incoming.kids = {}
    <3>1. Incoming = Line[1] /\ Len(Line) \in Nat /\ Len(Line) # 0
      BY <1>1, FirstOnLine DEF Types
    <3>2. Honest(Line[1])
      BY <3>1 DEF AllHonest
    <3> QED BY <2>2, <2>3, <3>1, <3>2 DEF Honest
  <2>5. W!Enter({})
    BY <1>1, <2>4
  <2>6. W!Rest' = {}
    <3>1. left \in Seq(SUBSET Names) /\ left' = Append(left, {})
      BY <2>5 DEF Types, Place, W!TypeOK, W!Enter
    <3>2. Len(left') = Len(left) + 1 /\ left'[Len(left) + 1] = {}
      BY <3>1, AppendProperties
    <3> QED BY <3>2 DEF W!Rest
  <2>7. Stray(c)' /\ c.cmd \notin Lists
    BY <1>1, <2>1, <2>2, <2>6 DEF Stray, Punctual, Lists
  <2> QED BY <1>1, <2>1, <2>7, NextInStep DEF Types
<1> QED BY <1>1, <1>2, <1>3, WaitsToRead DEF Enough, OneReply

(* PASV, behind the reply to CWD: that is no address.                      *)
LEMMA PassiveInStep ==
  ASSUME Types, StepsFit, InStep, ~Loose, Passive
  PROVE  InStep'
<1>1. /\ pc = "PASV" /\ rawread /\ ~Waiting /\ UNCHANGED <<up, steps, mode, faults, curpath, job>>
      /\ curpath \in W!Path
  BY DEF Passive, NoListing, Enough, server, Types, Place
<1>2. CASE Alone
  <2>1. CASE SendList /\ pc' \in {"150", "excuse"}
    BY <1>1, <1>2, <2>1, SendListInStep
  <2>2. CASE Failing \/ pc' = "failure"
    BY <2>2, EndInStep, FailingIs
  <2>3. CASE NoListing
    BY <1>1, <1>2, <2>3, EnoughInStep DEF NoListing, Enough, Tell
  <2> QED BY <2>1, <2>2, <2>3 DEF Passive, Failing
<1>3. CASE Behind
  <2>1. PICK x \in Commands, c \in Commands : Waits(c) /\ c.cmd = pc /\ Stray(x) /\ Two(x, c)
    BY <1>3 DEF Behind
  <2>2. ~Punctual /\ mode = "passive" /\ x.cmd = "CWD"
    BY <1>1, <2>1, OutOfStep DEF Stray, Types
  <2>4. CASE Code = 2
    <3>2. Incoming.to.cmd # "PASV"
      BY <1>1, <2>1, <2>2, ReadTwo DEF Types
    <3> QED BY <2>4, <3>2, EndInStep, FailingIs DEF Passive, Failing
  <2>5. CASE Code # 2
    <3>1. NoListing
      BY <2>5 DEF Passive
    <3>2. CASE pc' = "failure"
      BY <3>2, EndInStep
    <3>3. CASE Tell({})
      <4>1. pc' = "ready" /\ phase' = "try"
        BY <3>3 DEF Tell, W!Enter
      <4>2. Stray(c)' /\ c.cmd \notin Lists
        BY <1>1, <2>1, <2>2, <4>1 DEF Stray, Punctual, Lists
      <4> QED BY <1>1, <2>1, <3>1, <4>1, <4>2, NextInStep DEF NoListing
    <3> QED BY <3>1, <3>2, <3>3 DEF NoListing
  <2> QED BY <2>4, <2>5
<1> QED BY <1>1, <1>2, <1>3, WaitsToRead DEF OneReply

(* A first reply that was not for use leaves the final one to come.        *)
LEMMA ExcuseInStep ==
  ASSUME Types, InStep, ~Loose, Excuse
  PROVE  InStep'
<1>1. pc = "excuse" /\ NoListing /\ Enough /\ UNCHANGED <<up, steps, mode, faults, curpath, job>>
  BY DEF Excuse, NoListing, server
<1>2. PICK c \in Commands : c.cmd = (IF Caching THEN "LIST -R" ELSE "LIST") /\ Unread(c)
  BY <1>1 DEF InStep
<1>3. CASE Code # 1
  <2>1. Alone
    BY <1>1, <1>2, <1>3, ReadUnread DEF Types, Alone, Enough
  <2> QED BY <1>1, <2>1, EnoughInStep DEF NoListing, Enough, Tell
<1>4. CASE Code = 1
  <2>1. Begun(c)'
    BY <1>1, <1>2, <1>4, ReadUnread DEF Types, Enough, Begun, Owing
  <2>2. CASE pc' = "failure"
    BY <2>2, EndInStep
  <2>3. CASE ~Caching /\ Tell({})
    <3>1. pc' = "ready" /\ phase' = "try" /\ c.cmd = "LIST"
      BY <1>2, <2>3 DEF Tell, W!Enter
    <3>2. "nodata" \in faults /\ mode = "passive"
      BY <1>1, <2>3 DEF Types, Control, ByList, Caching, Loose
    <3>3. Stray(c)' /\ Final(c)'
      BY <1>1, <2>1, <3>1, <3>2 DEF Stray, Punctual, Final, Lists
    <3> QED BY <3>1, <3>3, StrayInStep
  <2> QED BY <1>1, <2>2, <2>3 DEF NoListing
<1> QED BY <1>3, <1>4

LEMMA FindInStep ==
  ASSUME Types, StepsFit, InStep, ~Loose, FindFirstFile
  PROVE  InStep'
<1>1. /\ (pc = "ready" /\ phase = "enter") \/ pc = "list"
      /\ UNCHANGED <<up, steps, mode, faults, wire, netbuff, curpath, walk>> /\ curpath' \in W!Path /\ job # "cached"
  BY DEF FindFirstFile, server, Types, Place
<1>2. CASE Nothing
  <2>1. Alone
    BY <1>1, <1>2, NothingToRead
  <2>2. CASE Dtp(mode)
    <3>1. Ask("PASV", <<>>) \/ Ask("PORT", <<>>)
      BY <2>2 DEF Dtp
    <3> QED BY <1>1, <2>1, <3>1, AskInStep DEF ForDirectory, OneReply
  <2>3. CASE Ask("STAT", curpath)
    BY <1>1, <2>1, <2>3, AskInStep DEF OneReply
  <2> QED BY <2>2, <2>3 DEF FindFirstFile
<1>3. ASSUME NEW x \in Commands, Stray(x), Final(x), pc = "ready" PROVE InStep'
  <2>1. mode \in {"passive", "Rp", "Ra"} /\ ~Punctual /\ phase = "enter"
    BY <1>1, <1>3, OutOfStep DEF Stray, Types
  <2>2. CASE mode = "passive"
    <3>1. Ask("PASV", <<>>)
      BY <2>2 DEF FindFirstFile, Dtp
    <3>2. Stray(x)'
      BY <1>1, <1>3, <2>1, <2>2, <3>1 DEF Stray, Punctual, Ask
    <3> QED BY <1>1, <1>3, <3>1, <3>2, AskBehind DEF ForDirectory
  <2>3. CASE mode \in {"Rp", "Ra"}
    <3>1. Ask("STAT", curpath) /\ pc' = "STAT"
      BY <2>3 DEF FindFirstFile, Ask
    <3>2. Stray(x)'
      BY <1>1, <1>3, <2>1, <2>3, <3>1 DEF Stray, Punctual, walk
    <3> QED BY <1>1, <1>3, <3>1, <3>2, AskBehind
  <2> QED BY <2>1, <2>2, <2>3
<1> QED BY <1>1, <1>2, <1>3 DEF InStep

LEMMA ListInStep ==
  ASSUME Types, StepsFit, InStep, ~Loose, AllHonest,
         CacheDirs \/ FindFirstFile \/ Stat \/ Passive \/ Port \/ Select \/ SelectTimedOut \/ Accept \/ Excuse \/ Transferring
  PROVE  InStep'
<1> USE DEF OneReply
<1>1. curpath' = curpath /\ curpath \in W!Path /\ UNCHANGED <<up, steps>>
  <2>1. UNCHANGED <<up, steps>>
    BY ListSteps DEF ClientStep
  <2>2. curpath' = curpath
    BY DEF CacheDirs, FindFirstFile, Stat, Passive, Port, Select, SelectTimedOut, Accept, Excuse, Transferring
  <2> QED BY <2>1, <2>2 DEF Types, Place
<1>2. ASSUME Alone, NoListing PROVE InStep'
  BY <1>1, <1>2, EnoughInStep DEF NoListing, Enough, Tell
<1>3. ASSUME NEW k, Alone, Dtp(k) PROVE InStep'
  <2>1. Ask("PASV", <<>>) \/ Ask("PORT", <<>>)
    BY <1>3 DEF Dtp
  <2> QED BY <1>1, <1>3, <2>1, AskInStep DEF ForDirectory
<1>5. CASE CacheDirs
  <2>1. Alone
    BY <1>5, WaitsToRead DEF CacheDirs, Then, Enough, Starting
  <2>2. CASE Then("TYPE", <<>>)
    BY <1>1, <2>1, <2>2, AskInStep DEF Then, ForDirectory, Starting
  <2>3. CASE Enough /\ pc' = "failure"
    BY <2>3, EndInStep
  <2>4. CASE \E k : Dtp(k)
    BY <1>3, <2>1, <2>4
  <2> QED BY <1>5, <2>2, <2>3, <2>4 DEF CacheDirs
<1>9. CASE Port
  <2>1. Alone
    BY <1>9, WaitsToRead DEF Port, NoListing, Enough
  <2>2. CASE rawread /\ SendList /\ pc' = "select" /\ job' = job
    BY <1>1, <2>1, <2>2, SendListInStep
  <2> QED BY <1>2, <1>9, <2>1, <2>2 DEF Port
<1>11. CASE Select \/ SelectTimedOut \/ Accept \/ Transferring
  <2>1. UNCHANGED job /\ Connections
    BY <1>11 DEF Select, SelectTimedOut, Accept, Transferring, Types
  <2>2. PICK c \in Commands : /\ Waits(c) /\ c.cmd = IF Caching THEN "LIST -R" ELSE "LIST"
                              /\ pc \in {"select", "excuse"} => Unread(c)
                              /\ pc = "150" => Unread(c) \/ (Begun(c) /\ Active)
                              /\ pc \in {"accept", "data", "226"} => Begun(c)
    BY <1>11 DEF InStep, Select, SelectTimedOut, Accept, Transferring
  <2>3. Waits(c)' /\ c.cmd = IF Caching' THEN "LIST -R" ELSE "LIST"
    BY <1>1, <2>1, <2>2 DEF Waits, Caching
  <2>4. ASSUME pc' = "150", Unread(c)' \/ (Begun(c)' /\ Active') PROVE InStep'
    BY <2>3, <2>4 DEF InStep, Starting
  <2>5. ASSUME pc' \in {"accept", "data"}, Begun(c)' PROVE InStep'
    BY <2>3, <2>5 DEF InStep, Starting
  <2>6. ASSUME Accepted, pc \in {"select", "accept"} PROVE InStep'
    <3>1. UNCHANGED <<up, steps, owed, wire, netbuff, faults>> /\ pc' = "150" /\ Active'
      BY <1>1, <1>11, <2>6 DEF Accepted, tcp, Select, SelectTimedOut, Accept, Transferring, Active, Types, Control, server
    <3>2. (Unread(c) => Unread(c)') /\ (Begun(c) => Begun(c)')
      BY <3>1 DEF Unread, Begun, Owing, Line
    <3> QED BY <2>2, <2>4, <2>6, <3>1, <3>2
  <2>7. ASSUME rawread, Code # 1 PROVE Alone
    BY <1>11, <2>1, <2>2, <2>7, ReadUnread, ReadBegun DEF Alone, Select, SelectTimedOut, Accept, Transferring, Accepted, tcp
  <2>8. ASSUME Enough, Code = 1, pc \in {"select", "150"} PROVE Begun(c)'
    <3>1. Unread(c)
      BY <2>1, <2>2, <2>8, ReadBegun DEF Enough
    <3> QED BY <1>1, <2>1, <2>8, <3>1, ReadUnread DEF Enough, Begun, Owing
  <2>9. CASE Select
    <3>1. CASE Accepted
      BY <2>6, <2>9, <3>1 DEF Select
    <3>2. CASE Code = 1 /\ Enough /\ pc' = "accept"
      BY <2>5, <2>8, <2>9, <3>2 DEF Select
    <3>3. CASE Code # 1 /\ Then("PORT", <<>>)
      BY <1>1, <2>7, <3>3, AskInStep DEF Then, ForDirectory
    <3>4. CASE Code # 1 /\ NoListing
      BY <1>2, <2>7, <3>4 DEF NoListing, Enough
    <3> QED BY <2>9, <3>1, <3>2, <3>3, <3>4 DEF Select
  <2>10. CASE Accept
    BY <2>6, <2>10 DEF Accept
  <2>11. CASE Transferring
    <3>1. CASE Code = 1 /\ Enough /\ pc' = "data"
      BY <2>5, <2>8, <2>11, <3>1 DEF Transferring
    <3>2. CASE Code # 1 /\ NoListing
      BY <1>2, <2>7, <3>2 DEF NoListing, Enough
    <3> QED BY <2>11, <3>1, <3>2 DEF Transferring
  <2>12. CASE SelectTimedOut
    <3>1. Unread(c)' /\ pc' = "excuse"
      BY <2>2, <2>12 DEF SelectTimedOut, Unread, Owing, Line, server
    <3> QED BY <2>3, <3>1 DEF InStep, Starting
  <2> QED BY <1>11, <2>9, <2>10, <2>11, <2>12
<1> QED BY <1>5, <1>9, <1>11, FindInStep, StatInStep, PassiveInStep, ExcuseInStep

(* A final reply that did not come in time is one that comes still.        *)
LEMMA CloseInStep ==
  ASSUME Types, InStep, ~Loose, extend_cache \/ ListRead
  PROVE  InStep'
<1>1. /\ pc = "226" /\ CloseData /\ mode # "stat" /\ UNCHANGED <<up, steps, mode, faults, curpath>>
      /\ pc' \in {"ready", "loops", "failure"}
      /\ Caching <=> mode \in {"Rp", "Ra"}
  BY DEF extend_cache, ListRead, CloseData, Cached, NotCached, Tell, Types, Control, ByList, server, Caching
<1>2. PICK c \in Commands : c.cmd = (IF Caching THEN "LIST -R" ELSE "LIST") /\ Begun(c)
  BY <1>1 DEF InStep
<1>3. CASE Enough
  <2>1. Alone
    BY <1>2, <1>3, ReadBegun DEF Enough, Types, Alone
  <2> QED BY <1>1, <1>3, <2>1, EnoughInStep DEF Enough
<1>4. CASE Broken /\ UNCHANGED <<owed, wire, netbuff>>
  <2>1. Line = <<>> /\ Line' = <<>>
    BY <1>4, FirstOnLine DEF Broken, Types, Line
  <2>2. Owing(<<c>>)
    <3>1. Len(Line) = 0
      BY <2>1, FirstOnLine DEF Types
    <3>2. Len(Line) # 1
      BY <3>1
    <3> QED BY <1>2, <3>2 DEF Begun
  <2>3. CASE ~up
    BY <1>1, <1>4, <2>1, <2>3, EnoughInStep DEF Alone, Owing
  <2>4. CASE up
    <3>1. "late" \in faults
      BY <1>4, <2>2, <2>4, OneCommand DEF Broken, Silent, Busy, Owing
    <3>2. ~Punctual /\ mode \in {"passive", "Rp", "Ra"}
      BY <1>1, <3>1, OutOfStep DEF Punctual, Types
    <3>3. Begun(c)'
      BY <1>1, <1>2, <1>4, <2>1 DEF Begun, Owing
    <3>4. Final(c)'
      BY <1>2, <3>3 DEF Final, Lists
    <3>5. CASE ListRead
      <4>1. pc' = "ready" /\ phase' = "try" /\ mode = "passive" /\ c.cmd = "LIST"
        BY <1>1, <1>2, <3>2, <3>5 DEF ListRead, Tell, W!Enter
      <4>2. Stray(c)'
        BY <1>1, <3>2, <4>1 DEF Stray, Punctual
      <4> QED BY <3>4, <4>1, <4>2, StrayInStep
    <3>6. CASE extend_cache /\ pc' = "ready" /\ job' = job
      <4>1. mode \in {"Rp", "Ra"} /\ path' = <<>> /\ phase' = "enter" /\ c.cmd = "LIST -R"
        BY <1>1, <1>2, <3>2, <3>6 DEF extend_cache, Caching, Types, Place, walk
      <4>2. Stray(c)'
        BY <1>1, <3>2, <3>6, <4>1 DEF Stray, Punctual
      <4> QED BY <3>4, <3>6, <4>2, StrayInStep
    <3>7. CASE pc' \in {"loops", "failure"}
      BY <3>7, EndInStep
    <3>8. CASE pc' = "ready" /\ job' = "cached"
      BY <3>8 DEF InStep, Starting
    <3> QED BY <3>5, <3>6, <3>7, <3>8 DEF extend_cache, Cached, NotCached
  <2> QED BY <2>3, <2>4
<1> QED BY <1>1, <1>3, <1>4 DEF CloseData

LEMMA GoInStep ==
  ASSUME Types, StepsFit, InStep, ~Loose, (\E n \in Names : GoChild(n)) \/ GoParent \/ GoAgain, curpath' \in W!Path
  PROVE  InStep'
<1>1. /\ pc \in {"ready", "go"} /\ UNCHANGED <<up, steps, mode, faults, wire, netbuff, walk>> /\ job # "cached"
      /\ Ask("CWD", curpath')
  BY DEF GoChild, GoParent, GoAgain, GoTo, server
<1>2. CASE Nothing
  BY <1>1, <1>2, NothingToRead, AskInStep DEF OneReply
<1>3. ASSUME NEW x \in Commands, Stray(x), Final(x), pc = "ready" PROVE InStep'
  <2>1. ((\E n \in Names : W!Try(n)) \/ W!Leaving) /\ phase = "try"
    BY <1>3 DEF GoChild, GoParent, GoAgain, W!Try, W!Leaving
  <2>2. mode = "passive" /\ ~Punctual
    BY <1>3, <2>1, OutOfStep DEF Stray, Types, W!Try, W!Leaving
  <2>3. Stray(x)'
    BY <1>1, <1>3, <2>1, <2>2 DEF Stray, Punctual, Ask, walk
  <2> QED BY <1>1, <1>3, <2>3, AskBehind
<1> QED BY <1>1, <1>2, <1>3 DEF InStep

LEMMA OtherInStep ==
  ASSUME Types, StepsFit, InStep, ~Loose,
         \/ extend_cache \/ TellCached \/ GoCached \/ ReadAllData \/ ListRead \/ ListBroken \/ DataBroken
         \/ (\E n \in Names : GoChild(n)) \/ GoParent \/ GoAgain \/ ChDir \/ GoBroken \/ Finish,
         curpath' \in W!Path
  PROVE  InStep'
<1>1. CASE TellCached \/ GoCached
  BY <1>1 DEF TellCached, GoCached, Tell, InStep, Starting
<1>2. CASE ReadAllData
  <2>1. PICK c \in Commands : Waits(c) /\ c.cmd = (IF Caching THEN "LIST -R" ELSE "LIST") /\ Begun(c)
    BY <1>2 DEF InStep, ReadAllData
  <2>2. Waits(c)' /\ c.cmd = (IF Caching' THEN "LIST -R" ELSE "LIST") /\ Begun(c)' /\ pc' = "226"
    BY <1>2, <2>1 DEF ReadAllData, Waits, Caching, Begun, Owing, Line, server
  <2> QED BY <2>2 DEF InStep, Starting
<1>3. CASE Finish
  BY <1>3, EndInStep DEF Finish
<1>4. CASE ListBroken \/ DataBroken \/ GoBroken
  BY <1>4, EndInStep, FailingIs DEF ListBroken, DataBroken, GoBroken, Failing
<1>5. CASE ChDir
  <2>1. /\ pc = "CWD" /\ Enough /\ UNCHANGED <<up, mode, faults>>
        /\ pc' = "failure" \/ (pc' = "ready" /\ phase' \in {"enter", "try"})
    BY <1>5 DEF ChDir, server, W!Refuse, W!Ascend, W!Leaving, W!Descend, W!Try
  <2>2. CASE Alone
    BY <2>1, <2>2, EnoughInStep DEF Enough
  <2>3. CASE Behind
    <3>1. PICK x \in Commands, c \in Commands : Waits(c) /\ c.cmd = pc /\ Stray(x) /\ Two(x, c)
      BY <2>3 DEF Behind
    <3>2. ~Punctual /\ mode = "passive"
      BY <2>1, <3>1, OutOfStep DEF Stray, Types
    <3>3. CASE pc' = "ready"
      <4>1. Stray(c)' /\ c.cmd \notin Lists
        BY <2>1, <3>1, <3>2, <3>3 DEF Stray, Punctual, Lists
      <4> QED BY <2>1, <3>1, <3>3, <4>1, NextInStep
    <3> QED BY <2>1, <3>3, EndInStep
  <2> QED BY <2>1, <2>2, <2>3, WaitsToRead DEF Enough, OneReply
<1> QED BY <1>1, <1>2, <1>3, <1>4, <1>5, CloseInStep, GoInStep

(* While the client waits for the same, it is enough what becomes of the   *)
(* replies.                                                                *)
LEMMA SameWait ==
  ASSUME InStep, UNCHANGED <<mode, pc, curpath, job>>,
         Nothing => Nothing',
         \A x \in Commands : (Stray(x) => Stray(x)') /\ (Final(x) => Final(x)'),
         \A c \in Commands : c.cmd \notin Lists => (Single(c) => Single(c)') /\ \A x \in Commands : Two(x, c) => Two(x, c)',
         \A c \in Commands : c.cmd \in Lists =>
           (Unread(c) /\ pc \in {"select", "excuse", "150"} => Unread(c)') /\ (Begun(c) => Begun(c)')
  PROVE  InStep'
<1>4. \A c \in Commands : Waits(c) => Waits(c)'
  BY DEF Waits
<1>7. pc' \in {"list", "go"} => Nothing'
  BY DEF InStep
<1>8. pc' = "ready" /\ job' # "cached" => Nothing' \/ \E x \in Commands : Stray(x)' /\ Final(x)'
  BY DEF InStep
<1>9. ASSUME pc' \in Starting \cup {"PORT", "STAT", "PASV", "CWD"}
      PROVE  \E c \in Commands :
               /\ Waits(c)' /\ c.cmd = pc'
               /\ Single(c)' \/ (pc' \in {"STAT", "PASV", "CWD"} /\ \E x \in Commands : Stray(x)' /\ Two(x, c)')
  <2>1. PICK c \in Commands :
          /\ Waits(c) /\ c.cmd = pc
          /\ Single(c) \/ (pc \in {"STAT", "PASV", "CWD"} /\ \E x \in Commands : Stray(x) /\ Two(x, c))
    BY <1>9 DEF InStep
  <2>2. c.cmd \notin Lists
    BY <1>9, <2>1 DEF Starting, Lists
  <2> QED BY <1>4, <1>9, <2>1, <2>2
<1>10. ASSUME pc' \in {"select", "excuse", "accept", "150", "data", "226"}
       PROVE  \E c \in Commands :
                /\ Waits(c)' /\ c.cmd = IF Caching' THEN "LIST -R" ELSE "LIST"
                /\ pc' \in {"select", "excuse"} => Unread(c)'
                /\ pc' = "150" => Unread(c)' \/ (Begun(c)' /\ Active')
                /\ pc' \in {"accept", "data", "226"} => Begun(c)'
  <2>1. PICK c \in Commands :
          /\ Waits(c) /\ c.cmd = IF Caching THEN "LIST -R" ELSE "LIST"
          /\ pc \in {"select", "excuse"} => Unread(c)
          /\ pc = "150" => Unread(c) \/ (Begun(c) /\ Active)
          /\ pc \in {"accept", "data", "226"} => Begun(c)
    BY <1>10 DEF InStep
  <2>2. (Unread(c) /\ pc \in {"select", "excuse", "150"} => Unread(c)') /\ (Begun(c) => Begun(c)')
    BY <2>1 DEF Lists
  <2>3. Waits(c)' /\ c.cmd = IF Caching' THEN "LIST -R" ELSE "LIST"
    BY <1>4, <2>1 DEF Caching
  <2> QED BY <2>1, <2>2, <2>3 DEF Active
<1> QED BY <1>7, <1>8, <1>9, <1>10 DEF InStep

LEMMA RootCommand == \E c : c \in Commands
BY CommandsToSend, RootIsPath DEF Starting

(* The server answers what was asked, in this order.                       *)
LEMMA ServerKeepsStep ==
  ASSUME Types, StepsFit, InStep, LinkedFits, ServerStep
  PROVE  InStep'
<1>1. UNCHANGED <<mode, faults, pc, curpath, job, phase, path, left>>
  BY ServerConnections
     DEF Types, clientVars, walk, ServerStep, Server, Answer, Begin, Link, Transmit, Complete, Refuse, Abort, Drop, EndTransfer
<1>2. \A x \in Commands : Stray(x) => Stray(x)'
  BY <1>1 DEF Stray, Punctual, W!Rest
<1>3. \A x \in Commands : Final(x) => Final(x)'
  BY ServerInStep DEF Final, Lists
<1>4. Nothing => Nothing'
  BY ServerInStep, RootCommand
<1>5. ASSUME NEW c \in Commands, c.cmd \notin Lists
      PROVE  (Single(c) => Single(c)') /\ \A x \in Commands : Two(x, c) => Two(x, c)'
  BY <1>5, ServerInStep, ServerTwo DEF Lists
<1>6. ASSUME NEW c \in Commands, c.cmd \in Lists
      PROVE  (Unread(c) /\ pc \in {"select", "excuse", "150"} => Unread(c)') /\ (Begun(c) => Begun(c)')
  <2>1. pc \in {"select", "excuse", "150"} => dsock # "none"
    BY DEF LinkedFits
  <2> QED BY <1>6, <2>1, ServerInStep DEF Lists
<1> QED BY <1>1, <1>2, <1>3, <1>4, <1>5, <1>6, SameWait

(* What may go wrong is chosen once, and only a new connection is up.      *)
LEMMA CaseStays == ASSUME Types, [Next]_vars PROVE UNCHANGED <<mode, faults>> /\ (up' => up \/ Reconnect)
<1>1. ClientStep => UNCHANGED <<mode, faults, up>>
  BY DEF ClientStep
<1>2. CASE Reconnect
  BY <1>2 DEF Reconnect
<1>3. CASE Greeted \/ User \/ Pass \/ Feat \/ Clnt \/ Opts \/ Reconnected \/ Type \/ NoConnection \/ NotStarted
  BY <1>1, <1>3, StartSteps
<1>4. CASE CacheDirs \/ FindFirstFile \/ Stat \/ Passive \/ Port \/ Select \/ SelectTimedOut \/ Accept \/ Excuse \/ Transferring
  BY <1>1, <1>4, ListSteps
<1>5. CASE \/ extend_cache \/ TellCached \/ GoCached \/ ReadAllData \/ ListRead \/ ListBroken \/ DataBroken
           \/ (\E n \in Names : GoChild(n)) \/ GoParent \/ GoAgain \/ ChDir \/ GoBroken \/ Finish
  BY <1>1, <1>5, OtherSteps
<1>6. CASE ServerStep
  BY <1>6 DEF ServerStep, Server, Answer, Begin, Link, Transmit, Complete, Refuse, Abort, Drop, EndTransfer
<1>7. CASE UNCHANGED vars
  BY <1>7 DEF vars
<1> QED BY <1>2, <1>3, <1>4, <1>5, <1>6, <1>7 DEF Next, Client

LEMMA NextInvariant ==
  ASSUME Types, StepsFit, ~Loose => InStep, LinkedFits, AllHonest, [Next]_vars
  PROVE  Types' /\ StepsFit' /\ (~Loose => InStep)' /\ AllHonest'
<1>0. UNCHANGED <<mode, faults>>
  BY CaseStays
<1> SUFFICES ASSUME ~Loose, InStep PROVE Types' /\ StepsFit' /\ InStep' /\ AllHonest'
  BY <1>0, NextTypes, StepsFitKept, HonestKept DEF Loose
<1>1. Types' /\ StepsFit' /\ AllHonest'
  BY NextTypes, StepsFitKept, HonestKept
<1>2. curpath' \in W!Path
  BY <1>1 DEF Types, Place
<1>3. CASE UNCHANGED vars
  <2>1. Nothing' = Nothing
        /\ \A c : Single(c)' = Single(c) /\ Unread(c)' = Unread(c) /\ Begun(c)' = Begun(c)
    BY <1>3 DEF vars, Nothing, Single, Unread, Begun, Owing, Line
  <2>2. \A x : Stray(x)' = Stray(x) /\ Final(x)' = Final(x) /\ \A c : Two(x, c)' = Two(x, c)
    BY <1>3 DEF vars, walk, Stray, Punctual, W!Rest, Final, Single, Begun, Two, Owing, Line
  <2>3. UNCHANGED <<mode, pc, curpath, job>>
    BY <1>3 DEF vars
  <2> QED BY <1>1, <2>1, <2>2, <2>3, SameWait
<1>4. CASE Client
  <2>1. CASE Reconnect \/ NoConnection \/ Greeted \/ User \/ Pass \/ Feat \/ Clnt \/ Opts \/ Reconnected \/ Type \/ NotStarted
    BY <1>1, <2>1, StartInStep
  <2>2. CASE CacheDirs \/ FindFirstFile \/ Stat \/ Passive \/ Port \/ Select \/ SelectTimedOut \/ Accept \/ Excuse \/ Transferring
    BY <1>1, <2>2, ListInStep
  <2>3. CASE \/ extend_cache \/ TellCached \/ GoCached \/ ReadAllData \/ ListRead \/ ListBroken \/ DataBroken
             \/ (\E n \in Names : GoChild(n)) \/ GoParent \/ GoAgain \/ ChDir \/ GoBroken \/ Finish
    BY <1>1, <1>2, <2>3, OtherInStep
  <2> QED BY <1>4, <2>1, <2>2, <2>3 DEF Client
<1> QED BY <1>1, <1>3, <1>4, ServerKeepsStep DEF Next

-----------------------------------------------------------------------------
(* A data connection belongs to a data socket, and one that is waited for  *)
(* is a new one.                                                           *)
LEMMA LinkedKept ==
  ASSUME Types, QuietClosed, LinkedFits, [Next]_vars
  PROVE  LinkedFits'
<1> USE DEF LinkedFits
<1>1. pc \in Quiet => ~linked
  BY DEF QuietClosed, Types, Connections
<1>2. CASE Reconnect \/ NoConnection
  BY <1>2 DEF Reconnect, NoConnection, Quit, Disconnected, tryconn
<1>3. CASE Greeted \/ User \/ Pass \/ Feat \/ Clnt \/ Opts \/ Reconnected \/ Type \/ NotStarted
  <2>1. UNCHANGED dtp
    BY <1>3 DEF Greeted, User, Pass, Feat, Clnt, Opts, Reconnected, Type, NotStarted
  <2>2. pc' \notin {"PASV", "PORT", "select", "accept", "150", "excuse"}
    <3>1. CASE Greeted \/ User \/ Pass
      BY <3>1 DEF Greeted, User, Pass, Then, Ask, LoggedOn
    <3>2. CASE Feat \/ Clnt \/ Opts
      BY <3>2 DEF Feat, Clnt, Opts, Then, Ask, LoggedOn
    <3>3. CASE Reconnected \/ Type \/ NotStarted
      BY <3>3 DEF Reconnected, Type, NotStarted, Then, Ask, Types, Control
    <3> QED BY <1>3, <3>1, <3>2, <3>3
  <2> QED BY <2>1, <2>2 DEF dtp
<1>4. ASSUME NEW k, pc \in Quiet, Dtp(k) PROVE LinkedFits'
  BY <1>1, <1>4 DEF Dtp, Ask
<1>5. CASE CacheDirs
  <2>1. pc \in Quiet
    BY <1>5 DEF CacheDirs, Quiet, Starting
  <2> QED BY <1>4, <1>5, <2>1 DEF CacheDirs, Then, Ask, dtp
<1>6. CASE FindFirstFile
  <2>1. pc \in Quiet
    BY <1>6 DEF FindFirstFile, Quiet
  <2> QED BY <1>4, <1>6, <2>1 DEF FindFirstFile, Ask, dtp
<1>7. NoListing => LinkedFits'
  BY DEF NoListing, Disconnected, Tell
<1>8. CASE Passive
  <2>1. CASE Failing /\ Disconnected
    BY <2>1, FailingIs DEF Disconnected
  <2>2. /\ pc' \in {"150", "excuse"} => UNCHANGED mode
        /\ mode \in {"passive", "Rp"}
    BY <1>8 DEF Passive, server, Types, Control
  <2>3. CASE pc' = "150" /\ dsock' = "open"
    BY <2>3
  <2>4. CASE pc' = "excuse" /\ UNCHANGED <<dsock, linked>>
    BY <1>8, <2>2, <2>4 DEF Passive, Active
  <2> QED BY <1>7, <1>8, <2>1, <2>3, <2>4 DEF Passive, Failing
<1>9. CASE Port \/ Excuse \/ Transferring
  BY <1>7, <1>9 DEF Port, Excuse, Transferring, dtp
<1>10. CASE Select \/ SelectTimedOut \/ Accept
  BY <1>7, <1>10 DEF Select, SelectTimedOut, Accept, Accepted, Then, Ask, dtp, server, Active, Types, Control
<1>11. CASE Stat \/ ReadAllData
  BY <1>11 DEF Stat, ReadAllData, Tell, dtp
<1>12. CASE extend_cache \/ ListRead
  BY <1>12 DEF extend_cache, ListRead, CloseData, Cached, NotCached, Tell
<1>13. CASE TellCached \/ GoCached \/ Finish \/ ChDir
  BY <1>13 DEF TellCached, GoCached, Finish, ChDir, Tell, dtp
<1>14. CASE ListBroken \/ DataBroken \/ GoBroken
  BY <1>14, FailingIs DEF ListBroken, DataBroken, GoBroken, Failing, Disconnected, dtp
<1>15. CASE (\E n \in Names : GoChild(n)) \/ GoParent \/ GoAgain
  BY <1>15 DEF GoChild, GoParent, GoAgain, GoTo, Ask, dtp
<1>16. CASE ServerStep
  BY <1>16
  DEF ServerStep, clientVars, Server, Answer, Begin, Link, Transmit, Complete, Refuse, Abort, Drop, EndTransfer, Active
<1>17. CASE UNCHANGED vars
  BY <1>17 DEF vars, Active
<1> QED BY <1>2, <1>3, <1>5, <1>6, <1>8, <1>9, <1>10, <1>11, <1>12, <1>13, <1>14, <1>15, <1>16, <1>17 DEF Next, Client

(* A command that is sent is behind all that are owed.                     *)
LEMMA SentPorts ==
  ASSUME Types, Loose, up, UNCHANGED <<mode, faults, up>>, NEW c \in Commands, Sent(c),
         c.cmd = "PORT" => ~linked', c.cmd # "PORT" => linked' = linked,
         dsock' \in {"listen", "open"} =>
           \/ c.cmd = "PORT"
           \/ PortsFit /\ dsock = "listen" /\ pc = "PORT" /\ pc' \in AtListing /\ c = ListCommand',
         PortsFit
  PROVE  PortsFit'
<1> DEFINE n == Len(owed)
<1>1. owed \in Seq(Commands) /\ n \in Nat /\ owed' = Append(owed, c)
  BY DEF Types, Connections, Sent
<1>2. Len(owed') = n + 1 /\ owed'[n + 1] = c /\ \A i \in 1..n : owed'[i] = owed[i]
  BY <1>1, AppendProperties
<1> HIDE DEF n
<1>3. linked' => \A i \in 1..Len(owed') : owed'[i].cmd # "PORT"
  <2> SUFFICES ASSUME linked', NEW i \in 1..Len(owed') PROVE owed'[i].cmd # "PORT"
    OBVIOUS
  <2>1. c.cmd # "PORT" /\ linked
    OBVIOUS
  <2> QED BY <1>1, <1>2, <2>1 DEF PortsFit, n
<1>4. ASSUME dsock' \in {"listen", "open"}, NEW i \in 1..Len(owed'), owed'[i].cmd \in Lists
      PROVE  Renewed(i)' \/ Wanted(owed[i])'
  <2>1. CASE c.cmd = "PORT"
    <3>1. i < n + 1 /\ n + 1 \in 1..Len(owed') /\ owed'[n + 1].cmd = "PORT"
      <4>1. i # n + 1
        BY <1>2, <1>4, <2>1 DEF Lists
      <4>2. i \in 1..(n + 1) /\ n + 1 \in 1..(n + 1)
        BY <1>1, <1>2, <1>4
      <4> QED BY <1>1, <1>2, <2>1, <4>1, <4>2
    <3> QED BY <3>1 DEF Renewed
  <2>2. CASE i = n + 1 /\ c.cmd # "PORT"
    <3>1. owed'[i] = c /\ pc' \in AtListing /\ c = ListCommand'
      BY <1>2, <1>4, <2>2
    <3> QED BY <3>1 DEF Wanted
  <2>3. CASE i # n + 1 /\ c.cmd # "PORT"
    <3>1. i \in 1..n /\ owed[i].cmd \in Lists /\ dsock = "listen" /\ pc = "PORT"
      BY <1>1, <1>2, <1>4, <2>3
    <3>2. Renewed(i)
      BY <3>1 DEF PortsFit, Wanted, AtListing, n
    <3>3. PICK j \in 1..n : j > i /\ owed[j].cmd = "PORT"
      BY <3>2 DEF Renewed, n
    <3>4. j \in 1..Len(owed') /\ owed'[j].cmd = "PORT"
      BY <1>1, <1>2, <3>3
    <3> QED BY <3>3, <3>4 DEF Renewed
  <2> QED BY <2>1, <2>2, <2>3
<1> QED BY <1>3, <1>4 DEF PortsFit

(* Nothing is sent, and the client stays at its listing, ends it, or has   *)
(* closed its data socket.                                                 *)
LEMMA StayPorts ==
  ASSUME PortsFit, UNCHANGED <<mode, faults, up, owed>>, linked' => linked,
         dsock' \in {"listen", "open"} =>
           /\ dsock \in {"listen", "open"}
           /\ \A c : Wanted(c) => Wanted(c)'
  PROVE  PortsFit'
<1> SUFFICES ASSUME Loose, up PROVE PortsFit'
  BY DEF PortsFit, Loose
<1>1. \A i : Renewed(i) => Renewed(i)'
  BY DEF Renewed
<1> QED BY <1>1 DEF PortsFit, Loose

(* The server answers the first, links itself when no PORT is to be        *)
(* answered, and leaves the rest as it is.                                 *)
LEMMA AnsweredPorts ==
  ASSUME Types, PortsFit, owed # <<>>, UNCHANGED <<mode, faults, up, dsock, linked, pc, curpath, job>>, owed' = Tail(owed)
  PROVE  PortsFit'
<1> DEFINE n == Len(owed)
<1>1. owed \in Seq(Commands) /\ n \in Nat /\ n # 0
  BY DEF Types, Connections
<1>2. Len(owed') = n - 1 /\ \A i \in 1..(n - 1) : owed'[i] = owed[i + 1]
  BY <1>1
<1> HIDE DEF n
<1>3. \A c : Wanted(c) => Wanted(c)'
  BY DEF Wanted, ListCommand, Command, Caching
<1>4. ASSUME NEW i \in 1..(n - 1), Renewed(i + 1) PROVE Renewed(i)'
  <2>1. PICK j \in 1..n : j > i + 1 /\ owed[j].cmd = "PORT"
    BY <1>4 DEF Renewed, n
  <2>2. j - 1 \in 1..(n - 1) /\ j - 1 > i /\ owed'[j - 1] = owed[j]
    BY <1>1, <1>2, <2>1
  <2> QED BY <1>2, <2>1, <2>2 DEF Renewed
<1>5. \A i \in 1..(n - 1) : i + 1 \in 1..n
  BY <1>1
<1> QED BY <1>1, <1>2, <1>3, <1>4, <1>5 DEF PortsFit, Loose, n

LEMMA PortsKept ==
  ASSUME Types, QuietClosed, LinkedFits, PortsFit, [Next]_vars
  PROVE  PortsFit'
<1> SUFFICES ASSUME Loose, up PROVE PortsFit'
  <2>1. UNCHANGED <<mode, faults>>
    BY CaseStays
  <2>2. up' => up \/ Reconnect
    BY CaseStays
  <2>3. Reconnect => dsock' = "none" /\ ~linked'
    BY DEF Reconnect, Quit, Disconnected
  <2> QED BY <2>1, <2>2, <2>3 DEF PortsFit, Loose
<1>1. (dsock' = "none" /\ ~linked') \/ ~up' => PortsFit'
  BY DEF PortsFit
<1>2. pc \in Quiet /\ UNCHANGED <<dsock, linked>> => PortsFit'
  BY <1>1 DEF QuietClosed, LinkedFits, Types, Connections
<1>3. Disconnected => PortsFit'
  BY <1>1 DEF Disconnected
<1>4. UNCHANGED <<mode, faults>> /\ mode = "active" /\ (up' => up \/ Reconnect)
  BY CaseStays DEF Loose
<1>5. ASSUME pc \in AtListing, pc' \in AtListing \cup {"connect", "failure", "noconnect"}, UNCHANGED <<job, curpath>>
      PROVE  \A c : Wanted(c) => Wanted(c)'
  BY <1>5 DEF Wanted, AtListing, ListCommand, Command, Caching
<1>6. CASE \/ Reconnect \/ NoConnection \/ NotStarted \/ Greeted \/ User \/ Pass \/ Feat \/ Clnt \/ Opts \/ Reconnected \/ Type
  <2>1. CASE Reconnect \/ NoConnection
    BY <1>3, <2>1 DEF Reconnect, NoConnection, Quit
  <2>2. CASE NotStarted \/ Greeted \/ User \/ Pass \/ Feat \/ Clnt \/ Opts \/ Reconnected \/ Type
    BY <1>2, <2>2 DEF NotStarted, Greeted, User, Pass, Feat, Clnt, Opts, Reconnected, Type, dtp, Quiet, Starting
  <2> QED BY <1>6, <2>1, <2>2
<1>7. CASE FindFirstFile
  <2>1. pc \in Quiet /\ Dtp("active")
    BY <1>4, <1>7 DEF FindFirstFile, Quiet
  <2>2. PICK c \in Commands : c.cmd = "PORT" /\ Sent(c)
    <3>1. Command("PORT", <<>>) \in Commands /\ Command("PORT", <<>>).cmd = "PORT" /\ Sent(Command("PORT", <<>>))
      BY <2>1, CommandsToSend, RootIsPath DEF Dtp, Ask, Command
    <3> QED BY <3>1
  <2>3. ~linked' /\ UNCHANGED up
    BY <1>7, <2>1 DEF Dtp, FindFirstFile, server, QuietClosed, LinkedFits, Types, Connections
  <2> QED BY <1>4, <2>2, <2>3, SentPorts
<1>8. CASE Port
  <2>1. CASE NoListing
    BY <1>3, <2>1 DEF NoListing
  <2>2. CASE SendList /\ pc' = "select" /\ UNCHANGED dtp
    <3>1. PICK c \in Commands : c = ListCommand /\ Sent(c)
      <4>1. ListCommand \in Commands
        BY CommandsToSend DEF ListCommand, Types, Place
      <4>2. Sent(ListCommand)
        BY <2>2 DEF SendList, ListCommand
      <4> QED BY <4>1, <4>2
    <3>2. UNCHANGED <<up, linked, dsock>> /\ pc = "PORT" /\ dsock = "listen" /\ c = ListCommand' /\ c.cmd # "PORT"
      BY <1>8, <2>2, <3>1 DEF Port, server, dtp, LinkedFits, ListCommand, Command, Caching
    <3>3. pc' \in AtListing
      BY <2>2 DEF AtListing
    <3> QED BY <1>4, <3>1, <3>2, <3>3, SentPorts
  <2> QED BY <1>8, <2>1, <2>2 DEF Port
<1>9. CASE Select
  <2>1. pc = "select" /\ dsock = "listen" /\ UNCHANGED <<up, job, curpath>>
    BY <1>9 DEF Select, LinkedFits, server
  <2>2. CASE Accepted
    <3>1. owed' = owed /\ linked' = linked /\ pc' \in AtListing /\ pc \in AtListing
      BY <2>1, <2>2 DEF Accepted, tcp, AtListing
    <3> QED BY <1>4, <1>5, <2>1, <3>1, StayPorts
  <2>3. CASE ~linked /\ Then("PORT", <<>>) /\ UNCHANGED dtp
    <3>1. PICK c \in Commands : c.cmd = "PORT" /\ Sent(c)
      <4>1. Command("PORT", <<>>) \in Commands /\ Command("PORT", <<>>).cmd = "PORT" /\ Sent(Command("PORT", <<>>))
        BY <2>3, CommandsToSend, RootIsPath DEF Then, Ask, Command
      <4> QED BY <4>1
    <3>2. ~linked'
      BY <2>3 DEF dtp
    <3> QED BY <1>4, <2>1, <3>1, <3>2, SentPorts
  <2>4. CASE Enough /\ pc' = "accept" /\ UNCHANGED dtp
    <3>1. owed' = owed /\ UNCHANGED <<dsock, linked>> /\ pc' \in AtListing /\ pc \in AtListing
      BY <2>1, <2>4 DEF Enough, dtp, AtListing
    <3> QED BY <1>4, <1>5, <2>1, <3>1, StayPorts
  <2>5. CASE NoListing
    BY <1>3, <2>5 DEF NoListing
  <2> QED BY <1>9, <2>2, <2>3, <2>4, <2>5 DEF Select
<1>10. CASE SelectTimedOut \/ Accept
  <2>1. UNCHANGED <<up, owed, linked, job, curpath>> /\ pc \in AtListing /\ pc' \in AtListing /\ dsock = "listen"
    BY <1>10 DEF SelectTimedOut, Accept, Accepted, server, tcp, dtp, AtListing, LinkedFits
  <2> QED BY <1>4, <1>5, <2>1, StayPorts
<1>11. CASE Transferring \/ Excuse
  <2>1. CASE NoListing
    BY <1>3, <2>1 DEF NoListing
  <2>2. CASE Transferring /\ Enough /\ pc' = "data" /\ UNCHANGED dtp
    <3>1. UNCHANGED <<up, owed, linked, dsock, job, curpath>> /\ pc \in AtListing /\ pc' \in AtListing
      BY <2>2 DEF Transferring, Enough, server, dtp, AtListing
    <3> QED BY <1>4, <1>5, <3>1, StayPorts
  <2> QED BY <1>11, <2>1, <2>2 DEF Transferring, Excuse
<1>12. CASE DataBroken
  <2>1. UNCHANGED <<up, owed, linked, dsock, job, curpath>> /\ pc \in AtListing /\ pc' \in {"connect", "failure", "noconnect"}
    BY <1>12, FailingIs DEF DataBroken, Failing, server, dtp, AtListing
  <2> QED BY <1>4, <1>5, <2>1, StayPorts
<1>13. CASE ListBroken \/ ReadAllData
  BY <1>1, <1>3, <1>13 DEF ListBroken, ReadAllData
<1>14. CASE CacheDirs \/ Passive
  BY <1>4, <1>14 DEF CacheDirs, Passive, Types, Control
<1>15. CASE \/ extend_cache \/ TellCached \/ GoCached \/ ListRead \/ Stat
           \/ (\E n \in Names : GoChild(n)) \/ GoParent \/ GoAgain \/ ChDir \/ GoBroken \/ Finish
  BY <1>2, <1>15
  DEF extend_cache, TellCached, GoCached, ListRead, Stat, GoChild, GoParent, GoAgain, GoTo, ChDir, GoBroken, Finish, CloseData, dtp, Quiet
<1>16. CASE ServerStep
  <2>1. UNCHANGED <<pc, job, curpath, dsock>>
    BY <1>16, ServerLeavesSocket DEF ServerStep, clientVars
  <2>2. \A c : Wanted(c) => Wanted(c)'
    BY <2>1 DEF Wanted, ListCommand, Command, Caching
  <2>3. CASE Answer \/ Complete \/ Refuse \/ Abort
    <3>1. owed # <<>> /\ owed' = Tail(owed) /\ UNCHANGED <<up, linked>>
      BY <2>3 DEF Answer, Complete, Refuse, Abort, EndTransfer, Listing, Busy
    <3> QED BY <1>4, <2>1, <3>1, AnsweredPorts
  <2>4. CASE Begin \/ Transmit
    <3>1. UNCHANGED <<up, owed, linked>>
      BY <2>4 DEF Begin, Transmit
    <3> QED BY <1>4, <2>1, <2>2, <3>1, StayPorts
  <2>5. CASE Link
    <3>1. UNCHANGED <<up, owed>> /\ ~Outdated
      BY <2>5 DEF Link
    <3>2. \A i \in 1..Len(owed) : owed[i].cmd # "PORT"
      BY <3>1 DEF Outdated, Types, Connections
    <3>3. \A i : Renewed(i) => Renewed(i)'
      BY <3>1 DEF Renewed
    <3> QED BY <2>1, <2>2, <3>1, <3>2, <3>3 DEF PortsFit
  <2>6. CASE Drop
    BY <1>1, <2>6 DEF Drop
  <2> QED BY <1>16, <2>3, <2>4, <2>5, <2>6 DEF ServerStep, Server
<1>17. CASE UNCHANGED vars
  <2>1. UNCHANGED <<up, owed, linked, dsock, pc, job, curpath>>
    BY <1>17 DEF vars
  <2>2. \A c : Wanted(c) => Wanted(c)'
    BY <2>1 DEF Wanted, ListCommand, Command, Caching
  <2> QED BY <1>4, <2>1, <2>2, StayPorts
<1> QED BY <1>6, <1>7, <1>8, <1>9, <1>10, <1>11, <1>12, <1>13, <1>14, <1>15, <1>16, <1>17 DEF Next, Client

(* The client keeps data only as long as it is about what it asked for.    *)
LEMMA DataRead ==
  ASSUME Types, DataFits, Client
  PROVE  DataFits'
<1> SUFFICES ASSUME data' # <<>> PROVE DataFits'
  BY DEF DataFits
<1> USE DEF OneReply, AtListing
<1>1. CASE Reconnect \/ NoConnection
  BY <1>1 DEF Reconnect, NoConnection, Quit, Disconnected
<1>2. pc \in OneReply \cup {"ready", "list", "go"} => data = <<>>
  BY DEF DataFits
<1>3. CASE Greeted \/ User \/ Pass \/ Feat \/ Clnt \/ Opts \/ Reconnected \/ Type \/ NotStarted
  <2>1. pc \in OneReply /\ data' = data
    BY <1>3 DEF Greeted, User, Pass, Feat, Clnt, Opts, Reconnected, Type, NotStarted, dtp, Starting
  <2> QED BY <1>2, <2>1
<1>4. CASE CacheDirs \/ FindFirstFile \/ Stat \/ Passive \/ Port
  <2>1. pc \in OneReply \cup {"ready", "list"}
    BY <1>4 DEF CacheDirs, FindFirstFile, Stat, Passive, Port, Starting
  <2>2. data' \in {data, <<>>}
    BY <1>4, ListSteps DEF ClientStep, DtpStep
  <2> QED BY <1>2, <2>1, <2>2
<1>5. CASE TellCached \/ GoCached \/ Finish \/ (\E n \in Names : GoChild(n)) \/ GoParent \/ GoAgain \/ ChDir \/ GoBroken
  <2>1. pc \in OneReply \cup {"ready", "go"}
    BY <1>5 DEF TellCached, GoCached, Finish, GoChild, GoParent, GoAgain, ChDir, GoBroken
  <2>2. data' \in {data, <<>>}
    BY <1>5, OtherSteps DEF ClientStep, DtpStep
  <2> QED BY <1>2, <2>1, <2>2
<1>6. ASSUME pc \in AtListing, pc' \in {"150", "data", "226"}, UNCHANGED <<data, curpath, job, faults>> PROVE DataFits'
  <2>1. ListCommand' = ListCommand /\ Whole(ListCommand)' = Whole(ListCommand)
    BY <1>6 DEF ListCommand, Command, Caching, Whole, Sections, Kids
  <2>2. Sections(ListCommand)' = Sections(ListCommand)
    BY <1>6 DEF ListCommand, Command, Caching, Sections
  <2>3. data # <<>>
    BY <1>6
  <2>4. DOMAIN data[1].tree \subseteq Sections(ListCommand) /\ ("abort" \notin faults => data = <<Whole(ListCommand)>>)
    BY <1>6, <2>3 DEF DataFits
  <2>5. (DOMAIN data[1].tree)' = DOMAIN data[1].tree
    BY <1>6
  <2> QED BY <1>6, <2>1, <2>2, <2>4, <2>5 DEF DataFits, Starting
<1>7. CASE Select
  <2>1. CASE Accepted
    BY <1>6, <1>7, <2>1 DEF Select, Accepted, server
  <2>2. CASE ~linked
    <3>1. data = <<>>
      BY <1>7, <2>2 DEF DataFits, Select
    <3>2. data' \in {data, <<>>}
      BY <1>7, ListSteps DEF ClientStep, DtpStep
    <3> QED BY <3>1, <3>2
  <2> QED BY <1>7, <2>1, <2>2 DEF Select
<1>8. CASE Accept
  BY <1>6, <1>8 DEF Accept, Accepted
<1>9. CASE Transferring \/ Excuse
  BY <1>6, <1>9 DEF Transferring, Excuse, NoListing, Disconnected, dtp, server
<1>14. CASE SelectTimedOut
  BY <1>14 DEF SelectTimedOut, DataFits, dtp
<1>10. CASE ReadAllData
  BY <1>6, <1>10 DEF ReadAllData, server
<1>11. CASE extend_cache \/ ListRead
  BY <1>11 DEF extend_cache, ListRead, CloseData
<1>12. CASE ListBroken
  BY <1>12 DEF ListBroken, Disconnected
<1>13. CASE DataBroken
  BY <1>13, FailingIs DEF DataBroken, Failing, DataFits, Starting
<1> QED BY <1>1, <1>3, <1>4, <1>5, <1>7, <1>8, <1>9, <1>10, <1>11, <1>12, <1>13, <1>14 DEF Client

LEMMA PartsFit ==
  ASSUME NEW c, NEW x \in Parts(c)
  PROVE  DOMAIN x.tree \subseteq Sections(c)
<1>1. CASE \E S \in SUBSET Sections(c) : x = [tree |-> [p \in S |-> Kids(p)], cut |-> TRUE]
  BY <1>1
<1>2. CASE \E S \in SUBSET Sections(c) : \E last \in S : \E part \in SUBSET Kids(last) :
             x = [tree |-> [p \in S |-> IF p = last THEN part ELSE Kids(p)], cut |-> FALSE]
  BY <1>2
<1> QED BY <1>1, <1>2, PartsAre

(* The server sends what was asked for, and less only if it aborts.        *)
LEMMA DataSent ==
  ASSUME Types, ~Loose => InStep, PortsFit, QuietClosed, LinkedFits, DataFits, ServerStep
  PROVE  DataFits'
<1>1. UNCHANGED <<pc, job, curpath, faults>>
  BY DEF ServerStep, clientVars, Server, Answer, Begin, Link, Transmit, Complete, Refuse, Abort, Drop, EndTransfer
<1>2. /\ ListCommand' = ListCommand /\ Whole(ListCommand)' = Whole(ListCommand)
      /\ Sections(ListCommand)' = Sections(ListCommand)
  BY <1>1 DEF ListCommand, Command, Caching, Whole, Sections, Kids
<1>3. CASE data' = data /\ (linked => linked')
  <2>1. (DOMAIN data[1].tree)' = DOMAIN data[1].tree
    BY <1>3
  <2> QED BY <1>1, <1>2, <1>3, <2>1 DEF DataFits
<1>4. ASSUME Listing, linked, linked'
      PROVE  /\ pc \notin OneReply \cup {"ready", "list", "go"}
             /\ pc \in AtListing => Sections(Asked) = Sections(ListCommand) /\ Whole(Asked) = Whole(ListCommand)
  <2>1. dsock \in {"listen", "open"} /\ up /\ owed # <<>> /\ Asked.cmd \in Lists
    BY <1>4 DEF LinkedFits, Listing, Busy, Lists
  <2>2. pc \notin Quiet /\ pc # "PASV"
    BY <2>1 DEF QuietClosed, LinkedFits
  <2>3. CASE Loose
    <3>1. 1 \in 1..Len(owed) /\ Asked = owed[1]
      BY <2>1 DEF Types, Connections, Asked
    <3>2. Wanted(Asked)
      BY <1>4, <2>1, <2>3, <3>1 DEF PortsFit, Renewed
    <3> QED BY <2>2, <3>2 DEF Wanted, Quiet, OneReply, AtListing, Starting
  <2>4. ASSUME ~Loose PROVE pc # "PORT"
    <3>1. SUFFICES ASSUME pc = "PORT" PROVE FALSE
      OBVIOUS
    <3>2. PICK c \in Commands : c.cmd = "PORT" /\ Single(c)
      BY <2>4, <3>1 DEF InStep
    <3>3. owed = <<c>>
      BY <2>1, <3>2 DEF Single, Owing
    <3> QED BY <2>1, <3>2, <3>3, OneCommand DEF Asked, Lists
  <2>5. ASSUME ~Loose, pc \in AtListing PROVE Sections(Asked) = Sections(ListCommand) /\ Whole(Asked) = Whole(ListCommand)
    <3>1. PICK c \in Commands : /\ Waits(c) /\ c.cmd = (IF Caching THEN "LIST -R" ELSE "LIST")
                                /\ Unread(c) \/ Begun(c)
      BY <2>5 DEF InStep, AtListing
    <3>2. Asked = c
      BY <2>1, <3>1, OneCommand DEF Unread, Begun, Owing, Asked
    <3>3. Sections(Asked) = Sections(ListCommand)
      BY <3>1, <3>2 DEF Sections, ListCommand, Command, Waits, ForDirectory
    <3> QED BY <3>3 DEF Whole
  <2> QED BY <2>2, <2>3, <2>4, <2>5 DEF OneReply, Quiet
<1>5. CASE Transmit
  <2>1. Listing /\ linked /\ linked' /\ data' = <<Whole(Asked)>>
    BY <1>5 DEF Transmit
  <2>2. PICK w : w = Whole(Asked)
    OBVIOUS
  <2>3. DOMAIN w.tree = Sections(Asked) /\ data' = <<w>>
    BY <2>1, <2>2 DEF Whole
  <2>4. (DOMAIN data[1].tree)' = DOMAIN w.tree
    BY <2>3
  <2> QED BY <1>1, <1>2, <1>4, <2>1, <2>2, <2>3, <2>4 DEF DataFits
<1>6. CASE Abort /\ linked
  <2>1. Listing /\ linked' /\ \E part \in Parts(Asked) : data' = <<part>>
    BY <1>6 DEF Abort, EndTransfer
  <2>2. pc \in AtListing => "abort" \in faults
    <3> SUFFICES ASSUME pc \in AtListing PROVE "abort" \in faults
      OBVIOUS
    <3>1. ~Outdated
      <4>1. CASE Loose
        <5>1. DOMAIN owed = 1..Len(owed)
          BY DEF Types, Connections
        <5> QED BY <1>6, <2>1, <4>1, <5>1 DEF PortsFit, Outdated, Listing, Busy
      <4>2. CASE ~Loose
        <5>1. PICK c \in Commands : c.cmd \in Lists /\ (Unread(c) \/ Begun(c))
          BY <4>2 DEF InStep, AtListing, Lists
        <5>2. owed = <<c>>
          BY <2>1, <5>1 DEF Unread, Begun, Owing, Listing, Busy
        <5>3. DOMAIN owed = {1} /\ owed[1] = c
          BY <5>2
        <5> QED BY <5>1, <5>3 DEF Outdated, Lists
      <4> QED BY <4>1, <4>2
    <3> QED BY <1>6, <3>1 DEF Abort, Unwanted, LinkedFits
  <2>3. PICK part \in Parts(Asked) : data' = <<part>>
    BY <2>1
  <2>4. (DOMAIN data[1].tree)' = DOMAIN part.tree /\ DOMAIN part.tree \subseteq Sections(Asked)
    BY <2>3, PartsFit
  <2> QED BY <1>1, <1>2, <1>4, <1>6, <2>1, <2>2, <2>4 DEF DataFits
<1> QED BY <1>3, <1>5, <1>6 DEF ServerStep, Server, Answer, Begin, Link, Complete, Refuse, Abort, Drop, EndTransfer

LEMMA InitFtp == Init => FtpInv
<1> SUFFICES ASSUME Init PROVE FtpInv
  OBVIOUS
<1>1. StepsFit /\ InStep
  BY DEF Init, StepsFit, InStep, Starting
<1>2. AllHonest
  <2>1. Len(Line) = 0
    BY DEF Init, Line
  <2> QED BY <2>1 DEF AllHonest
<1>3. LinkedFits /\ DataFits /\ PortsFit
  BY DEF Init, LinkedFits, DataFits, PortsFit
<1> QED BY <1>1, <1>2, <1>3, InitTypes, InitQuiet DEF FtpInv

LEMMA NextFtp == FtpInv /\ [Next]_vars => FtpInv'
<1> SUFFICES ASSUME FtpInv, [Next]_vars PROVE FtpInv'
  OBVIOUS
<1>1. /\ Types /\ StepsFit /\ (~Loose => InStep) /\ PortsFit
      /\ QuietClosed /\ AllHonest /\ LinkedFits /\ DataFits
  BY DEF FtpInv
<1>2. Types' /\ StepsFit' /\ (~Loose => InStep)' /\ AllHonest'
  BY <1>1, NextInvariant
<1>3. QuietClosed' /\ LinkedFits' /\ PortsFit'
  BY <1>1, StepQuiet, LinkedKept, PortsKept
<1>4. DataFits'
  <2>1. CASE UNCHANGED vars
    <3>1. /\ ListCommand' = ListCommand /\ Whole(ListCommand)' = Whole(ListCommand)
          /\ Sections(ListCommand)' = Sections(ListCommand)
      BY <2>1 DEF vars, ListCommand, Command, Caching, Whole, Sections, Kids
    <3>2. UNCHANGED <<data, pc, linked, faults>> /\ (DOMAIN data[1].tree)' = DOMAIN data[1].tree
      BY <2>1 DEF vars
    <3> QED BY <1>1, <3>1, <3>2 DEF DataFits
  <2> QED BY <1>1, <2>1, DataRead, DataSent DEF Next
<1> QED BY <1>2, <1>3, <1>4 DEF FtpInv

-----------------------------------------------------------------------------
(* SAFETY: the reply that is read is that to the command that was sent,    *)
(* for every share, number of retries and batches of replies: repeated     *)
(* calls, refusals, connections that break and transfers that end early do *)
(* not bring the client out of step.  It says nothing of servers that are  *)
(* late, unless listings come by STAT, nor of clients that cannot connect  *)
(* for their data (Punctual): these do get out of step.                    *)
THEOREM RepliesInOrder == Spec => []OwnReply
<1>1. FtpInv => OwnReply
  <2> SUFFICES ASSUME FtpInv, Punctual, ~Waiting,
                      pc \in Starting \cup {"STAT", "PASV", "PORT", "select", "150", "226", "excuse", "CWD"}
               PROVE  Incoming.to.cmd = Awaited /\ (Awaited \in {"STAT", "LIST", "CWD"} => Incoming.to.dir = curpath)
    BY DEF OwnReply, Punctual
  <2>1. Incoming = Line[1] /\ Line # <<>> /\ InStep
    BY FirstOnLine DEF FtpInv, Types, Punctual, Loose
  <2>2. CASE pc \in Starting \cup {"STAT", "PASV", "PORT", "CWD"}
    <3>1. PICK c \in Commands : Waits(c) /\ c.cmd = pc /\ Single(c)
      BY <2>1, <2>2 DEF InStep, Stray
    <3>2. Awaited = pc
      BY <2>2 DEF Awaited, Starting
    <3> QED BY <2>1, <3>1, <3>2 DEF Waits, Single, ForDirectory
  <2>3. CASE pc \in {"select", "150", "226", "excuse"}
    <3>1. PICK c \in Commands : Waits(c) /\ c.cmd = (IF Caching THEN "LIST -R" ELSE "LIST") /\ (Unread(c) \/ Begun(c))
      BY <2>1, <2>3 DEF InStep
    <3>2. Line[1].to = c
      BY <2>1, <3>1 DEF Unread, Begun
    <3> QED BY <2>1, <2>3, <3>1, <3>2 DEF Waits, Awaited, ForDirectory
  <2> QED BY <2>2, <2>3
<1> QED BY <1>1, InitFtp, NextFtp, PTL DEF Spec

-----------------------------------------------------------------------------
(* What is told of a directory was said of it.                             *)
LEMMA StatTells ==
  ASSUME FtpInv, Stat
  PROVE  Code = 2 => Incoming.kids \subseteq Kids(path)
<1>1. pc = "STAT" /\ ~Waiting /\ Types /\ ~Loose /\ InStep /\ AllHonest
  BY DEF Stat, FtpInv, Types, Control, Loose
<1>2. Incoming = Line[1] /\ Len(Line) \in Nat /\ Len(Line) # 0
  BY <1>1, FirstOnLine DEF Types
<1>3. Incoming.kids = IF Incoming.to.cmd = "STAT" /\ Incoming.code = 2 THEN Kids(Incoming.to.dir) ELSE {}
  <2>1. Honest(Line[1])
    BY <1>1, <1>2 DEF AllHonest
  <2> QED BY <1>2, <2>1 DEF Honest
<1>4. PICK c \in Commands : Waits(c) /\ c.cmd = "STAT" /\ (Single(c) \/ \E x \in Commands : Stray(x) /\ Two(x, c))
  BY <1>1 DEF InStep
<1>5. curpath = path
  BY <1>1 DEF Types, Control, Place, Going, Starting
<1>6. CASE Single(c)
  <2>1. Incoming.to = c
    BY <1>2, <1>6 DEF Single
  <2> QED BY <1>3, <1>4, <1>5, <2>1 DEF Waits, ForDirectory
<1>7. CASE \E x \in Commands : Stray(x) /\ Two(x, c)
  <2>1. PICK x \in Commands : Stray(x) /\ Two(x, c)
    BY <1>7
  <2>2. x.cmd = "LIST -R"
    BY <1>1, <2>1, OutOfStep DEF Stray, Types
  <2>3. Incoming.to = x
    BY <1>2, <2>1 DEF Two
  <2> QED BY <1>3, <2>2, <2>3
<1> QED BY <1>4, <1>6, <1>7

LEMMA ListTells ==
  ASSUME FtpInv, ListRead
  PROVE  UNION {data[1].tree[p] : p \in DOMAIN data[1].tree} \subseteq Kids(path)
<1>1. /\ pc = "226" /\ ~Caching /\ data # <<>> /\ Tree(data[1].tree)
      /\ DOMAIN data[1].tree \subseteq Sections(ListCommand) /\ curpath = path
  BY DEF ListRead, FtpInv, Types, Connections, Control, ByList, Place, Going, Starting, DataFits, AtListing
<1>2. Sections(ListCommand) = {path}
  BY <1>1 DEF Sections, ListCommand, Command
<1>3. \A p \in DOMAIN data[1].tree : data[1].tree[p] \subseteq Kids(path)
  BY <1>1, <1>2 DEF Tree
<1> QED BY <1>3

(* SAFETY: what is told of a directory is in it, whatever goes wrong, if   *)
(* its paths can be converted.  A client that is out of step asks for a    *)
(* listing by PASV after a CWD only, whose reply is no address, and by     *)
(* STAT behind the reply to LIST -R only, which tells nothing; in the      *)
(* active mode, where it may be behind by any number of replies, what the  *)
(* server has for an earlier listing does not come over a port that a      *)
(* later PORT has told it of.                                              *)
THEOREM NothingForeign == Spec => NeverForeign
<1>1. ASSUME FtpInv, [Next]_vars, phase = "enter", phase' = "try", "names" \notin faults
      PROVE  left'[Len(left')] \subseteq Kids(path)
  <2>1. left \in Seq(SUBSET Names)
    BY <1>1 DEF FtpInv, Types, Place, W!TypeOK
  <2>2. ASSUME NEW kids \in SUBSET Kids(path), Tell(kids) PROVE left'[Len(left')] \subseteq Kids(path)
    <3>1. left' = Append(left, kids) /\ kids \in SUBSET Names
      BY <2>2 DEF Tell, W!Enter, Kids
    <3>2. left'[Len(left')] = kids
      BY <2>1, <3>1, AppendProperties
    <3> QED BY <3>2
  <2>3. CASE TellCached
    <3>1. curpath = path /\ Tree(cache)
      BY <1>1, <2>3 DEF TellCached, FtpInv, Types, Control, Place, Going
    <3>2. Tell(IF path \in DOMAIN cache THEN cache[path] ELSE {})
      BY <2>3, <3>1 DEF TellCached
    <3>3. (IF path \in DOMAIN cache THEN cache[path] ELSE {}) \in SUBSET Kids(path)
      BY <3>1 DEF Tree
    <3> QED BY <2>2, <3>2, <3>3
  <2>4. CASE Stat
    <3>1. (IF Code = 2 THEN Incoming.kids ELSE {}) \in SUBSET Kids(path)
      BY <1>1, <2>4, StatTells
    <3>2. Tell(IF Code = 2 THEN Incoming.kids ELSE {})
      BY <2>4 DEF Stat
    <3> QED BY <2>2, <3>1, <3>2
  <2>5. CASE ListRead
    <3>1. UNION {data[1].tree[p] : p \in DOMAIN data[1].tree} \in SUBSET Kids(path)
      BY <1>1, <2>5, ListTells
    <3> QED BY <2>2, <2>5, <3>1 DEF ListRead
  <2>6. CASE NoListing
    <3>1. Tell({})
      BY <1>1, <2>6 DEF NoListing, walk
    <3> QED BY <2>2, <3>1
  <2>7. CASE Passive \/ Port \/ Select \/ SelectTimedOut \/ Accept \/ Excuse \/ Transferring
    BY <1>1, <2>6, <2>7 DEF Passive, Port, Select, SelectTimedOut, Accept, Excuse, Transferring, Accepted, walk
  <2>8. CASE Reconnect \/ NoConnection \/ Greeted \/ User \/ Pass \/ Feat \/ Clnt \/ Opts \/ Reconnected \/ Type \/ NotStarted
    BY <1>1, <2>8 DEF Reconnect, NoConnection, Greeted, User, Pass, Feat, Clnt, Opts, Reconnected, Type, NotStarted, walk
  <2>9. CASE CacheDirs \/ extend_cache \/ FindFirstFile \/ ReadAllData \/ ListBroken \/ DataBroken \/ GoBroken \/ GoAgain \/ GoParent \/ \E n \in Names : GoChild(n)
    BY <1>1, <2>9 DEF CacheDirs, extend_cache, FindFirstFile, ReadAllData, ListBroken, DataBroken, GoBroken, GoAgain, GoParent, GoChild, GoTo, walk
  <2>10. CASE GoCached \/ ChDir \/ Finish
    BY <1>1, <2>10 DEF GoCached, ChDir, Finish, W!Descend, W!Try, W!Ascend, W!Leaving, W!Refuse, W!AscendFails, W!Finish
  <2>11. CASE ServerStep \/ UNCHANGED vars
    BY <1>1, <2>11 DEF ServerStep, clientVars, walk, vars
  <2> QED BY <1>1, <2>3, <2>4, <2>5, <2>7, <2>8, <2>9, <2>10, <2>11 DEF Next, Client
<1> QED BY <1>1, InitFtp, NextFtp, PTL DEF Spec, NeverForeign

-----------------------------------------------------------------------------
(* With a dependable server the reply to a CWD tells whether the directory *)
(* can be entered.                                                         *)
LEMMA GoesWhereItCan ==
  ASSUME FtpInv, Dependable, ChDir
  PROVE  Code = 2 <=> curpath \in Share
<1>1. pc = "CWD" /\ ~Waiting /\ Types /\ InStep /\ AllHonest
  BY DEF ChDir, FtpInv, Dependable, Loose
<1>2. Incoming = Line[1] /\ Len(Line) \in Nat /\ Len(Line) # 0
  BY <1>1, FirstOnLine DEF Types
<1>3. Honest(Line[1])
  BY <1>1, <1>2 DEF AllHonest
<1>4. Punctual /\ "refuse" \notin faults
  BY DEF Dependable, Punctual
<1>5. PICK c \in Commands : Waits(c) /\ c.cmd = "CWD" /\ Single(c)
  BY <1>1, <1>4 DEF InStep, Stray
<1>6. Incoming.to = c
  BY <1>2, <1>5 DEF Single
<1> QED BY <1>2, <1>3, <1>4, <1>5, <1>6 DEF Honest, Waits, ForDirectory, Code

LEMMA StatTellsAll ==
  ASSUME FtpInv, Dependable, path \in Share, Stat
  PROVE  Code = 2 /\ Incoming.kids = Kids(path)
<1>1. pc = "STAT" /\ ~Waiting /\ Types /\ ~Loose /\ InStep /\ AllHonest
  BY DEF Stat, FtpInv, Types, Control, Loose
<1>2. Incoming = Line[1] /\ Len(Line) \in Nat /\ Len(Line) # 0
  BY <1>1, FirstOnLine DEF Types
<1>3. Honest(Line[1])
  BY <1>1, <1>2 DEF AllHonest
<1>4. Punctual /\ "refuse" \notin faults
  BY DEF Dependable, Punctual
<1>5. PICK c \in Commands : Waits(c) /\ c.cmd = "STAT" /\ Single(c)
  BY <1>1, <1>4 DEF InStep, Stray
<1>6. Incoming.to = c
  BY <1>2, <1>5 DEF Single
<1>7. curpath = path
  BY <1>1 DEF Types, Control, Place, Going, Starting
<1> QED BY <1>2, <1>3, <1>4, <1>5, <1>6, <1>7 DEF Honest, Waits, ForDirectory, Code

LEMMA ListTellsAll ==
  ASSUME FtpInv, Dependable, ListRead
  PROVE  UNION {data[1].tree[p] : p \in DOMAIN data[1].tree} = Kids(path)
<1>1. pc = "226" /\ ~Caching /\ data = <<Whole(ListCommand)>> /\ curpath = path
  BY DEF ListRead, FtpInv, Types, Control, ByList, Place, Going, Starting, DataFits, AtListing, Dependable
<1>2. Sections(ListCommand) = {path}
  BY <1>1 DEF Sections, ListCommand, Command
<1>3. PICK tree : tree = [p \in {path} |-> Kids(p)]
  OBVIOUS
<1>4. data[1].tree = tree
  BY <1>1, <1>2, <1>3 DEF Whole
<1>5. DOMAIN tree = {path} /\ tree[path] = Kids(path)
  BY <1>3
<1> QED BY <1>4, <1>5

(* Nor are listings refused or transfers excused.                          *)
LEMMA NoExcuse ==
  ASSUME FtpInv, Dependable, Passive \/ Port \/ Select \/ SelectTimedOut \/ Accept \/ Excuse \/ Transferring
  PROVE  UNCHANGED walk
<1>1. /\ Types /\ InStep /\ AllHonest /\ Punctual /\ faults \cap {"refuse", "nodata"} = {}
      /\ mode \in {"stat", "passive"} /\ ~Active
  BY DEF FtpInv, Dependable, Punctual, Active, Loose
<1>2. pc \notin {"PORT", "select", "accept", "excuse"}
  BY <1>1 DEF Types, Control
<1>3. CASE Passive
  <2>1. pc = "PASV" /\ ~Waiting
    BY <1>3 DEF Passive
  <2>2. Incoming = Line[1] /\ Len(Line) \in Nat /\ Len(Line) # 0
    BY <1>1, <2>1, FirstOnLine DEF Types
  <2>3. Honest(Line[1])
    BY <1>1, <2>2 DEF AllHonest
  <2>4. PICK c \in Commands : c.cmd = "PASV" /\ Single(c)
    BY <1>1, <2>1 DEF InStep, Stray
  <2>5. Incoming.to = c
    BY <2>2, <2>4 DEF Single
  <2>6. Code = 2
    BY <1>1, <2>2, <2>3, <2>4, <2>5 DEF Honest, Code
  <2> QED BY <1>3, <2>6 DEF Passive
<1>4. CASE Transferring
  <2>1. pc = "150" /\ ~Waiting
    BY <1>4 DEF Transferring
  <2>2. Incoming = Line[1] /\ Len(Line) \in Nat /\ Len(Line) # 0
    BY <1>1, <2>1, FirstOnLine DEF Types
  <2>3. PICK c \in Commands : Unread(c)
    BY <1>1, <2>1 DEF InStep
  <2>4. Code = 1
    BY <1>1, <2>2, <2>3 DEF Unread, Code
  <2> QED BY <1>4, <2>4 DEF Transferring
<1> QED BY <1>2, <1>3, <1>4 DEF Port, Select, SelectTimedOut, Accept, Excuse

(* A call of the walker is a step of the walk, or none.                    *)
LEMMA StepIsWalk ==
  ASSUME FtpInv, Dependable, path \in Share, [Next]_vars
  PROVE  W!Next \/ UNCHANGED walk
<1>1. W!Enter(Kids(path)) => W!Next
  BY DEF W!Next, W!Read, W!Listed, W!Kids, Kids
<1>2. CASE Stat
  BY <1>1, <1>2, StatTellsAll DEF Stat, Tell
<1>3. CASE ListRead
  BY <1>1, <1>3, ListTellsAll DEF ListRead, Tell
<1>4. CASE Passive \/ Port \/ Select \/ SelectTimedOut \/ Accept \/ Excuse \/ Transferring
  BY <1>4, NoExcuse
<1>5. CASE ChDir
  <2>1. Down => Goal \in Names /\ curpath = Append(path, Goal)
    BY <1>5, GoalIsChild DEF FtpInv
  <2>2. Code = 2 <=> curpath \in Share
    BY <1>5, GoesWhereItCan
  <2> QED BY <1>5, <2>1, <2>2 DEF ChDir, W!Next
<1>6. CASE Finish
  BY <1>6 DEF Finish, W!Next
<1>7. CASE TellCached \/ GoCached
  BY <1>7 DEF TellCached, GoCached, FtpInv, Types, Control, Dependable
<1>8. CASE Reconnect \/ NoConnection \/ Greeted \/ User \/ Pass \/ Feat \/ Clnt \/ Opts \/ Reconnected \/ Type \/ NotStarted
  BY <1>8 DEF Reconnect, NoConnection, Greeted, User, Pass, Feat, Clnt, Opts, Reconnected, Type, NotStarted
<1>9. CASE CacheDirs \/ extend_cache \/ FindFirstFile \/ ReadAllData \/ ListBroken \/ DataBroken \/ GoBroken \/ GoAgain \/ GoParent \/ \E n \in Names : GoChild(n)
  BY <1>9 DEF CacheDirs, extend_cache, FindFirstFile, ReadAllData, ListBroken, DataBroken, GoBroken, GoAgain, GoParent, GoChild, GoTo
<1>10. CASE ServerStep \/ UNCHANGED vars
  BY <1>10 DEF ServerStep, clientVars, walk, vars
<1> QED BY <1>2, <1>3, <1>4, <1>5, <1>6, <1>7, <1>8, <1>9, <1>10 DEF Next, Client

(* The walk enters only what can be entered, and is refused nothing else;  *)
(* what of the share was not read is still to come.                        *)
Within == Dependable => path \in Share /\ refused \cap Share = {} /\ WP!FullInv

LEMMA SameWalk == W!Next => WP!Next
<1> SUFFICES ASSUME W!Next PROVE WP!Next
  OBVIOUS
<1> USE DEF W!Next, WP!Next
<1>1. CASE W!Read
  BY <1>1 DEF W!Read, WP!Read, W!Enter, WP!Enter, W!Listed, WP!Listed, W!Kids, WP!Kids
<1>2. CASE \E n \in Names : (Append(path, n) \in Share /\ W!Descend(n)) \/ W!Refuse(n)
  BY <1>2 DEF W!Descend, WP!Descend, W!Refuse, WP!Refuse, W!Try, WP!Try, W!Rest, WP!Rest, W!RestWithout, WP!RestWithout
<1>3. CASE W!Ascend \/ W!AscendFails \/ W!Exit \/ W!Finish
  BY <1>3
  DEF W!Ascend, WP!Ascend, W!AscendFails, WP!AscendFails, W!Leaving, WP!Leaving, W!Rest, WP!Rest, W!Parent, WP!Parent,
      W!AddedTree, WP!AddedTree, W!Exit, WP!Exit, W!Finish, WP!Finish
<1> QED BY <1>1, <1>2, <1>3

LEMMA InitWithin == Init => Within
<1>1. Init => path \in Share /\ refused \cap Share = {}
  BY ShareAssumption DEF Init, W!Init
<1>2. Init => WP!FullInv
  BY ShareAssumption, WP!InitFull DEF Init, W!Init, WP!Init, WP!Path
<1> QED BY <1>1, <1>2 DEF Within

LEMMA NextWithin == FtpInv /\ Within /\ [Next]_vars => Within'
<1> SUFFICES ASSUME FtpInv, Within, [Next]_vars, Dependable'
             PROVE  (path \in Share)' /\ (refused \cap Share = {})' /\ WP!FullInv'
  BY DEF Within
<1>1. UNCHANGED <<mode, faults>>
  <2>1. CASE Client
    BY <2>1, StartSteps, ListSteps, OtherSteps DEF Client, ClientStep, Reconnect, FtpInv
  <2>2. CASE ServerStep \/ UNCHANGED vars
    BY <2>2 DEF vars, ServerStep, Server, Answer, Begin, Link, Transmit, Complete, Refuse, Abort, Drop, EndTransfer
  <2> QED BY <2>1, <2>2 DEF Next
<1>2. Dependable /\ path \in Share /\ refused \cap Share = {} /\ WP!FullInv
  BY <1>1 DEF Dependable, Within
<1>3. W!Next \/ UNCHANGED walk
  BY <1>2, StepIsWalk
<1>4. WP!FullInv'
  <2>1. [WP!Next]_(WP!vars)
    BY <1>3, SameWalk DEF walk, WP!vars
  <2> QED BY <1>2, <2>1, ShareAssumption, WP!NextFull DEF WP!Path
<1>5. CASE UNCHANGED walk
  BY <1>2, <1>4, <1>5 DEF walk
<1>6. CASE ChDir
  <2>1. Down => curpath = Append(path, Goal)
    BY <1>6, GoalIsChild DEF FtpInv
  <2>2. Code = 2 <=> curpath \in Share
    BY <1>2, <1>6, GoesWhereItCan
  <2>3. CASE Code = 2 /\ Down /\ W!Descend(Goal)
    BY <1>2, <1>4, <2>1, <2>2, <2>3 DEF W!Descend
  <2>4. CASE Code = 2 /\ W!Ascend
    <3>1. path # <<>> /\ path' = SubSeq(path, 1, Len(path) - 1) /\ refused' = refused
      BY <2>4 DEF W!Ascend, W!Leaving, W!Parent
    <3>2. path' \in Share
      <4>1. path \in Seq(Names)
        BY <1>2, ShareAssumption
      <4>2. path' \in Seq(Names) /\ Len(path') = Len(path) - 1 /\ Len(path) \in Nat /\ Len(path) # 0
        BY <3>1, <4>1, FrontPath
      <4>3. CASE Len(path) = 1
        <5>1. path' = <<>>
          BY <4>2, <4>3
        <5> QED BY <5>1, ShareAssumption
      <4>4. CASE Len(path) # 1
        <5>1. Len(path) - 1 \in 1..Len(path)
          BY <4>2, <4>4
        <5> QED BY <1>2, <3>1, <5>1, ShareAssumption
      <4> QED BY <4>3, <4>4
    <3> QED BY <1>2, <1>4, <3>1, <3>2
  <2>5. CASE Code # 2 /\ Down /\ W!Refuse(Goal)
    <3>1. path' = path /\ refused' = refused \cup {curpath}
      BY <2>1, <2>5 DEF W!Refuse
    <3> QED BY <1>2, <1>4, <2>2, <2>5, <3>1
  <2>6. CASE W!AscendFails
    BY <1>2, <1>4, <2>6 DEF W!AscendFails
  <2> QED BY <1>6, <2>3, <2>4, <2>5, <2>6 DEF ChDir
<1>7. CASE Stat \/ ListRead \/ Finish \/ TellCached \/ GoCached
  <2>1. UNCHANGED <<path, refused>>
    BY <1>2, <1>7
    DEF Stat, ListRead, Finish, TellCached, GoCached, Tell, W!Enter, W!Finish, FtpInv, Types, Control, Dependable
  <2> QED BY <1>2, <1>4, <2>1
<1>8. CASE Passive \/ Port \/ Select \/ SelectTimedOut \/ Accept \/ Excuse \/ Transferring
  BY <1>2, <1>5, <1>8, NoExcuse
<1>9. CASE Reconnect \/ NoConnection \/ Greeted \/ User \/ Pass \/ Feat \/ Clnt \/ Opts \/ Reconnected \/ Type \/ NotStarted
  BY <1>5, <1>9 DEF Reconnect, NoConnection, Greeted, User, Pass, Feat, Clnt, Opts, Reconnected, Type, NotStarted
<1>10. CASE CacheDirs \/ extend_cache \/ FindFirstFile \/ ReadAllData \/ ListBroken \/ DataBroken \/ GoBroken \/ GoAgain \/ GoParent \/ \E n \in Names : GoChild(n)
  BY <1>5, <1>10 DEF CacheDirs, extend_cache, FindFirstFile, ReadAllData, ListBroken, DataBroken, GoBroken, GoAgain, GoParent, GoChild, GoTo
<1>11. CASE ServerStep \/ UNCHANGED vars
  BY <1>5, <1>11 DEF ServerStep, clientVars, walk, vars
<1> QED BY <1>6, <1>7, <1>8, <1>9, <1>10, <1>11 DEF Next, Client

(* REFINEMENT: the walker keeps what dt.h asks of walkers, as long as      *)
(* listings come by STAT, or by passive connections of a server that is    *)
(* not late, and nothing is refused without a reason: connections that     *)
(* break, time-outs and repeated calls are not seen by the engine.         *)
THEOREM KeepsTheWalk == Spec => WalkSteps
<1>1. FtpInv /\ Within /\ [Next]_vars => [Dependable => W!Next]_walk
  BY StepIsWalk DEF Within
<1> QED BY <1>1, InitFtp, NextFtp, InitWithin, NextWithin, PTL DEF Spec, WalkSteps

(* So a scan of such a server that ends well has read every directory that *)
(* can be entered, whatever connections broke on the way.                  *)
AllRead == Dependable /\ phase = "done" => Share \subseteq entered

THEOREM ScanIsComplete == Spec => []AllRead
<1>1. Within => AllRead
  <2> SUFFICES ASSUME Within, Dependable, phase = "done", NEW p \in Share PROVE p \in entered
    BY DEF AllRead
  <2>1. WP!NothingForgotten
    BY ShareAssumption, WP!FullAtTheEnd DEF Within, WP!Path
  <2>2. ~WP!Excused(p)
    <3> SUFFICES ASSUME NEW q \in refused, Len(q) <= Len(p), q = SubSeq(p, 1, Len(q)) PROVE FALSE
      BY DEF WP!Excused, WP!Prefix
    <3>1. p \in Seq(Names) /\ q \in Seq(Names)
      BY ShareAssumption DEF Within, WP!FullInv, WP!TypeOK, WP!Path
    <3>2. Len(q) \in Nat /\ Len(p) \in Nat
      BY <3>1
    <3>3. q \in Share
      <4>1. CASE Len(q) = 0
        BY <3>1, <4>1, ShareAssumption
      <4>2. CASE Len(q) # 0
        <5>1. Len(q) \in 1..Len(p)
          BY <3>2, <4>2
        <5> QED BY <5>1, ShareAssumption
      <4> QED BY <4>1, <4>2
    <3> QED BY <3>3 DEF Within
  <2> QED BY <2>1, <2>2 DEF WP!NothingForgotten
<1> QED BY <1>1, InitFtp, NextFtp, InitWithin, NextWithin, PTL DEF Spec

-----------------------------------------------------------------------------
(* The walker calls the engine's steps and no others, out of step or not.  *)
LEMMA Calls ==
  ASSUME FtpInv, [Next]_vars
  PROVE  \/ UNCHANGED walk
         \/ \E kids \in SUBSET Names : W!Enter(kids)
         \/ \E n \in Names : W!Descend(n) \/ W!Refuse(n)
         \/ W!Ascend \/ W!AscendFails \/ W!Finish
<1>1. CASE TellCached
  <2>1. Typed(cache)
    BY DEF FtpInv, Types, Control
  <2>2. (IF curpath \in DOMAIN cache THEN cache[curpath] ELSE {}) \in SUBSET Names
    BY <2>1 DEF Typed
  <2> QED BY <1>1, <2>2 DEF TellCached, Tell
<1>2. CASE Stat
  <2>1. (IF Code = 2 THEN Incoming.kids ELSE {}) \in SUBSET Names
    BY <1>2, StatTells DEF Kids
  <2> QED BY <1>2, <2>1 DEF Stat, Tell
<1>3. CASE ListRead
  <2>1. UNION {data[1].tree[p] : p \in DOMAIN data[1].tree} \in SUBSET Names
    BY <1>3, ListTells DEF Kids
  <2> QED BY <1>3, <2>1 DEF ListRead, Tell
<1>4. NoListing => UNCHANGED walk \/ \E kids \in SUBSET Names : W!Enter(kids)
  BY DEF NoListing, Tell
<1>5. CASE Passive \/ Port \/ Select \/ SelectTimedOut \/ Accept \/ Excuse \/ Transferring
  BY <1>4, <1>5 DEF Passive, Port, Select, SelectTimedOut, Accept, Excuse, Transferring, Accepted
<1>6. CASE ChDir
  <2>1. Down => Goal \in Names
    BY <1>6, GoalIsChild DEF FtpInv
  <2> QED BY <1>6, <2>1 DEF ChDir
<1>7. CASE GoCached \/ Finish
  BY <1>7 DEF GoCached, Finish
<1>8. CASE Reconnect \/ NoConnection \/ Greeted \/ User \/ Pass \/ Feat \/ Clnt \/ Opts \/ Reconnected \/ Type \/ NotStarted
  BY <1>8 DEF Reconnect, NoConnection, Greeted, User, Pass, Feat, Clnt, Opts, Reconnected, Type, NotStarted
<1>9. CASE CacheDirs \/ extend_cache \/ FindFirstFile \/ ReadAllData \/ ListBroken \/ DataBroken \/ GoBroken \/ GoAgain \/ GoParent \/ \E n \in Names : GoChild(n)
  BY <1>9 DEF CacheDirs, extend_cache, FindFirstFile, ReadAllData, ListBroken, DataBroken, GoBroken, GoAgain, GoParent, GoChild, GoTo
<1>10. CASE ServerStep \/ UNCHANGED vars
  BY <1>10 DEF ServerStep, clientVars, walk, vars
<1> QED BY <1>1, <1>2, <1>3, <1>5, <1>6, <1>7, <1>8, <1>9, <1>10 DEF Next, Client

(* So it comes back to no directory, whatever it was told.                 *)
LEMMA InitOnceFtp == Init => WP!OnceInv
BY ShareAssumption, WP!InitOnce DEF Init, W!Init, WP!Init, WP!Path

LEMMA NextOnceFtp == FtpInv /\ WP!OnceInv /\ [Next]_vars => WP!OnceInv'
<1> SUFFICES ASSUME FtpInv, WP!OnceInv, [Next]_vars PROVE WP!OnceInv'
  OBVIOUS
<1> USE DEF WP!Path
<1>1. WP!TypeOK'
  <2>1. W!TypeOK'
    BY NextFtp DEF FtpInv, Types, Place
  <2> QED BY <2>1 DEF W!TypeOK, WP!TypeOK, W!Path
<1>2. CASE UNCHANGED walk
  BY <1>1, <1>2 DEF walk, WP!OnceInv, WP!Fresh, WP!Taken
<1>3. CASE \E kids \in SUBSET Names : W!Enter(kids)
  <2>1. PICK kids \in SUBSET Names : WP!Enter(kids)
    BY <1>3 DEF W!Enter, WP!Enter
  <2> QED BY <1>1, <2>1, WP!EnterOnce, ShareAssumption DEF WP!OnceInv
<1>4. CASE \E n \in Names : W!Descend(n)
  <2>1. PICK n \in Names : WP!Descend(n)
    BY <1>4 DEF W!Descend, WP!Descend, W!Try, WP!Try, W!Rest, WP!Rest, W!RestWithout, WP!RestWithout
  <2> QED BY <1>1, <2>1, WP!DescendOnce, ShareAssumption DEF WP!OnceInv
<1>5. CASE \E n \in Names : W!Refuse(n)
  <2>1. PICK n \in Names : WP!Refuse(n)
    BY <1>5 DEF W!Refuse, WP!Refuse, W!Try, WP!Try, W!Rest, WP!Rest, W!RestWithout, WP!RestWithout
  <2> QED BY <1>1, <2>1, WP!RefuseOnce, ShareAssumption DEF WP!OnceInv
<1>6. CASE W!Ascend
  <2>1. WP!Ascend
    BY <1>6 DEF W!Ascend, WP!Ascend, W!Leaving, WP!Leaving, W!Rest, WP!Rest, W!Parent, WP!Parent
  <2> QED BY <1>1, <2>1, WP!AscendOnce, ShareAssumption DEF WP!OnceInv
<1>7. CASE W!AscendFails \/ W!Finish
  BY <1>1, <1>7 DEF W!AscendFails, W!Leaving, W!Finish, WP!OnceInv, WP!Fresh, WP!Taken
<1> QED BY <1>2, <1>3, <1>4, <1>5, <1>6, <1>7, Calls

(* What is read next was not read before.                                  *)
LEMMA NotReadBefore ==
  ASSUME WP!OnceInv, phase = "enter" PROVE path \notin entered
<1>1. path \in Seq(Names)
  BY DEF WP!OnceInv, WP!TypeOK, WP!Path
<1>2. WP!Agree(path, path, Len(path))
  BY <1>1 DEF WP!Agree
<1> QED BY <1>2 DEF WP!OnceInv, WP!Fresh

(* Nothing was read while the root is to be.                               *)
LEMMA NothingRead ==
  ASSUME WP!OnceInv, phase = "enter", path = <<>> PROVE entered = {}
<1>1. \A q \in entered : WP!Agree(path, q, Len(path))
  BY DEF WP!OnceInv, WP!TypeOK, WP!Path, WP!Agree
<1> QED BY <1>1 DEF WP!OnceInv, WP!Fresh

(* A directory that is not in the share has no subdirectories to be told.  *)
LEMMA OutsideIsEmpty ==
  ASSUME NEW p \in Seq(Names), p \notin Share PROVE Kids(p) = {}
<1> SUFFICES ASSUME NEW n \in Names, Append(p, n) \in Share \cup Closed PROVE FALSE
  BY DEF Kids
<1> DEFINE q == Append(p, n)
<1>1. q \in Seq(Names) /\ Len(q) = Len(p) + 1 /\ Len(p) \in Nat /\ \A i \in 1..Len(p) : q[i] = p[i]
  BY AppendProperties
<1>2. SubSeq(q, 1, Len(p)) = p
  <2> DEFINE f == SubSeq(q, 1, Len(q) - 1)
  <2>1. q # <<>> /\ Len(q) - 1 = Len(p)
    BY <1>1
  <2> HIDE DEF q
  <2>2. f \in Seq(Names) /\ Len(f) = Len(q) - 1 /\ \A i \in 1..Len(f) : f[i] = q[i]
    BY <1>1, <2>1, WP!FrontOf, ShareAssumption DEF WP!Path
  <2> HIDE DEF f
  <2>3. f = p
    BY <1>1, <2>1, <2>2
  <2> QED BY <2>1, <2>3 DEF f
<1> HIDE DEF q
<1>3. CASE q \in Closed
  <2>1. Len(q) - 1 = Len(p)
    BY <1>1
  <2>2. SubSeq(q, 1, Len(q) - 1) \in Share
    BY <1>3, ClosedAssumption
  <2> QED BY <1>2, <2>1, <2>2
<1>4. CASE q \in Share /\ p = <<>>
  BY <1>4, ShareAssumption
<1>5. CASE q \in Share /\ p # <<>>
  <2>1. Len(p) \in 1..Len(q)
    BY <1>1, <1>5
  <2> QED BY <1>2, <1>5, <2>1, ShareAssumption
<1> QED BY <1>3, <1>4, <1>5 DEF q

(* The cache holds the directories that were not read yet.                 *)
CacheInv ==
  job = "cached" /\ faults \cap {"abort", "long", "names"} = {}
    => cache = [p \in Share \ entered |-> Kids(p)]

LEMMA ParserCaches ==
  ASSUME FtpInv, WP!OnceInv, extend_cache, job' = "cached", faults \cap {"abort", "long", "names"} = {}
  PROVE  cache' = [p \in Share \ entered |-> Kids(p)]
<1>1. /\ pc = "226" /\ Caching /\ path = <<>> /\ phase = "enter"
      /\ data = <<Whole(ListCommand)>>
  BY DEF extend_cache, FtpInv, Types, Control, Place, Caching, DataFits, AtListing
<1>2. Sections(ListCommand) = Share
  BY <1>1 DEF Sections, ListCommand, Command
<1>3. data[1].tree = [p \in Share |-> Kids(p)]
  BY <1>1, <1>2 DEF Whole
<1>4. cache' \in Parsed(data[1].tree)
  BY <1>1 DEF extend_cache, Cached, NotCached, Caching
<1>5. cache' = [p \in Share |-> Kids(p)]
  BY <1>3, <1>4 DEF Parsed
<1>6. entered = {}
  BY <1>1, NothingRead
<1> QED BY <1>5, <1>6

LEMMA NextCache == FtpInv /\ WP!OnceInv /\ CacheInv /\ [Next]_vars => CacheInv'
<1> SUFFICES ASSUME FtpInv, WP!OnceInv, CacheInv, [Next]_vars,
                    job' = "cached", faults' \cap {"abort", "long", "names"} = {}
             PROVE  cache' = [p \in Share \ entered' |-> Kids(p)]
  BY DEF CacheInv
<1>1. CASE extend_cache
  <2>1. faults' = faults /\ entered' = entered
    BY <1>1 DEF extend_cache, CloseData, server, walk
  <2> QED BY <1>1, <2>1, ParserCaches
<1>2. CASE TellCached
  <2>1. /\ faults' = faults /\ job = "cached" /\ entered' = entered \cup {path} /\ curpath = path
        /\ cache' = [p \in DOMAIN cache \ {curpath} |-> cache[p]]
    BY <1>2 DEF TellCached, Tell, W!Enter, server, FtpInv, Types, Place, Going
  <2>2. cache = [p \in Share \ entered |-> Kids(p)]
    BY <2>1 DEF CacheInv
  <2>3. DOMAIN cache = Share \ entered /\ \A p \in Share \ entered : cache[p] = Kids(p)
    BY <2>2
  <2>4. DOMAIN cache \ {curpath} = Share \ entered'
    BY <2>1, <2>3
  <2> QED BY <2>1, <2>3, <2>4
<1>3. ASSUME job = "cached", UNCHANGED <<faults, cache, entered>> PROVE cache' = [p \in Share \ entered' |-> Kids(p)]
  BY <1>3 DEF CacheInv
<1>4. CASE GoCached \/ Finish
  BY <1>3, <1>4 DEF GoCached, Finish, server, W!Descend, W!Ascend, W!Finish
<1>5. CASE ServerStep \/ UNCHANGED vars
  BY <1>3, <1>5
  DEF ServerStep, clientVars, walk, vars, Server, Answer, Begin, Link, Transmit, Complete, Refuse, Abort, Drop, EndTransfer
<1>6. job = "cached" => pc \in {"ready", "success"}
  BY DEF FtpInv, Types, Control
<1>7. CASE Reconnect \/ NoConnection \/ Greeted \/ User \/ Pass \/ Feat \/ Clnt \/ Opts \/ Reconnected \/ Type \/ NotStarted
  BY <1>6, <1>7 DEF Reconnect, NoConnection, Greeted, User, Pass, Feat, Clnt, Opts, Reconnected, Type, NotStarted, Starting
<1>8. CASE CacheDirs \/ FindFirstFile \/ ReadAllData \/ ListRead \/ ListBroken \/ DataBroken \/ GoBroken \/ GoAgain \/ GoParent \/ \E n \in Names : GoChild(n)
  BY <1>6, <1>8 DEF CacheDirs, FindFirstFile, ReadAllData, ListRead, ListBroken, DataBroken, GoBroken, GoAgain, GoParent, GoChild, GoTo
<1>9. CASE Stat \/ Passive \/ Port \/ Select \/ SelectTimedOut \/ Accept \/ Excuse \/ Transferring \/ ChDir
  BY <1>6, <1>9 DEF Stat, Passive, Port, Select, SelectTimedOut, Accept, Excuse, Transferring, ChDir
<1> QED BY <1>1, <1>2, <1>4, <1>5, <1>7, <1>8, <1>9 DEF Next, Client

(* SAFETY: a walk over the cache is told every directory as it is: the     *)
(* listing LIST -R brought is kept until its directory is read, which      *)
(* happens once, and what is not in it has nothing in it.  With a codepage *)
(* there is no cache, unless a path cannot be converted, of which it says  *)
(* nothing.                                                                *)
THEOREM CacheIsComplete == Spec => CacheTellsAll
<1>1. ASSUME FtpInv, WP!OnceInv, CacheInv, [Next]_vars,
             job = "cached", faults \cap {"abort", "long", "names"} = {}, phase = "enter", phase' = "try"
      PROVE  left'[Len(left')] = Kids(path)
  <2>1. /\ pc \in {"ready", "success"} /\ curpath = path /\ path \in Seq(Names)
        /\ left \in Seq(SUBSET Names) /\ cache = [p \in Share \ entered |-> Kids(p)]
    BY <1>1 DEF FtpInv, Types, Control, Place, Going, W!TypeOK, W!Path, CacheInv
  <2>2. TellCached
    <3>1. ~(Reconnect \/ NoConnection \/ Greeted \/ User \/ Pass \/ Feat \/ Clnt \/ Opts \/ Reconnected \/ Type \/ NotStarted)
      BY <2>1 DEF Reconnect, NoConnection, Greeted, User, Pass, Feat, Clnt, Opts, Reconnected, Type, NotStarted, Starting
    <3>2. ~(Stat \/ Passive \/ Port \/ Select \/ SelectTimedOut \/ Accept \/ Excuse \/ Transferring \/ ChDir \/ ListRead)
      BY <2>1 DEF Stat, Passive, Port, Select, SelectTimedOut, Accept, Excuse, Transferring, ChDir, ListRead
    <3>3. ~(CacheDirs \/ extend_cache \/ FindFirstFile \/ ReadAllData \/ ListBroken \/ DataBroken \/ GoBroken \/ GoAgain \/ GoParent \/ \E n \in Names : GoChild(n))
      BY <1>1, <2>1 DEF CacheDirs, extend_cache, FindFirstFile, ReadAllData, ListBroken, DataBroken, GoBroken, GoAgain, GoParent, GoChild, GoTo
    <3>4. ~(GoCached \/ Finish)
      BY <1>1 DEF GoCached, Finish, W!Descend, W!Try, W!Ascend, W!Leaving, W!Finish
    <3>5. ~(ServerStep \/ UNCHANGED vars)
      BY <1>1 DEF ServerStep, clientVars, walk, vars
    <3> QED BY <1>1, <3>1, <3>2, <3>3, <3>4, <3>5 DEF Next, Client
  <2>3. left' = Append(left, IF path \in DOMAIN cache THEN cache[path] ELSE {})
    BY <2>1, <2>2 DEF TellCached, Tell, W!Enter
  <2>4. (IF path \in DOMAIN cache THEN cache[path] ELSE {}) = Kids(path)
    <3>1. path \notin entered
      BY <1>1, NotReadBefore
    <3> QED BY <2>1, <3>1, OutsideIsEmpty
  <2>5. Kids(path) \in SUBSET Names
    BY DEF Kids
  <2> QED BY <2>1, <2>3, <2>4, <2>5, AppendProperties
<1>2. Init => CacheInv
  BY DEF Init, CacheInv
<1> QED BY <1>1, <1>2, InitFtp, NextFtp, InitOnceFtp, NextOnceFtp, NextCache, PTL DEF Spec, CacheTellsAll
=============================================================================
