------------------------------- MODULE FtpServer -------------------------------
(***************************************************************************)
(* An ftp server and the network between it and the client of              *)
(* scanners/ftpscan, as far as the client can tell: commands are answered  *)
(* in the order they came, a listing is sent over a data connection of its *)
(* own between two replies.  What may go wrong is chosen once for a scan.  *)
(***************************************************************************)
EXTENDS Integers, Sequences

CONSTANTS Names, Share, Closed   \* see ShareTree

ASSUME ShareAssumption ==
  /\ Share \subseteq Seq(Names)
  /\ <<>> \in Share
  /\ \A p \in Share : \A i \in 1..Len(p) : SubSeq(p, 1, i) \in Share

(* What lies below a directory that cannot be entered is not known.        *)
ASSUME ClosedAssumption ==
  \A p \in Closed : p \in Seq(Names) \ {<<>>} /\ SubSeq(p, 1, Len(p) - 1) \in Share

VARIABLES
  mode,     \* how the client asks for listings: "stat", or by LIST, "passive" or "active",
            \* or by LIST -R for all at once, "Rp" or "Ra"
  faults,   \* what the server and the network may do wrong, see Faults
  up,       \* the control connection is not broken
  owed,     \* the commands that were not answered yet
  wire,     \* replies on their way to the client
  steps,    \* of the transfer asked for by the command at the head of owed: "150", "sent"
  dsock,    \* the client's data socket: "none", "socket", "listen" or "open"
  linked,   \* the server is connected to it
  data      \* what the client finds in a data connection that was closed, <<>> before that

(* "refuse": any command may be refused, with 4xx (also 421) or 5xx        *)
(* "nodata": data connections cannot be made, which is told by 425, before *)
(*           "150" or after it                                             *)
(* "late":   an answer may take longer than the client waits               *)
(* "drop":   connections break                                             *)
(* "abort":  a transfer ends early, with 426                               *)
(* Two more are no faults, but the client makes them some:                 *)
(* "long":   the root has more entries than the client receives at once    *)
(* "names":  the paths of some directories cannot be converted by the      *)
(*           client's codepage, or are too long together; Share is without *)
(*           such directories, as their names are never told               *)
Faults == {"refuse", "nodata", "late", "drop", "abort", "long", "names"}

Kids(p) == {n \in Names : Append(p, n) \in Share \cup Closed}
Command(c, p) == [cmd |-> c, dir |-> p]
Reply(c, k) == [to |-> c, code |-> k, kids |-> IF c.cmd = "STAT" /\ k = 2 THEN Kids(c.dir) ELSE {}]

Codes(c) ==
  (CASE c.cmd = "USER" -> {2, 3}
     [] c.cmd \in {"FEAT", "CLNT", "OPTS"} -> {2, 5}
     [] c.cmd \in {"CWD", "STAT"} -> IF c.dir \in Share THEN {2} ELSE {5}
     [] OTHER -> {2}) \cup
  (IF "refuse" \in faults THEN {4, 5} ELSE {})

Busy == up /\ owed # <<>>
Asked == Head(owed)
Listing == Busy /\ Asked.cmd \in {"LIST", "LIST -R"}
Reported(k) == wire' = Append(wire, Reply(Asked, k))

Answer ==
  /\ Busy /\ ~Listing
  /\ \E k \in Codes(Asked) : Reported(k)
  /\ owed' = Tail(owed)
  /\ UNCHANGED <<mode, faults, up, steps, dsock, linked, data>>

(* A listing has a section for every directory it is about; one that ends  *)
(* early has some of them, parents first, and part of another section, or  *)
(* of the name of another directory ("cut").                               *)
Sections(c) == IF c.cmd = "LIST" THEN {c.dir} ELSE Share
Whole(c) == [tree |-> [p \in Sections(c) |-> Kids(p)], cut |-> FALSE]
Parts(c) ==
  LET heads == {S \in SUBSET Sections(c) : \A p \in S : \A q \in Sections(c) :
                  (\E n \in Names : p = Append(q, n)) => q \in S}
  IN {[tree |-> [p \in S |-> Kids(p)], cut |-> TRUE] : S \in IF c.cmd = "LIST" THEN {} ELSE heads}
     \cup UNION {UNION {{[tree |-> [p \in S |-> IF p = last THEN part ELSE Kids(p)], cut |-> FALSE]
                           : part \in SUBSET Kids(last)} : last \in S} : S \in heads}

(* The client listens on a new port for every listing; while a PORT is to  *)
(* be answered, the listing before it is for a port that was closed.       *)
Outdated == \E i \in DOMAIN owed : owed[i].cmd = "PORT"

(* The first reply and the data connection come in any order.              *)
Begin ==
  /\ Listing /\ "150" \notin steps
  /\ Reported(1)
  /\ steps' = steps \cup {"150"}
  /\ UNCHANGED <<mode, faults, up, owed, dsock, linked, data>>

Link ==
  /\ Listing /\ dsock = "listen" /\ ~linked /\ ~Outdated
  /\ linked' = TRUE
  /\ UNCHANGED <<mode, faults, up, owed, wire, steps, dsock, data>>

Transmit ==
  /\ Listing /\ steps = {"150"} /\ linked
  /\ steps' = {"150", "sent"}
  /\ data' = <<Whole(Asked)>>
  /\ UNCHANGED <<mode, faults, up, owed, wire, dsock, linked>>

EndTransfer(k) ==
  /\ Reported(k)
  /\ owed' = Tail(owed)
  /\ steps' = {}
  /\ UNCHANGED <<mode, faults, up, dsock, linked>>

\* the client does not want the data any more
Unwanted == "150" \in steps /\ (dsock \in {"none", "socket"} \/ Outdated)

Complete == Listing /\ ("sent" \in steps \/ Unwanted) /\ EndTransfer(2) /\ UNCHANGED data

Refuse ==
  /\ Listing /\ steps = {}
  /\ "refuse" \in faults \/ ("nodata" \in faults /\ ~linked) \/ dsock = "none" \/ Outdated
  /\ \E k \in {4, 5} : EndTransfer(k)
  /\ UNCHANGED data

Abort ==
  /\ Listing /\ steps = {"150"}
  /\ Unwanted \/ (IF linked THEN "abort" ELSE "nodata") \in faults
  /\ EndTransfer(4)
  /\ IF linked THEN \E part \in Parts(Asked) : data' = <<part>> ELSE data' = data

Drop ==
  /\ up /\ "drop" \in faults
  /\ up' = FALSE
  /\ UNCHANGED <<mode, faults, owed, wire, steps, dsock, linked, data>>

Server == Answer \/ Begin \/ Link \/ Transmit \/ Complete \/ Refuse \/ Abort \/ Drop

\* nothing more will come by itself
Silent == ~Busy
=============================================================================
