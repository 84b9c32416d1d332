--------------------------------- MODULE Pinger ---------------------------------
(***************************************************************************)
(* bin/pinger.py, next to the lookup of module Lookup: for every protocol  *)
(* with shares on its own port and for every other port in use, reads the  *)
(* shares, tries to connect to each host (bin/network.py), and stores who  *)
(* is online, some rows at a time.                                         *)
(***************************************************************************)
EXTENDS Lookup

CONSTANTS
  Block,      \* max_update_query_hosts
  MaxPasses   \* bound: passes of the pinger

VARIABLES
  online,     \* shares.state = 'online'
  groups,     \* protocols and ports still to be asked for
  asked,      \* shares whose host is not yet connected to
  answered, silent,   \* and those whose host has answered, or not: to be stored
  passes,
  heard       \* history: shares that were read, one on their host, and that were up, and down, at a time since then

pingerVars == <<groups, asked, answered, silent, passes>>
allVars == <<vars, online, pingerVars, heard>>

There == {k \in Keys : server[k] # "down"}

PInit ==
  /\ Init
  /\ online = [k \in Keys |-> FALSE]
  /\ groups = {}
  /\ asked = {} /\ answered = {} /\ silent = {}
  /\ passes = 0
  /\ heard = [alone |-> {}, up |-> {}, down |-> {}]

\* the pinger has no rows in hand
AtRest == asked \cup answered \cup silent = {}

(* The default protocols come first.                                       *)
Pass ==
  /\ groups = {} /\ AtRest /\ passes < MaxPasses
  /\ passes' = passes + 1
  /\ groups' = {ProtoOrPort(k) : k \in Named}
  /\ UNCHANGED <<vars, online, asked, answered, silent, heard>>

(* update_shares_state: a dictionary by the name of the host.              *)
Read(g) ==
  /\ AtRest /\ g \in groups
  /\ g[2] # 0 => \A p \in groups : p[2] # 0
  /\ groups' = groups \ {g}
  /\ LET here == {k \in Keys : rows[k] # None /\ ProtoOrPort(k) = g}
     IN \E last \in {T \in SUBSET here : \A k \in here : Cardinality({j \in T : j.host = k.host}) = 1} :
          /\ asked' = last
          /\ heard' = [alone |-> {k \in here : \A j \in here : j.host = k.host => j = k}, up |-> There, down |-> Keys \ There]
  /\ UNCHANGED <<vars, online, answered, silent, passes>>

(* scan_hosts, for one of the connections.                                 *)
\* the default port is tried for all
ConnectDefault(k) ==
  /\ k \in asked
  /\ asked' = asked \ {k}
  /\ IF \E j \in There : j.host = k.host /\ j.port = 0
     THEN answered' = answered \cup {k} /\ silent' = silent
     ELSE silent' = silent \cup {k} /\ answered' = answered
  /\ UNCHANGED <<vars, online, groups, passes, heard>>

Connect(k) ==
  /\ k \in asked
  /\ asked' = asked \ {k}
  /\ IF k \in There THEN answered' = answered \cup {k} /\ silent' = silent
     ELSE silent' = silent \cup {k} /\ answered' = answered
  /\ UNCHANGED <<vars, online, groups, passes, heard>>

Blocks(S) == {B \in SUBSET S : Cardinality(B) = IF Cardinality(S) < Block THEN Cardinality(S) ELSE Block}
\* the first statement is the only one
StoreFirst(S, state) ==
  /\ asked = {} /\ S # {}
  /\ \E B \in Blocks(S) : online' = [k \in Keys |-> IF k \in B THEN state ELSE online[k]]
  /\ answered' = {} /\ silent' = {}
  /\ UNCHANGED <<vars, groups, asked, passes, heard>>
(* set_shares_state, one statement.                                        *)
Store(S, state) ==
  /\ asked = {} /\ S # {}
  /\ \E B \in Blocks(S) :
       /\ online' = [k \in Keys |-> IF k \in B THEN state ELSE online[k]]
       /\ answered' = answered \ B
       /\ silent' = silent \ B
  /\ UNCHANGED <<vars, groups, asked, passes, heard>>

StoreOnline == Store(answered, TRUE)
StoreOffline == answered = {} /\ Store(silent, FALSE)

Ping ==
  \/ Pass \/ StoreOnline \/ StoreOffline
  \/ \E g \in groups : Read(g)
  \/ \E k \in asked : Connect(k)

\* rows are not found by their ids
BesideNames ==
  /\ online' = [k \in Keys |-> rows'[k] # None /\ (rows[k] = None \/ online[k])]
  /\ heard' = [heard EXCEPT !.up = @ \cup {k \in Keys : server'[k] # "down"},
                             !.down = @ \cup {k \in Keys : server'[k] = "down"}]
  /\ UNCHANGED <<asked, answered, silent, groups, passes>>
(* What the others do to the pinger: a new share is online, and a deleted  *)
(* one is not found by its id any more.                                    *)
Beside ==
  /\ online' = [k \in Keys |-> rows'[k] # None /\ (rows[k] = None \/ online[k])]
  /\ asked' = {k \in asked : rows'[k] # None}
  /\ answered' = {k \in answered : rows'[k] # None}
  /\ silent' = {k \in silent : rows'[k] # None}
  /\ heard' = [alone |-> {k \in heard.alone : rows'[k] # None},
               up |-> heard.up \cup {k \in Keys : server'[k] # "down"},
               down |-> heard.down \cup {k \in Keys : server'[k] = "down"}]
  /\ UNCHANGED <<groups, passes>>

LookupRuns == Run /\ Beside
WorldChanges == World /\ Beside
PNext == Ping \/ LookupRuns \/ WorldChanges

(* The programs are started again and again, and get on; time passes.      *)
PSpec == PInit /\ [][PNext]_allVars
FairSpec == PSpec /\ WF_allVars(LookupRuns) /\ SF_allVars(Tick /\ Beside) /\ WF_allVars(Ping)

-----------------------------------------------------------------------------
(* TYPE: all variables; what the pinger or a run has in hand is what it    *)
(* can come upon there.                                                    *)
TypeOK ==
  /\ config \in Configs
  /\ \A k \in Keys :
       /\ rows[k] = None \/ (rows[k].st \in Scantypes /\ rows[k].age \in 0..3)
       /\ server[k] \in Scantypes \cup {"down", "deaf", "other"}
       /\ online[k] \in BOOLEAN
       /\ rows[k] = None => ~online[k]
  /\ lpc \in {"idle", "engine", "new", "insert", "check", "update"}
  /\ at \in 1..(Len(config) + 1)
  /\ \A h \in Hosts : known[h] = None \/ \E i \in 1..Len(config) : known[h] = config[i].class
  /\ pending \cup checks \subseteq Keys \X (Scantypes \cup {None})
  /\ found \subseteq Keys \X Scantypes
  /\ groups \subseteq {ProtoOrPort(k) : k \in Keys}
  /\ asked \cup answered \cup silent \subseteq {k \in Keys : rows[k] # None}

(* SAFETY: the pinger switches a share on only if its own port was open at *)
(* a time after the share was read, and off only if it was closed, though  *)
(* shares and servers change meanwhile.                                    *)
StateHeard ==
  [][\A k \in Keys : rows[k] # None /\ rows'[k] # None /\ online'[k] # online[k]
       => k \in IF online'[k] THEN heard.up ELSE heard.down]_allVars

(* SAFETY: once the rows of a group are stored, every share that was read  *)
(* and is still there has the state its server had all the time, unless    *)
(* another share of the group is on the same host: of these only one is    *)
(* told.                                                                   *)
AllTold ==
  AtRest =>
    \A k \in heard.alone : (k \notin heard.down => online[k]) /\ (k \notin heard.up => ~online[k])
=============================================================================
