--------------------------------- MODULE Lookup ---------------------------------
(***************************************************************************)
(* bin/lookup.py: runs of the lookup engines that the networks' configu-   *)
(* rations name.  An engine collects shares, checks with port scans and    *)
(* scanners which of them are there, inserts the new ones and refreshes    *)
(* last_lookup of known ones; at the end of a run the shares that were not *)
(* refreshed for long are deleted.  Spiders are in module Spider, the      *)
(* state column and bin/pinger.py in module Pinger.                        *)
(*                                                                         *)
(* Every host has one name and one address; one that does not answer for   *)
(* scan_timeout is down.  A run takes less time than any of the periods    *)
(* that last_lookup is compared with.                                      *)
(***************************************************************************)
EXTENDS Naturals, Sequences, FiniteSets

CONSTANTS
  Keys,       \* shares: records with proto, host, port; port 0 is the protocol's own
  Empty,      \* those whose size stays 0
  Configs,    \* sequences of engines, see below
  Discovery,  \* scantypes that are tried when none is given
  Manual,     \* the others
  None, Stored,   \* no scantype or host or row; Ellipsis: the scantype in the database
  MaxChanges, MaxDeaths   \* bounds: of servers that change, of runs that are killed

VARIABLES
  config,   \* the engines of all networks, in their order
  rows,     \* shares: scantype, network, age; None if there is none
  server,   \* what is at a key: a scantype it works with, "down", "deaf" or "other"
  lpc, at,  \* what a run does, and at which engine
  known,    \* known_hosts: the class of the first engine that named a host
  pending,  \* shares to check: new ones, then known ones
  found,    \* of these, checked and there
  checks,   \* __checkshares
  changes, deaths,   \* how much of the bounds is used up
  steady    \* history: the shares that were there all the time since the run began

Hosts == {k.host : k \in Keys}
Scantypes == Discovery \cup Manual
(* age: 0, wait_until_next_lookup (1), wait_until_delete_empty_share (2),  *)
(* wait_until_delete_share (3) have passed since last_lookup.              *)
Row(net, st, age) == [net |-> net, st |-> st, age |-> age]

(* An engine has a class, a network, the hosts it asks permission for with *)
(* AddServer, and the shares it adds, as pairs of a key and a scantype.    *)
(* All but ManualShares add shares of hosts that they ask for; SkipHosts   *)
(* only asks, and for a fixed list.                                        *)
ASSUME EnginesAssumption ==
  /\ Stored # None /\ None \notin Scantypes
  /\ \A c \in Configs :
       /\ Len(c) \in Nat
       /\ \A i \in 1..Len(c) :
            /\ c[i].class # None
            /\ c[i].class = "SkipHosts" => c[i].shares = {} /\ ~c[i].zone
            /\ c[i].hosts \subseteq {k.host : k \in Keys}
            /\ \A s \in c[i].shares :
                 /\ s \in Keys \X (Scantypes \cup {None, Stored})
                 /\ c[i].free \/ s[1].host \in c[i].hosts
            /\ \A st \in Scantypes, age \in 0..3 : Row(c[i].net, st, age) # None

lookupVars == <<config, rows, lpc, at, known, pending, found, checks, deaths>>
vars == <<config, rows, server, lpc, at, known, pending, found, checks, changes, deaths, steady>>

\* the shares that the configurations are about; no others come and go
Named == UNION {{s[1] : s \in config[i].shares} : i \in 1..Len(config)}

Idle == lpc = "idle" /\ at = 1 /\ known = [h \in Hosts |-> None] /\ pending = {} /\ found = {} /\ checks = {}
Init ==
  /\ config \in Configs
  /\ rows = [k \in Keys |-> None]
  /\ server \in {f \in [Keys -> Discovery \cup {"down"}] : \A k \in Keys \ Named : f[k] = "down"}
  /\ Idle
  /\ changes = 0 /\ deaths = 0
  /\ steady = {}

-----------------------------------------------------------------------------
(* Dictionaries by port or protocol, and host: of shares on one port of a  *)
(* host, each with a scantype, one stays.                                  *)
ProtoOrPort(k) == IF k.port = 0 THEN <<k.proto, 0>> ELSE <<"", k.port>>
Slot(k) == <<ProtoOrPort(k), k.host>>
OnePerSlot(S) == {T \in SUBSET S : \A s \in S : Cardinality({t \in T : Slot(t[1]) = Slot(s[1])}) = 1}

Start ==
  /\ lpc = "idle"
  /\ lpc' = "engine"
  /\ steady' = {k \in Keys : server[k] \in Discovery}
  /\ UNCHANGED <<config, rows, server, at, known, pending, found, checks, changes, deaths>>

Engine == config[at]
\* hosts may be claimed again by any engine
AllowedAll(h) == TRUE
(* AddServer.                                                              *)
Allowed(h) == known[h] \in {None, Engine.class}

(* Lookup.__init__ reads the shares of the network, then the engine calls  *)
(* AddServer and AddShare; a zone listing may lack any host.               *)
InNetwork == {<<k, rows[k].st>> : k \in {k \in Keys : rows[k] # None /\ rows[k].net = Engine.net}}
\* a share as it is added: with the scantype in the database, if it is asked for
Given(s, shown) == <<s[1], IF s[2] # Stored THEN s[2] ELSE IF s[1] \in shown THEN rows[s[1]].st ELSE None>>
Due(s) == rows[s[1]].age >= 1 \/ s[2] \notin {None, rows[s[1]].st}
Prepare ==
  /\ lpc = "engine" /\ at <= Len(config)
  /\ \E read \in OnePerSlot(InNetwork),
        named \in IF Engine.zone THEN SUBSET Engine.hosts ELSE {Engine.hosts} :
       LET hosts == {h \in named : Allowed(h)}
           shown == {s[1] : s \in read}
           added == {Given(s, shown) : s \in {s \in Engine.shares : Engine.free \/ s[1].host \in hosts}}
       IN /\ known' = [h \in Hosts |-> IF h \in hosts THEN Engine.class ELSE known[h]]
          /\ pending' \in OnePerSlot({s \in added : s[1] \notin shown})
          /\ checks' \in OnePerSlot({s \in added : s[1] \in shown /\ Due(s)})
  /\ lpc' = "new"
  /\ UNCHANGED <<config, rows, server, at, found, changes, deaths, steady>>

(* The next engine, after this one or an exception in its commit.          *)
NextEngine ==
  /\ lpc' = "engine" /\ at' = at + 1
  /\ pending' = {} /\ found' = {} /\ checks' = {}
  /\ UNCHANGED <<config, server, known, changes, deaths, steady>>

\* a share with a scantype given is believed to be there
DetectedUnseen(k, st) == IF st = None THEN server[k] \in Discovery ELSE TRUE
(* RemoveOfflines and CheckScantype.                                       *)
Detected(k, st) == IF st = None THEN server[k] \in Discovery ELSE server[k] = st
(* A scanner that cannot connect ends CheckScantype with StopIteration,    *)
(* which only the search for a scantype catches.                           *)
Stops(k, st) == server[k] = "deaf" /\ st # None

Examine(s) ==
  /\ s \in pending /\ ~Stops(s[1], s[2])
  /\ pending' = pending \ {s}
  /\ found' = IF ~Detected(s[1], s[2]) THEN found
              ELSE found \cup {<<s[1], IF s[2] = None THEN server[s[1]] ELSE s[2]>>}
  /\ UNCHANGED <<config, rows, server, lpc, at, known, checks, changes, deaths, steady>>

Stopped(s) ==
  /\ s \in pending /\ Stops(s[1], s[2])
  /\ NextEngine /\ UNCHANGED rows

(* InsertHosts, one row at a time.                                         *)
Insert(s) ==
  /\ lpc = "new" /\ pending = {} /\ s \in found
  /\ rows[s[1]] = None
  /\ rows' = [rows EXCEPT ![s[1]] = Row(Engine.net, s[2], 0)]
  /\ found' = found \ {s}
  /\ UNCHANGED <<config, server, lpc, at, known, pending, checks, changes, deaths, steady>>

(* UNIQUE (protocol, hostname, port).                                      *)
Duplicate(s) ==
  /\ lpc = "new" /\ pending = {} /\ s \in found
  /\ rows[s[1]] # None
  /\ NextEngine /\ UNCHANGED rows

\* known shares are not looked at when there are new ones
InsertedOnly == lpc = "new" /\ pending = {} /\ found = {} /\ NextEngine /\ UNCHANGED rows
Inserted ==
  /\ lpc = "new" /\ pending = {} /\ found = {}
  /\ lpc' = "check"
  /\ pending' = checks
  /\ UNCHANGED <<config, rows, server, at, known, found, checks, changes, deaths, steady>>

(* UpdateHosts, one statement for a scantype and a port.                   *)
Update(st, port) ==
  LET group == {s \in found : s[2] = st /\ ProtoOrPort(s[1]) = port}
  IN /\ lpc = "check" /\ pending = {} /\ group # {}
     /\ rows' = [k \in Keys |-> IF <<k, st>> \in group THEN [rows[k] EXCEPT !.st = st, !.age = 0] ELSE rows[k]]
     /\ found' = found \ group
     /\ UNCHANGED <<config, server, lpc, at, known, pending, checks, changes, deaths, steady>>

Updated == lpc = "check" /\ pending = {} /\ found = {} /\ NextEngine /\ UNCHANGED rows

Old(k) == rows[k] # None /\ rows[k].age >= IF k \in Empty THEN 2 ELSE 3

Reset ==
  /\ lpc' = "idle" /\ at' = 1 /\ known' = [h \in Hosts |-> None]
  /\ pending' = {} /\ found' = {} /\ checks' = {}
  /\ steady' = {}

Delete ==
  /\ lpc = "engine" /\ at > Len(config)
  /\ rows' = [k \in Keys |-> IF Old(k) THEN None ELSE rows[k]]
  /\ Reset
  /\ UNCHANGED <<config, server, changes, deaths>>

-----------------------------------------------------------------------------
(* The run is killed.  It would be started again.                          *)
Die ==
  /\ lpc # "idle" /\ deaths < MaxDeaths
  /\ deaths' = deaths + 1
  /\ Reset
  /\ UNCHANGED <<config, rows, server, changes>>

(* Ports open and close, servers change what they understand.              *)
Change(k, v) ==
  /\ changes < MaxChanges /\ v # server[k]
  /\ changes' = changes + 1
  /\ server' = [server EXCEPT ![k] = v]
  /\ steady' = steady \ {k}
  /\ UNCHANGED lookupVars

Tick ==
  /\ lpc = "idle"
  /\ \E k \in Keys : rows[k] # None /\ rows[k].age < 3
  /\ rows' = [k \in Keys |-> IF rows[k] = None THEN None
                             ELSE [rows[k] EXCEPT !.age = IF @ < 3 THEN @ + 1 ELSE 3]]
  /\ UNCHANGED <<config, server, lpc, at, known, pending, found, checks, changes, deaths, steady>>

Run ==
  \/ Start \/ Prepare
  \/ \E s \in pending : Examine(s) \/ Stopped(s)
  \/ \E s \in found : Insert(s) \/ Duplicate(s)
  \/ Inserted
  \/ \E s \in found : Update(s[2], ProtoOrPort(s[1]))
  \/ Updated \/ Delete

World == Die \/ Tick \/ \E k \in Named, v \in Scantypes \cup {"down", "deaf", "other"} : Change(k, v)

-----------------------------------------------------------------------------
(* A share of a configuration that is there for the lookup to find: the    *)
(* engine is the only one that names its host, gives no scantype, and no   *)
(* engine names another share on the port of one that it adds.             *)
Names(e, k) == k.host \in e.hosts \/ \E s \in e.shares : Slot(s[1]) = Slot(k)
PlainEngine(i) ==
  /\ ~config[i].zone
  /\ \A s \in config[i].shares : s[2] = None
  /\ \A s \in config[i].shares, j \in (1..Len(config)) \ {i} : ~Names(config[j], s[1])
  /\ \A s, t \in config[i].shares : Slot(s[1]) = Slot(t[1]) => s = t
Plain(k) == \E i \in 1..Len(config) : PlainEngine(i) /\ <<k, None>> \in config[i].shares

(* SAFETY: a share that is listed and there throughout a run is in the     *)
(* database and refreshed when the run comes to its DELETE, whatever       *)
(* became of others; so it is not deleted.                                 *)
Refreshed ==
  lpc = "engine" /\ at > Len(config) =>
    \A k \in steady : Plain(k) => rows[k] # None /\ rows[k].age = 0

(* SAFETY: SkipHosts "preserves hosts in 'list' list from adding into      *)
(* database" (lookup.py:344), for all engines of all networks that follow, *)
(* but for ManualShares, which do not ask.                                 *)
Skipped(k) ==
  \E i \in 1..(at - 1) : config[i].class = "SkipHosts" /\ k.host \in config[i].hosts
    /\ \A j \in 1..(i - 1) : k.host \notin config[j].hosts
SkipsKept ==
  [][\A k \in Keys : rows[k] = None /\ rows'[k] # None => Engine.free \/ ~Skipped(k)]_vars

(* LIVENESS: a share that is gone for good leaves the database.            *)
GoneIsDeleted == \A k \in Keys : <>[](server[k] = "down") => <>[](rows[k] = None)
=============================================================================
