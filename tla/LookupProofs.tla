------------------------------ MODULE LookupProofs ------------------------------
(***************************************************************************)
(* The pinger and the lookup in one database, for all configurations that  *)
(* the engines of bin/lookup.py can be given, any shares, servers and      *)
(* scantypes, any number of changes, passes and killed runs, and blocks of *)
(* any size.                                                               *)
(***************************************************************************)
EXTENDS Pinger, FiniteSetTheorems, TLAPS

-----------------------------------------------------------------------------
(* The pinger.  Nothing is used of what the lookup does in the same        *)
(* database but that it does it row by row (Beside).                       *)

(* What the pinger has in hand.  A server that was not asked yet was heard *)
(* of as it is now, which a change of it keeps.                            *)
InHand ==
  /\ asked \cup answered \cup silent \subseteq Keys
  /\ answered \subseteq heard.up
  /\ silent \subseteq heard.down
  /\ \A k \in asked : k \in IF k \in There THEN heard.up ELSE heard.down

Told(k) == (k \notin heard.down => online[k] = TRUE) /\ (k \notin heard.up => online[k] = FALSE)
(* A share that was read is in hand until it is told.                      *)
InHandOrTold ==
  /\ heard.alone \subseteq {k \in Keys : rows[k] # None}
  /\ \A k \in heard.alone : k \in asked \cup answered \cup silent \/ Told(k)

PingerInv == online \in [Keys -> BOOLEAN] /\ InHand /\ InHandOrTold

LEMMA InitInv == PInit => PingerInv
BY DEF PInit, PingerInv, InHand, InHandOrTold

-----------------------------------------------------------------------------
(* Of a share that is alone on its host the dictionary by hosts keeps the  *)
(* row.                                                                    *)
LEMMA AloneIsKept ==
  ASSUME NEW here, NEW T \in SUBSET here, NEW k \in here,
         \A j \in here : j.host = k.host => j = k,
         Cardinality({j \in T : j.host = k.host}) = 1
  PROVE  k \in T
<1>1. {j \in T : j.host = k.host} # {}
  BY FS_EmptySet, SMT
<1> QED BY <1>1

LEMMA ReadKeeps == ASSUME PingerInv, NEW g \in groups, Read(g) PROVE PingerInv'
<1> DEFINE here == {k \in Keys : rows[k] # None /\ ProtoOrPort(k) = g}
           alone == {k \in here : \A j \in here : j.host = k.host => j = k}
<1>1. PICK last \in SUBSET here :
         /\ \A k \in here : Cardinality({j \in last : j.host = k.host}) = 1
         /\ asked' = last
         /\ heard' = [alone |-> alone, up |-> There, down |-> Keys \ There]
  BY DEF Read
<1>2. /\ answered = {} /\ silent = {}
      /\ UNCHANGED <<vars, online, answered, silent>>
  BY DEF Read, AtRest
<1>3. heard'.alone = alone /\ heard'.up = There /\ heard'.down = Keys \ There
  BY <1>1
<1>4. There' = There /\ rows' = rows
  BY <1>2 DEF There, vars
<1>5. alone \subseteq asked'
  BY <1>1, AloneIsKept
<1>6. InHand'
  BY <1>1, <1>2, <1>3, <1>4 DEF InHand
<1>7. InHandOrTold'
  BY <1>3, <1>4, <1>5 DEF InHandOrTold
<1> QED BY <1>2, <1>6, <1>7 DEF PingerInv

LEMMA ConnectKeeps == ASSUME PingerInv, NEW k \in asked, Connect(k) PROVE PingerInv'
<1>1. UNCHANGED <<vars, online, heard>> /\ asked' = asked \ {k}
  BY DEF Connect
<1>2. There' = There /\ rows' = rows
  BY <1>1 DEF There, vars
<1>3. \/ k \in There /\ answered' = answered \cup {k} /\ silent' = silent
      \/ k \notin There /\ silent' = silent \cup {k} /\ answered' = answered
  BY DEF Connect
<1>4. InHand'
  BY <1>1, <1>2, <1>3 DEF InHand, PingerInv
<1>5. asked' \cup answered' \cup silent' = asked \cup answered \cup silent
  BY <1>1, <1>3
<1>6. InHandOrTold'
  BY <1>1, <1>2, <1>5 DEF InHandOrTold, Told, PingerInv
<1> QED BY <1>1, <1>4, <1>6 DEF PingerInv

(* A statement tells a block of the rows in hand, and no other.            *)
LEMMA StoreTells ==
  ASSUME NEW S, NEW state \in BOOLEAN, Store(S, state)
  PROVE  \E B \in SUBSET S :
           /\ online' = [k \in Keys |-> IF k \in B THEN state ELSE online[k]]
           /\ answered' = answered \ B /\ silent' = silent \ B
           /\ UNCHANGED <<vars, asked, heard>>
BY DEF Store, Blocks

LEMMA StoreKeeps ==
  ASSUME PingerInv, NEW S, NEW state \in BOOLEAN, Store(S, state),
         S \subseteq IF state THEN heard.up ELSE heard.down
  PROVE  PingerInv'
<1>1. PICK B \in SUBSET S :
         /\ online' = [k \in Keys |-> IF k \in B THEN state ELSE online[k]]
         /\ answered' = answered \ B /\ silent' = silent \ B
         /\ UNCHANGED <<vars, asked, heard>>
  BY StoreTells
<1>2. There' = There /\ rows' = rows
  BY <1>1 DEF There, vars
<1>3. InHand'
  BY <1>1, <1>2 DEF InHand, PingerInv
<1>4. ASSUME NEW k \in heard.alone
      PROVE  k \in asked' \cup answered' \cup silent' \/ Told(k)'
  <2>1. k \in Keys
    BY DEF PingerInv, InHandOrTold
  <2>2. CASE k \in B
    <3>1. online'[k] = state
      BY <1>1, <2>1, <2>2
    <3>2. k \in IF state THEN heard.up ELSE heard.down
      BY <2>2
    <3> QED BY <1>1, <3>1, <3>2 DEF Told
  <2>3. CASE k \notin B
    <3>1. online'[k] = online[k]
      BY <1>1, <2>1, <2>3
    <3> QED BY <1>1, <2>3, <3>1 DEF Told, PingerInv, InHandOrTold
  <2> QED BY <2>2, <2>3
<1>5. InHandOrTold'
  BY <1>1, <1>2, <1>4 DEF InHandOrTold, PingerInv
<1>6. online' \in [Keys -> BOOLEAN]
  BY <1>1 DEF PingerInv
<1> QED BY <1>3, <1>5, <1>6 DEF PingerInv

(* Rows that stay keep their state, whatever else is done beside.          *)
LEMMA BesideKeepsState ==
  ASSUME PingerInv, Beside, NEW k \in Keys, rows[k] # None, rows'[k] # None
  PROVE  online'[k] = online[k]
<1>1. online[k] \in BOOLEAN
  BY DEF PingerInv
<1>2. online'[k] = (rows'[k] # None /\ (rows[k] = None \/ online[k]))
  BY DEF Beside
<1> QED BY <1>1, <1>2

LEMMA BesideKeeps == ASSUME PingerInv, Beside PROVE PingerInv'
<1>1. /\ asked' = {k \in asked : rows'[k] # None}
      /\ answered' = {k \in answered : rows'[k] # None}
      /\ silent' = {k \in silent : rows'[k] # None}
      /\ heard'.alone = {k \in heard.alone : rows'[k] # None}
      /\ heard'.up = heard.up \cup {k \in Keys : server'[k] # "down"}
      /\ heard'.down = heard.down \cup {k \in Keys : server'[k] = "down"}
  BY DEF Beside
<1>2. InHand'
  BY <1>1 DEF InHand, PingerInv, There
<1>3. ASSUME NEW k \in heard'.alone
      PROVE  k \in asked' \cup answered' \cup silent' \/ Told(k)'
  <2>1. k \in heard.alone /\ k \in Keys /\ rows[k] # None /\ rows'[k] # None
    BY <1>1 DEF PingerInv, InHandOrTold
  <2>2. online'[k] = online[k]
    BY <2>1, BesideKeepsState
  <2> QED BY <1>1, <2>1, <2>2 DEF Told, PingerInv, InHandOrTold
<1>4. InHandOrTold'
  BY <1>1, <1>3 DEF InHandOrTold, PingerInv
<1>5. online' \in [Keys -> BOOLEAN]
  BY DEF Beside
<1> QED BY <1>2, <1>4, <1>5 DEF PingerInv

LEMMA NextInv == PingerInv /\ [PNext]_allVars => PingerInv'
<1> SUFFICES ASSUME PingerInv, [PNext]_allVars PROVE PingerInv'
  OBVIOUS
<1>1. CASE Pass
  BY <1>1 DEF Pass, vars, PingerInv, InHand, InHandOrTold, Told, There
<1>2. CASE StoreOnline
  BY <1>2, StoreKeeps DEF StoreOnline, PingerInv, InHand
<1>3. CASE StoreOffline
  BY <1>3, StoreKeeps DEF StoreOffline, PingerInv, InHand
<1>4. CASE \E g \in groups : Read(g)
  BY <1>4, ReadKeeps
<1>5. CASE \E k \in asked : Connect(k)
  BY <1>5, ConnectKeeps
<1>6. CASE LookupRuns \/ WorldChanges
  BY <1>6, BesideKeeps DEF LookupRuns, WorldChanges
<1>7. CASE UNCHANGED allVars
  BY <1>7 DEF allVars, vars, pingerVars, PingerInv, InHand, InHandOrTold, Told, There
<1> QED BY <1>1, <1>2, <1>3, <1>4, <1>5, <1>6, <1>7 DEF PNext, Ping

THEOREM Inductive == PSpec => []PingerInv
BY InitInv, NextInv, PTL DEF PSpec

-----------------------------------------------------------------------------
LEMMA StoreHears ==
  ASSUME PingerInv, NEW S, NEW state \in BOOLEAN, Store(S, state),
         S \subseteq IF state THEN heard.up ELSE heard.down,
         NEW k \in Keys, online'[k] # online[k]
  PROVE  k \in IF online'[k] THEN heard.up ELSE heard.down
<1>1. PICK B \in SUBSET S : online' = [j \in Keys |-> IF j \in B THEN state ELSE online[j]]
  BY StoreTells
<1>2. k \in B /\ online'[k] = state
  BY <1>1
<1> QED BY <1>2

LEMMA StepHears ==
  ASSUME PingerInv, PNext, NEW k \in Keys, rows[k] # None, rows'[k] # None, online'[k] # online[k]
  PROVE  k \in IF online'[k] THEN heard.up ELSE heard.down
<1>1. CASE Pass \/ (\E g \in groups : Read(g)) \/ (\E j \in asked : Connect(j))
  BY <1>1 DEF Pass, Read, Connect
<1>2. CASE StoreOnline
  BY <1>2, StoreHears DEF StoreOnline, PingerInv, InHand
<1>3. CASE StoreOffline
  BY <1>3, StoreHears DEF StoreOffline, PingerInv, InHand
<1>4. CASE LookupRuns \/ WorldChanges
  BY <1>4, BesideKeepsState DEF LookupRuns, WorldChanges
<1> QED BY <1>1, <1>2, <1>3, <1>4 DEF PNext, Ping

(* StateHeard for every set of shares: whatever lookups, servers and the   *)
(* size of blocks are, a state is only stored if the server of this very   *)
(* share was seen in it since the row was read (bin/pinger.py:37-68).      *)
THEOREM HearsBeforeTelling == PSpec => StateHeard
<1>1. PingerInv /\ [PNext]_allVars
        => [\A k \in Keys : rows[k] # None /\ rows'[k] # None /\ online'[k] # online[k]
              => k \in IF online'[k] THEN heard.up ELSE heard.down]_allVars
  BY StepHears
<1> QED BY <1>1, Inductive, PTL DEF PSpec, StateHeard

(* AllTold for every set of shares: when a group is stored every share     *)
(* that was alone on its host has the state its server had.                *)
THEOREM TellsAll == PSpec => []AllTold
<1>1. PingerInv => AllTold
  BY DEF PingerInv, InHandOrTold, Told, AllTold, AtRest
<1> QED BY <1>1, Inductive, PTL

-----------------------------------------------------------------------------
(* Runs of the lookup beside the pinger.                                   *)

InEngine == lpc \in {"new", "check"}

(* Where a run is and what it has in hand: shares of the current engine.   *)
InRun ==
  /\ config \in Configs
  /\ lpc \in {"idle", "engine", "new", "check"}
  /\ at \in 1..(Len(config) + 1)
  /\ InEngine => at <= Len(config)
  /\ ~InEngine => pending = {} /\ found = {} /\ checks = {}
  /\ lpc = "idle" => Idle /\ steady = {}
  /\ pending \cup checks \subseteq Keys \X (Scantypes \cup {None})
  /\ found \subseteq Keys \X Scantypes
  /\ \A s \in pending \cup checks \cup found : \E t \in Engine.shares : t[1] = s[1]

ServersFit == server \in [Keys -> Scantypes \cup {"down", "deaf", "other"}]

(* A row belongs to the network of an engine that names the share.         *)
RowOf(k, j) ==
  /\ \E st \in Scantypes, age \in 0..3 : rows[k] = Row(config[j].net, st, age)
  /\ \E s \in config[j].shares : s[1] = k
RowsFit ==
  /\ DOMAIN rows = Keys
  /\ \A k \in Keys : rows[k] = None \/ \E j \in 1..Len(config) : RowOf(k, j)

(* Hosts are claimed by engines that were run, and by the first for good   *)
(* if it is SkipHosts.                                                     *)
Last == IF InEngine THEN at ELSE at - 1
Skips(i, h) ==
  /\ config[i].class = "SkipHosts" /\ h \in config[i].hosts
  /\ \A j \in 1..(i - 1) : h \notin config[j].hosts
KnownFit ==
  /\ DOMAIN known = Hosts
  /\ \A h \in Hosts :
       /\ known[h] = None \/ \E j \in 1..Last : known[h] = config[j].class /\ h \in config[j].hosts
       /\ \A i \in 1..Last : Skips(i, h) => known[h] = "SkipHosts"
Permitted == lpc = "new" => \A s \in pending \cup found : Engine.free \/ known[s[1].host] = Engine.class

(* Known shares keep their rows until they are updated.                    *)
HaveRows ==
  /\ lpc = "new" => \A s \in checks : rows[s[1]] # None
  /\ lpc = "check" => \A s \in pending \cup found : rows[s[1]] # None

(* A plain engine's shares are new when they are to be inserted, and give  *)
(* no scantype that may end the engine.                                    *)
NothingEnds ==
  InEngine /\ PlainEngine(at) =>
    /\ lpc = "new" =>
         /\ \A s \in pending \cup checks : s[2] = None
         /\ \A s \in pending \cup found : rows[s[1]] = None
         /\ \A s \in found, t \in pending \cup found : s[1] = t[1] => s = t
    /\ lpc = "check" => \A s \in pending : s[2] = None

Fresh(k) == rows[k] # None /\ rows[k].age = 0
InHands(k) == <<k, None>> \in pending \/ (\E s \in found : s[1] = k) \/ (lpc = "new" /\ <<k, None>> \in checks)
(* A steady share of a plain engine is in hand until it is fresh.          *)
SteadyKept ==
  /\ \A k \in steady : k \in Keys /\ server[k] \in Discovery
  /\ \A k \in steady, i \in 1..Len(config) :
       PlainEngine(i) /\ <<k, None>> \in config[i].shares =>
         /\ i < at => Fresh(k)
         /\ i = at /\ InEngine => Fresh(k) \/ InHands(k)

LookupInv ==
  InRun /\ ServersFit /\ RowsFit /\ KnownFit /\ Permitted /\ HaveRows /\ NothingEnds /\ SteadyKept

-----------------------------------------------------------------------------
(* What is known of an engine that a run comes to.                         *)
LEMMA EngineFits ==
  ASSUME InRun, NEW i \in 1..Len(config)
  PROVE  /\ Len(config) \in Nat
         /\ config[i].class # None
         /\ config[i].class = "SkipHosts" => config[i].shares = {} /\ ~config[i].zone
         /\ config[i].hosts \subseteq Hosts
         /\ \A s \in config[i].shares :
              /\ s \in Keys \X (Scantypes \cup {None, Stored})
              /\ config[i].free \/ s[1].host \in config[i].hosts
         /\ \A st \in Scantypes, age \in 0..3 : Row(config[i].net, st, age) # None
BY EnginesAssumption DEF InRun, Hosts

LEMMA Lengths == ASSUME InRun PROVE Len(config) \in Nat /\ at \in Nat /\ at >= 1
BY EnginesAssumption DEF InRun

LEMMA SamePlain ==
  ASSUME config' = config, NEW i
  PROVE  PlainEngine(i)' <=> PlainEngine(i)
BY DEF PlainEngine

LEMMA LookupInit == PInit => LookupInv
<1> SUFFICES ASSUME PInit PROVE LookupInv
  OBVIOUS
<1>1. /\ config \in Configs /\ rows = [k \in Keys |-> None]
      /\ server \in [Keys -> Discovery \cup {"down"}]
      /\ lpc = "idle" /\ at = 1 /\ known = [h \in Hosts |-> None] /\ pending = {} /\ found = {} /\ checks = {}
      /\ steady = {} /\ Idle
  BY DEF PInit, Init, Idle
<1>2. Len(config) \in Nat
  BY <1>1, EnginesAssumption
<1>3. ~InEngine /\ Last = 0
  BY <1>1 DEF InEngine, Last
<1> QED
  BY <1>1, <1>2, <1>3 DEF LookupInv, InRun, ServersFit, RowsFit, KnownFit, Permitted, HaveRows, NothingEnds,
     SteadyKept, Scantypes

-----------------------------------------------------------------------------
(* The dictionaries by slot.                                               *)
LEMMA AloneStays ==
  ASSUME NEW S, NEW T \in OnePerSlot(S), NEW s \in S,
         \A t \in S : Slot(t[1]) = Slot(s[1]) => t = s
  PROVE  s \in T
<1>1. Cardinality({t \in T : Slot(t[1]) = Slot(s[1])}) = 1
  BY DEF OnePerSlot
<1>2. {t \in T : Slot(t[1]) = Slot(s[1])} # {}
  BY <1>1, FS_EmptySet, SMT
<1> QED BY <1>2 DEF OnePerSlot

LEMMA SlotIsTaken ==
  ASSUME NEW S, NEW T \in OnePerSlot(S), NEW s \in S
  PROVE  \E t \in T : Slot(t[1]) = Slot(s[1])
<1>1. Cardinality({t \in T : Slot(t[1]) = Slot(s[1])}) = 1
  BY DEF OnePerSlot
<1>2. {t \in T : Slot(t[1]) = Slot(s[1])} # {}
  BY <1>1, FS_EmptySet, SMT
<1> QED BY <1>2

-----------------------------------------------------------------------------
LEMMA StartKeeps == ASSUME LookupInv, Start PROVE LookupInv'
<1>1. /\ lpc = "idle" /\ lpc' = "engine" /\ steady' = {k \in Keys : server[k] \in Discovery}
      /\ UNCHANGED <<config, rows, server, at, known, pending, found, checks>>
  BY DEF Start
<1>2. at = 1 /\ pending = {} /\ found = {} /\ checks = {}
  BY <1>1 DEF LookupInv, InRun, Idle
<1>3. InRun'
  BY <1>1, <1>2 DEF LookupInv, InRun, InEngine
<1>4. ~InEngine /\ ~InEngine' /\ Last' = Last
  BY <1>1 DEF InEngine, Last
<1>5. KnownFit'
  BY <1>1, <1>4 DEF LookupInv, KnownFit, Skips
<1>6. SteadyKept'
  BY <1>1, <1>2, <1>4, Lengths DEF LookupInv, SteadyKept
<1> QED
  BY <1>1, <1>2, <1>3, <1>4, <1>5, <1>6
  DEF LookupInv, ServersFit, RowsFit, RowOf, Permitted, HaveRows, NothingEnds

(* An engine ends.  If it was plain its steady shares must be fresh.       *)
LEMMA NextEngineKeeps ==
  ASSUME LookupInv, InEngine, NextEngine, rows' = rows,
         PlainEngine(at) => \A k \in steady : <<k, None>> \in Engine.shares => Fresh(k)
  PROVE  LookupInv'
<1>1. /\ lpc' = "engine" /\ at' = at + 1 /\ pending' = {} /\ found' = {} /\ checks' = {}
      /\ UNCHANGED <<config, rows, server, known, steady>>
  BY DEF NextEngine
<1>2. at \in 1..Len(config) /\ Len(config) \in Nat
  BY Lengths DEF LookupInv, InRun
<1>3. InRun'
  BY <1>1, <1>2 DEF LookupInv, InRun, InEngine
<1>4. ~InEngine' /\ Last' = Last
  BY <1>1, <1>2 DEF InEngine, Last
<1>5. KnownFit'
  BY <1>1, <1>4 DEF LookupInv, KnownFit, Skips
<1>6. ASSUME NEW k \in steady, NEW i \in 1..Len(config), PlainEngine(i), <<k, None>> \in config[i].shares, i < at + 1
      PROVE  Fresh(k)
  <2>1. i = at \/ i < at
    BY <1>2, <1>6
  <2> QED BY <1>6, <2>1 DEF LookupInv, SteadyKept, Engine
<1>7. SteadyKept'
  BY <1>1, <1>4, <1>6, SamePlain DEF LookupInv, SteadyKept, Fresh
<1> QED
  BY <1>1, <1>3, <1>4, <1>5, <1>7
  DEF LookupInv, ServersFit, RowsFit, RowOf, Permitted, HaveRows, NothingEnds

LEMMA StoppedKeeps == ASSUME LookupInv, NEW s \in pending, Stopped(s) PROVE LookupInv'
<1>1. Stops(s[1], s[2]) /\ NextEngine /\ rows' = rows
  BY DEF Stopped
<1>2. InEngine
  BY DEF LookupInv, InRun
<1>3. ~PlainEngine(at)
  BY <1>1, <1>2 DEF Stops, LookupInv, NothingEnds, InEngine
<1> QED BY <1>1, <1>2, <1>3, NextEngineKeeps

LEMMA DuplicateKeeps == ASSUME LookupInv, NEW s \in found, Duplicate(s) PROVE LookupInv'
<1>1. lpc = "new" /\ rows[s[1]] # None /\ NextEngine /\ rows' = rows
  BY DEF Duplicate
<1>2. InEngine
  BY <1>1 DEF InEngine
<1>3. ~PlainEngine(at)
  BY <1>1, <1>2 DEF LookupInv, NothingEnds
<1> QED BY <1>1, <1>2, <1>3, NextEngineKeeps

LEMMA UpdatedKeeps == ASSUME LookupInv, Updated PROVE LookupInv'
<1>1. lpc = "check" /\ pending = {} /\ found = {} /\ NextEngine /\ rows' = rows
  BY DEF Updated
<1>2. InEngine /\ at \in 1..Len(config)
  BY <1>1, Lengths DEF InEngine, LookupInv, InRun
<1>3. ASSUME PlainEngine(at), NEW k \in steady, <<k, None>> \in Engine.shares PROVE Fresh(k)
  BY <1>1, <1>2, <1>3 DEF LookupInv, SteadyKept, InHands, Engine
<1> QED BY <1>1, <1>2, <1>3, NextEngineKeeps

LEMMA ExamineKeeps == ASSUME LookupInv, NEW s \in pending, Examine(s) PROVE LookupInv'
<1> DEFINE st == IF s[2] = None THEN server[s[1]] ELSE s[2]
<1>1. /\ pending' = pending \ {s}
      /\ found' = IF ~Detected(s[1], s[2]) THEN found ELSE found \cup {<<s[1], st>>}
      /\ UNCHANGED <<config, rows, server, lpc, at, known, checks, steady>>
  BY DEF Examine
<1>2. s \in Keys \X (Scantypes \cup {None})
  BY DEF LookupInv, InRun
<1>3. Detected(s[1], s[2]) => st \in Scantypes
  BY <1>2 DEF Detected, Scantypes
<1>4. s[1] \in Keys /\ s = <<s[1], s[2]>>
  BY <1>2
<1> DEFINE new == <<s[1], st>>
<1>5. new[1] = s[1] /\ (Detected(s[1], s[2]) => new \in Keys \X Scantypes)
  BY <1>3, <1>4
<1>6. found \subseteq found' /\ found' \subseteq found \cup {new} /\ (Detected(s[1], s[2]) => new \in found')
  BY <1>1
<1>7. found' \subseteq Keys \X Scantypes
  BY <1>1, <1>5 DEF LookupInv, InRun
<1> HIDE DEF new, st
<1>8. InRun'
  <2>1. InEngine' <=> InEngine
    BY <1>1 DEF InEngine
  <2>2. InEngine /\ lpc # "idle"
    BY DEF LookupInv, InRun, Idle
  <2>3. \A u \in pending' \cup checks' \cup found' : \E t \in Engine.shares : t[1] = u[1]
    BY <1>1, <1>5, <1>6 DEF LookupInv, InRun
  <2> QED BY <1>1, <1>7, <2>1, <2>2, <2>3 DEF LookupInv, InRun, Engine
<1>9. Permitted' /\ HaveRows'
  BY <1>1, <1>5, <1>6 DEF LookupInv, Permitted, HaveRows, Engine
<1>10. NothingEnds'
  <2> SUFFICES ASSUME InEngine, PlainEngine(at)
      PROVE  /\ lpc = "new" =>
                  /\ \A u \in pending' \cup checks : u[2] = None
                  /\ \A u \in pending' \cup found' : rows[u[1]] = None
                  /\ \A u \in found', t \in pending' \cup found' : u[1] = t[1] => u = t
             /\ lpc = "check" => \A u \in pending' : u[2] = None
    BY <1>1, SamePlain DEF NothingEnds, InEngine
  <2>1. /\ lpc = "new" =>
             /\ \A u \in pending \cup checks : u[2] = None
             /\ \A u \in pending \cup found : rows[u[1]] = None
             /\ \A u \in found, t \in pending \cup found : u[1] = t[1] => u = t
        /\ lpc = "check" => \A u \in pending : u[2] = None
    BY DEF LookupInv, NothingEnds
  <2>2. ASSUME lpc = "new", NEW u \in found', NEW t \in pending' \cup found', u[1] = t[1]
        PROVE  u = t
    <3>1. \A v \in pending' : v # s /\ v \in pending
      BY <1>1
    <3>2. \A v \in pending' : v[1] # s[1]
      BY <1>4, <2>1, <2>2, <3>1 DEF LookupInv, InRun
    <3>3. \A v \in found : v[1] # s[1]
      BY <2>1, <2>2, EnginesAssumption DEF LookupInv, InRun
    <3> QED BY <1>5, <1>6, <2>1, <2>2, <3>1, <3>2, <3>3
  <2> QED BY <1>1, <1>5, <1>6, <2>1, <2>2
<1>11. SteadyKept'
  <2>1. ASSUME NEW k \in steady, InHands(k) PROVE InHands(k)'
    <3>1. CASE <<k, None>> = s
      <4>1. Detected(s[1], s[2])
        BY <3>1 DEF Detected, LookupInv, SteadyKept
      <4> QED BY <1>5, <1>6, <3>1, <4>1 DEF InHands
    <3>2. CASE <<k, None>> # s
      BY <1>1, <1>6, <2>1, <3>2 DEF InHands
    <3> QED BY <3>1, <3>2
  <2> QED BY <1>1, <2>1, SamePlain DEF LookupInv, SteadyKept, Fresh, InEngine
<1>12. KnownFit' /\ RowsFit' /\ ServersFit'
  BY <1>1 DEF LookupInv, KnownFit, Skips, Last, InEngine, RowsFit, RowOf, ServersFit
<1> QED BY <1>8, <1>9, <1>10, <1>11, <1>12 DEF LookupInv

LEMMA InsertKeeps == ASSUME LookupInv, NEW s \in found, Insert(s) PROVE LookupInv'
<1>1. /\ lpc = "new" /\ pending = {} /\ rows[s[1]] = None
      /\ rows' = [rows EXCEPT ![s[1]] = Row(Engine.net, s[2], 0)]
      /\ found' = found \ {s}
      /\ UNCHANGED <<config, server, lpc, at, known, pending, checks, steady>>
  BY DEF Insert
<1>2. InEngine /\ InEngine' /\ at \in 1..Len(config)
  BY <1>1, Lengths DEF InEngine, LookupInv, InRun
<1>3. s[1] \in Keys /\ s[2] \in Scantypes /\ s = <<s[1], s[2]>> /\ DOMAIN rows = Keys
  BY DEF LookupInv, InRun, RowsFit
<1>4. rows'[s[1]] = Row(Engine.net, s[2], 0) /\ \A k \in Keys : k # s[1] => rows'[k] = rows[k]
  BY <1>1, <1>3
<1>5. rows'[s[1]] # None
  BY <1>2, <1>3, <1>4, EngineFits DEF Engine, LookupInv
<1>6. Fresh(s[1])'
  BY <1>4, <1>5 DEF Fresh, Row
<1>7. InRun'
  BY <1>1, <1>2 DEF LookupInv, InRun, InEngine, Engine
<1>8. RowsFit'
  <2>1. RowOf(s[1], at)'
    <3>1. \E st \in Scantypes, age \in 0..3 : rows'[s[1]] = Row(config[at].net, st, age)
      BY <1>3, <1>4 DEF Engine
    <3>2. \E t \in config[at].shares : t[1] = s[1]
      BY DEF LookupInv, InRun, Engine
    <3> QED BY <1>1, <3>1, <3>2 DEF RowOf
  <2>2. ASSUME NEW k \in Keys, k # s[1] PROVE rows'[k] = None \/ \E j \in 1..Len(config) : RowOf(k, j)'
    BY <1>1, <1>4, <2>2 DEF LookupInv, RowsFit, RowOf
  <2>3. DOMAIN rows' = Keys
    BY <1>1, <1>3
  <2> QED BY <1>1, <1>2, <2>1, <2>2, <2>3 DEF RowsFit
<1>9. HaveRows'
  BY <1>1, <1>4, <1>5 DEF LookupInv, HaveRows, InRun
<1>10. NothingEnds'
  <2> SUFFICES ASSUME PlainEngine(at) PROVE \A u \in found' : rows'[u[1]] = None
    BY <1>1, <1>2, SamePlain DEF LookupInv, NothingEnds
  <2> QED BY <1>1, <1>2, <1>4 DEF LookupInv, NothingEnds, InRun
<1>11. SteadyKept'
  <2>1. \A k \in Keys : Fresh(k) => Fresh(k)'
    BY <1>4, <1>6 DEF Fresh
  <2>2. \A k \in Keys : InHands(k) => InHands(k)' \/ Fresh(k)'
    BY <1>1, <1>6 DEF InHands
  <2> QED BY <1>1, <1>2, <2>1, <2>2, SamePlain DEF LookupInv, SteadyKept
<1>12. KnownFit' /\ ServersFit' /\ Permitted'
  BY <1>1 DEF LookupInv, KnownFit, Skips, Last, InEngine, ServersFit, Permitted, Engine
<1> QED BY <1>7, <1>8, <1>9, <1>10, <1>11, <1>12 DEF LookupInv

LEMMA InsertedKeeps == ASSUME LookupInv, Inserted PROVE LookupInv'
<1>1. /\ lpc = "new" /\ pending = {} /\ found = {} /\ lpc' = "check" /\ pending' = checks
      /\ UNCHANGED <<config, rows, server, at, known, found, checks, steady>>
  BY DEF Inserted
<1>2. InEngine /\ InEngine'
  BY <1>1 DEF InEngine
<1>3. InRun'
  BY <1>1, <1>2 DEF LookupInv, InRun, Engine
<1>4. SteadyKept'
  BY <1>1, <1>2, SamePlain DEF LookupInv, SteadyKept, Fresh, InHands
<1>5. NothingEnds'
  BY <1>1, <1>2, SamePlain DEF LookupInv, NothingEnds
<1>6. KnownFit' /\ RowsFit' /\ ServersFit' /\ HaveRows' /\ Permitted'
  BY <1>1, <1>2 DEF LookupInv, KnownFit, Skips, Last, RowsFit, RowOf, ServersFit, HaveRows, Permitted
<1> QED BY <1>3, <1>4, <1>5, <1>6 DEF LookupInv

(* A row is given another scantype, and is fresh.                          *)
Renewed(row, st) == [row EXCEPT !.st = st, !.age = 0]
LEMMA Refresh ==
  ASSUME LookupInv, NEW k \in Keys, rows[k] # None, NEW st \in Scantypes
  PROVE  /\ Renewed(rows[k], st) # None /\ Renewed(rows[k], st).age = 0
         /\ \E j \in 1..Len(config) : Renewed(rows[k], st) = Row(config[j].net, st, 0) /\ \E s \in config[j].shares : s[1] = k
<1>1. PICK j \in 1..Len(config) : RowOf(k, j)
  BY DEF LookupInv, RowsFit
<1>2. PICK old \in Scantypes, age \in 0..3 : rows[k] = Row(config[j].net, old, age)
  BY <1>1 DEF RowOf
<1>3. Renewed(rows[k], st) = Row(config[j].net, st, 0)
  <2>1. Renewed(Row(config[j].net, old, age), st) = Row(config[j].net, st, 0)
    <3>1. ASSUME NEW net, NEW x, x = [[net |-> net, st |-> old, age |-> age] EXCEPT !.st = st, !.age = 0]
          PROVE  x.net = net /\ x.st = st /\ x.age = 0 /\ x = [net |-> x.net, st |-> x.st, age |-> x.age]
      BY <3>1
    <3> QED BY <3>1 DEF Renewed, Row
  <2> QED BY <1>2, <2>1
<1>4. Row(config[j].net, st, 0) # None /\ Row(config[j].net, st, 0).age = 0
  BY EngineFits DEF LookupInv, Row
<1> QED BY <1>1, <1>3, <1>4 DEF RowOf

LEMMA UpdateKeeps == ASSUME LookupInv, NEW st \in Scantypes, NEW port, Update(st, port) PROVE LookupInv'
<1> DEFINE group == {s \in found : s[2] = st /\ ProtoOrPort(s[1]) = port}
<1>1. /\ lpc = "check" /\ pending = {}
      /\ rows' = [k \in Keys |-> IF <<k, st>> \in group THEN Renewed(rows[k], st) ELSE rows[k]]
      /\ found' = found \ group
      /\ UNCHANGED <<config, server, lpc, at, known, pending, checks, steady>>
  BY DEF Update, Renewed
<1>2. \A s \in group : s \in found /\ s[1] \in Keys /\ s = <<s[1], st>> /\ rows[s[1]] # None
  <2> SUFFICES ASSUME NEW s \in found, s[2] = st PROVE s[1] \in Keys /\ s = <<s[1], st>> /\ rows[s[1]] # None
    OBVIOUS
  <2>1. s \in Keys \X Scantypes
    BY DEF LookupInv, InRun
  <2>2. rows[s[1]] # None
    BY <1>1 DEF LookupInv, HaveRows
  <2> QED BY <2>1, <2>2
<1>3. InEngine /\ InEngine'
  BY <1>1 DEF InEngine
<1> HIDE DEF group
<1>4. ASSUME NEW k \in Keys, <<k, st>> \in group
      PROVE  /\ rows'[k] # None /\ rows'[k].age = 0
             /\ \E j \in 1..Len(config) : rows'[k] = Row(config[j].net, st, 0) /\ \E s \in config[j].shares : s[1] = k
  <2>1. rows'[k] = Renewed(rows[k], st) /\ rows[k] # None
    BY <1>1, <1>2, <1>4
  <2> QED BY <2>1, Refresh
<1>5. \A k \in Keys : <<k, st>> \notin group => rows'[k] = rows[k]
  BY <1>1
<1>6. DOMAIN rows' = Keys
  BY <1>1
<1>7. \A k \in Keys : rows[k] # None => rows'[k] # None
  BY <1>4, <1>5
<1>8. InRun'
  BY <1>1, <1>3 DEF LookupInv, InRun, Engine
<1>9. RowsFit'
  <2>1. ASSUME NEW k \in Keys, <<k, st>> \in group PROVE \E j \in 1..Len(config) : RowOf(k, j)'
    BY <1>1, <1>4, <2>1 DEF RowOf
  <2>2. ASSUME NEW k \in Keys, <<k, st>> \notin group PROVE rows'[k] = None \/ \E j \in 1..Len(config) : RowOf(k, j)'
    BY <1>1, <1>5, <2>2 DEF LookupInv, RowsFit, RowOf
  <2> QED BY <1>1, <1>6, <2>1, <2>2 DEF RowsFit
<1>10. SteadyKept'
  <2>1. \A k \in Keys : Fresh(k) => Fresh(k)'
    BY <1>4, <1>5 DEF Fresh
  <2>2. \A k \in Keys : InHands(k) => InHands(k)' \/ Fresh(k)'
    BY <1>1, <1>2, <1>4 DEF InHands, Fresh
  <2> QED BY <1>1, <1>3, <2>1, <2>2, SamePlain DEF LookupInv, SteadyKept
<1>11. HaveRows'
  BY <1>1, <1>7 DEF LookupInv, HaveRows, InRun
<1>12. NothingEnds'
  BY <1>1, <1>3, SamePlain DEF LookupInv, NothingEnds
<1>13. KnownFit' /\ ServersFit' /\ Permitted'
  BY <1>1, <1>3 DEF LookupInv, KnownFit, Skips, Last, ServersFit, Permitted
<1> QED BY <1>8, <1>9, <1>10, <1>11, <1>12, <1>13 DEF LookupInv

(* A run ends, with rows deleted or not.                                   *)
LEMMA ResetKeeps ==
  ASSUME LookupInv, Reset, UNCHANGED <<config, server>>,
         DOMAIN rows' = Keys, \A k \in Keys : rows'[k] = None \/ rows'[k] = rows[k]
  PROVE  LookupInv'
<1>1. /\ lpc' = "idle" /\ at' = 1 /\ known' = [h \in Hosts |-> None]
      /\ pending' = {} /\ found' = {} /\ checks' = {} /\ steady' = {} /\ Idle'
  BY DEF Reset, Idle
<1>2. ~InEngine' /\ Last' = 0
  BY <1>1 DEF InEngine, Last
<1>3. InRun'
  BY <1>1, <1>2, Lengths DEF LookupInv, InRun
<1>4. RowsFit'
  BY DEF LookupInv, RowsFit, RowOf
<1>5. KnownFit'
  BY <1>1, <1>2 DEF KnownFit
<1> QED
  BY <1>1, <1>2, <1>3, <1>4, <1>5
  DEF LookupInv, ServersFit, Permitted, HaveRows, NothingEnds, SteadyKept

LEMMA DeleteKeeps == ASSUME LookupInv, Delete PROVE LookupInv'
BY ResetKeeps DEF Delete

LEMMA DieKeeps == ASSUME LookupInv, Die PROVE LookupInv'
BY ResetKeeps DEF Die, LookupInv, RowsFit

LEMMA ChangeKeeps ==
  ASSUME LookupInv, NEW k \in Named, NEW v \in Scantypes \cup {"down", "deaf", "other"}, Change(k, v)
  PROVE  LookupInv'
<1>1. /\ server' = [server EXCEPT ![k] = v] /\ steady' = steady \ {k}
      /\ UNCHANGED <<config, rows, lpc, at, known, pending, found, checks>>
  BY DEF Change, lookupVars
<1>2. ServersFit'
  BY <1>1 DEF LookupInv, ServersFit
<1>3. SteadyKept'
  BY <1>1, SamePlain DEF LookupInv, SteadyKept, Fresh, InHands, InEngine, ServersFit
<1>4. NothingEnds'
  BY <1>1, SamePlain DEF LookupInv, NothingEnds, InEngine
<1>5. InRun'
  BY <1>1 DEF LookupInv, InRun, InEngine, Engine, Idle
<1> QED
  BY <1>1, <1>2, <1>3, <1>4, <1>5
  DEF LookupInv, RowsFit, RowOf, KnownFit, Skips, Last, InEngine, Permitted, HaveRows, Engine

LEMMA TickKeeps == ASSUME LookupInv, Tick PROVE LookupInv'
<1> DEFINE older(row) == [row EXCEPT !.age = IF @ < 3 THEN @ + 1 ELSE 3]
<1>1. /\ lpc = "idle"
      /\ rows' = [k \in Keys |-> IF rows[k] = None THEN None ELSE older(rows[k])]
      /\ UNCHANGED <<config, server, lpc, at, known, pending, found, checks, steady>>
  BY DEF Tick
<1>2. ASSUME NEW net, NEW st, NEW age \in 0..3
      PROVE  older(Row(net, st, age)) = Row(net, st, IF age < 3 THEN age + 1 ELSE 3)
  BY DEF Row
<1> HIDE DEF older
<1>3. ASSUME NEW k \in Keys, NEW j \in 1..Len(config), RowOf(k, j) PROVE rows'[k] = None \/ RowOf(k, j)'
  <2>1. PICK st \in Scantypes, age \in 0..3 : rows[k] = Row(config[j].net, st, age)
    BY <1>3 DEF RowOf
  <2>2. rows'[k] = None \/ rows'[k] = Row(config[j].net, st, IF age < 3 THEN age + 1 ELSE 3)
    BY <1>1, <1>2, <2>1
  <2> QED BY <1>1, <1>3, <2>2 DEF RowOf
<1>4. RowsFit'
  BY <1>1, <1>3 DEF LookupInv, RowsFit
<1>5. pending = {} /\ found = {} /\ checks = {} /\ steady = {} /\ ~InEngine /\ ~InEngine'
  BY <1>1 DEF LookupInv, InRun, Idle, InEngine
<1>6. InRun'
  BY <1>1, <1>5 DEF LookupInv, InRun, Engine, Idle
<1> QED
  BY <1>1, <1>4, <1>5, <1>6
  DEF LookupInv, ServersFit, KnownFit, Skips, Last, Permitted, HaveRows, NothingEnds, SteadyKept

-----------------------------------------------------------------------------
(* A plain engine reads the rows of all its shares, as no other share, of  *)
(* any engine, is kept in the dictionary in place of one.                  *)
LEMMA RowIsRead ==
  ASSUME LookupInv, at \in 1..Len(config), PlainEngine(at), NEW read \in OnePerSlot(InNetwork),
         NEW s \in Engine.shares, rows[s[1]] # None
  PROVE  \E u \in read : u[1] = s[1]
<1>1. s[1] \in Keys
  BY EngineFits DEF LookupInv, Engine
<1>2. PICK j \in 1..Len(config) : RowOf(s[1], j)
  BY <1>1 DEF LookupInv, RowsFit
<1>3. j = at
  BY <1>2 DEF RowOf, PlainEngine, Names, Engine
<1>4. rows[s[1]].net = Engine.net
  BY <1>2, <1>3 DEF RowOf, Row, Engine
<1>5. <<s[1], rows[s[1]].st>> \in InNetwork
  BY <1>1, <1>4 DEF InNetwork
<1>6. PICK u \in read : Slot(u[1]) = Slot(s[1])
  <2>1. <<s[1], rows[s[1]].st>>[1] = s[1]
    OBVIOUS
  <2> QED BY <1>5, <2>1, SlotIsTaken
<1>7. u[1] \in Keys /\ rows[u[1]] # None
  BY DEF OnePerSlot, InNetwork
<1>8. PICK i \in 1..Len(config) : RowOf(u[1], i)
  BY <1>7 DEF LookupInv, RowsFit
<1>9. PICK t \in config[i].shares : t[1] = u[1]
  BY <1>8 DEF RowOf
<1>10. i = at
  BY <1>6, <1>9 DEF PlainEngine, Names, Engine
<1>11. t = s
  BY <1>6, <1>9, <1>10 DEF PlainEngine, Engine
<1> QED BY <1>9, <1>11

LEMMA PrepareKeeps == ASSUME LookupInv, Prepare PROVE LookupInv'
<1>1. /\ lpc = "engine" /\ at \in 1..Len(config) /\ lpc' = "new"
      /\ UNCHANGED <<config, rows, server, at, found, steady>>
  BY DEF Prepare, LookupInv, InRun
<1>2. /\ pending = {} /\ found = {} /\ checks = {}
      /\ ~InEngine /\ InEngine' /\ Last = at - 1 /\ Last' = at
  BY <1>1 DEF LookupInv, InRun, InEngine, Last
<1>3. PICK read \in OnePerSlot(InNetwork), named \in IF Engine.zone THEN SUBSET Engine.hosts ELSE {Engine.hosts} :
        LET hosts == {h \in named : Allowed(h)}
            shown == {s[1] : s \in read}
            added == {Given(s, shown) : s \in {s \in Engine.shares : Engine.free \/ s[1].host \in hosts}}
        IN /\ known' = [h \in Hosts |-> IF h \in hosts THEN Engine.class ELSE known[h]]
           /\ pending' \in OnePerSlot({s \in added : s[1] \notin shown})
           /\ checks' \in OnePerSlot({s \in added : s[1] \in shown /\ Due(s)})
  BY DEF Prepare
<1> DEFINE hosts == {h \in named : Allowed(h)}
           shown == {s[1] : s \in read}
           mine == {s \in Engine.shares : Engine.free \/ s[1].host \in hosts}
           added == {Given(s, shown) : s \in mine}
           new == {s \in added : s[1] \notin shown}
           due == {s \in added : s[1] \in shown /\ Due(s)}
<1>4. /\ known' = [h \in Hosts |-> IF h \in hosts THEN Engine.class ELSE known[h]]
      /\ pending' \in OnePerSlot(new) /\ checks' \in OnePerSlot(due)
  BY <1>3
<1>5. named \subseteq Engine.hosts /\ (~Engine.zone => named = Engine.hosts)
  OBVIOUS
<1>6. Engine.hosts \subseteq Hosts
  BY <1>1, EngineFits DEF LookupInv, Engine
<1>7. \A k \in shown : k \in Keys /\ rows[k] # None
  BY DEF OnePerSlot, InNetwork
<1>8. ASSUME NEW s \in mine
      PROVE  LET u == Given(s, shown)
             IN u \in Keys \X (Scantypes \cup {None}) /\ u[1] = s[1] /\ (s[2] = None => u = s)
  <2>1. s \in Keys \X (Scantypes \cup {None, Stored})
    BY <1>1, EngineFits DEF LookupInv, Engine
  <2>2. s[1] \in shown => rows[s[1]].st \in Scantypes
    BY <1>7 DEF LookupInv, RowsFit, RowOf, Row
  <2> QED BY <2>1, <2>2, EnginesAssumption DEF Given
<1>9. ASSUME NEW h \in Hosts, \A j \in 1..(at - 1) : h \notin config[j].hosts PROVE Allowed(h)
  BY <1>2, <1>9 DEF Allowed, LookupInv, KnownFit
<1> HIDE DEF hosts, shown, added, mine
<1>10. \A u \in added : /\ u \in Keys \X (Scantypes \cup {None})
                         /\ \E s \in mine : u[1] = s[1] /\ (s[2] = None => u = s)
  BY <1>8 DEF added
<1>11. pending' \subseteq new /\ checks' \subseteq due /\ new \subseteq added /\ due \subseteq added
  BY <1>4 DEF OnePerSlot
<1>12. \A s \in mine : s \in Engine.shares /\ (Engine.free \/ s[1].host \in hosts)
  BY DEF mine
<1>13. InRun'
  <2>1. \A u \in pending' \cup checks' : u \in Keys \X (Scantypes \cup {None}) /\ \E s \in Engine.shares : s[1] = u[1]
    BY <1>10, <1>11, <1>12
  <2> QED BY <1>1, <1>2, <2>1 DEF LookupInv, InRun, Engine
<1>14. KnownFit'
  <2> SUFFICES ASSUME NEW h \in Hosts
      PROVE  /\ known'[h] = None \/ \E j \in 1..at : known'[h] = config[j].class /\ h \in config[j].hosts
             /\ \A i \in 1..at : Skips(i, h) => known'[h] = "SkipHosts"
    BY <1>1, <1>2, <1>4 DEF KnownFit, Skips
  <2>1. /\ h \in hosts => known'[h] = Engine.class /\ h \in Engine.hosts /\ known[h] \in {None, Engine.class}
        /\ h \notin hosts => known'[h] = known[h]
    BY <1>4, <1>5 DEF hosts, Allowed
  <2>2. known'[h] = None \/ \E j \in 1..at : known'[h] = config[j].class /\ h \in config[j].hosts
    BY <1>1, <1>2, <2>1 DEF LookupInv, KnownFit, Engine
  <2>3. ASSUME NEW i \in 1..at, Skips(i, h) PROVE known'[h] = "SkipHosts"
    <3>1. CASE i < at
      <4>1. known[h] = "SkipHosts" /\ "SkipHosts" # None
        BY <1>1, <1>2, <2>3, <3>1, EngineFits DEF LookupInv, KnownFit, Skips
      <4> QED BY <2>1, <4>1
    <3>2. CASE i = at
      <4>1. Engine.class = "SkipHosts" /\ h \in Engine.hosts /\ ~Engine.zone
        BY <1>1, <2>3, <3>2, EngineFits DEF LookupInv, Skips, Engine
      <4>2. Allowed(h)
        BY <1>9, <2>3, <3>2 DEF Skips
      <4>3. h \in hosts
        BY <1>5, <4>1, <4>2 DEF hosts
      <4> QED BY <2>1, <4>1, <4>3
    <3> QED BY <1>1, <3>1, <3>2
  <2> QED BY <2>2, <2>3
<1>15. Permitted'
  <2>1. ASSUME NEW u \in pending' PROVE Engine.free \/ known'[u[1].host] = Engine.class
    <3>1. u[1] \in Keys /\ (Engine.free \/ u[1].host \in hosts)
      BY <1>10, <1>11, <1>12
    <3> QED BY <1>4, <3>1 DEF Hosts
  <2> QED BY <1>1, <1>2, <2>1 DEF Permitted, Engine
<1>16. HaveRows'
  BY <1>1, <1>7, <1>11 DEF HaveRows
<1>17. NothingEnds'
  <2> SUFFICES ASSUME PlainEngine(at)
      PROVE  (\A u \in pending' \cup checks' : u[2] = None) /\ (\A u \in pending' : rows[u[1]] = None)
    BY <1>1, <1>2, SamePlain DEF NothingEnds
  <2>1. \A u \in added : u \in Engine.shares /\ u[2] = None
    BY <1>10, <1>12 DEF PlainEngine, Engine
  <2>2. ASSUME NEW u \in pending' PROVE rows[u[1]] = None
    BY <1>1, <1>11, <2>1, RowIsRead DEF shown
  <2> QED BY <1>11, <2>1, <2>2
<1>18. SteadyKept'
  <2>1. ASSUME NEW k \in steady, PlainEngine(at), <<k, None>> \in Engine.shares
        PROVE  Fresh(k) \/ <<k, None>> \in pending' \cup checks'
    <3> DEFINE s == <<k, None>>
    <3>1. k \in Keys /\ s[1] = k /\ s[2] = None
      BY DEF LookupInv, SteadyKept
    <3>2. s \in mine
      <4>1. Engine.free \/ k.host \in Engine.hosts
        BY <1>1, <2>1, <3>1, EngineFits DEF LookupInv, Engine
      <4>2. Allowed(k.host)
        BY <1>1, <1>9, <2>1, <3>1, Lengths DEF PlainEngine, Names, Engine, Hosts, LookupInv
      <4>3. named = Engine.hosts
        BY <1>5, <2>1 DEF PlainEngine, Engine
      <4> QED BY <2>1, <3>1, <4>1, <4>2, <4>3 DEF mine, hosts
    <3>3. Given(s, shown) = s
      BY <1>8, <3>1, <3>2
    <3>4. s \in added
      BY <3>2, <3>3 DEF added
    <3>5. \A u \in added : Slot(u[1]) = Slot(s[1]) => u = s
      BY <1>10, <1>12, <2>1 DEF PlainEngine, Engine
    <3> HIDE DEF s
    <3>6. CASE k \notin shown
      <4>1. s \in new
        BY <3>1, <3>4, <3>6
      <4> QED BY <1>4, <1>11, <3>5, <4>1, AloneStays DEF s
    <3>7. CASE k \in shown /\ ~Fresh(k)
      <4>1. rows[k].age >= 1
        BY <1>7, <3>1, <3>7 DEF LookupInv, RowsFit, RowOf, Row, Fresh
      <4>2. s \in due
        BY <3>1, <3>4, <3>7, <4>1 DEF Due
      <4> QED BY <1>4, <1>11, <3>5, <4>2, AloneStays DEF s
    <3> QED BY <3>6, <3>7
  <2>2. \A k \in steady : Fresh(k)' <=> Fresh(k)
    BY <1>1 DEF Fresh
  <2>3. ASSUME NEW k \in steady, NEW i \in 1..Len(config), PlainEngine(i), <<k, None>> \in config[i].shares
        PROVE  (i < at => Fresh(k)) /\ (i = at => Fresh(k) \/ InHands(k)')
    BY <1>1, <2>1, <2>3 DEF LookupInv, SteadyKept, InHands, Engine
  <2> QED BY <1>1, <1>2, <2>2, <2>3, SamePlain DEF LookupInv, SteadyKept
<1>19. RowsFit' /\ ServersFit'
  BY <1>1 DEF LookupInv, RowsFit, RowOf, ServersFit
<1> QED BY <1>13, <1>14, <1>15, <1>16, <1>17, <1>18, <1>19 DEF LookupInv

-----------------------------------------------------------------------------
LEMMA PingKeepsVars == ASSUME Ping PROVE UNCHANGED vars
BY DEF Ping, Pass, Read, Connect, StoreOnline, StoreOffline, Store

LEMMA LookupNext == LookupInv /\ [PNext]_allVars => LookupInv'
<1> SUFFICES ASSUME LookupInv, [PNext]_allVars PROVE LookupInv'
  OBVIOUS
<1>1. CASE Ping \/ UNCHANGED allVars
  <2>1. UNCHANGED <<config, rows, server, lpc, at, known, pending, found, checks, steady>>
    BY <1>1, PingKeepsVars DEF allVars, vars
  <2> QED
    BY <2>1, SamePlain
    DEF LookupInv, InRun, ServersFit, RowsFit, RowOf, KnownFit, Skips, Last, InEngine, Permitted, HaveRows,
        NothingEnds, SteadyKept, Fresh, InHands, Engine, Idle
<1>2. CASE LookupRuns
  <2>1. CASE Start
    BY <2>1, StartKeeps
  <2>2. CASE Prepare
    BY <2>2, PrepareKeeps
  <2>3. CASE \E s \in pending : Examine(s) \/ Stopped(s)
    BY <2>3, ExamineKeeps, StoppedKeeps
  <2>4. CASE \E s \in found : Insert(s) \/ Duplicate(s)
    BY <2>4, InsertKeeps, DuplicateKeeps
  <2>5. CASE Inserted
    BY <2>5, InsertedKeeps
  <2>6. CASE \E s \in found : Update(s[2], ProtoOrPort(s[1]))
    <3>1. PICK s \in found : Update(s[2], ProtoOrPort(s[1]))
      BY <2>6
    <3>2. s[2] \in Scantypes
      BY DEF LookupInv, InRun
    <3> QED BY <3>1, <3>2, UpdateKeeps
  <2>7. CASE Updated
    BY <2>7, UpdatedKeeps
  <2>8. CASE Delete
    BY <2>8, DeleteKeeps
  <2> QED BY <1>2, <2>1, <2>2, <2>3, <2>4, <2>5, <2>6, <2>7, <2>8 DEF LookupRuns, Run
<1>3. CASE WorldChanges
  BY <1>3, DieKeeps, TickKeeps, ChangeKeeps DEF WorldChanges, World
<1> QED BY <1>1, <1>2, <1>3 DEF PNext

THEOREM LookupInductive == PSpec => []LookupInv
BY LookupInit, LookupNext, PTL DEF PSpec

-----------------------------------------------------------------------------
(* The pinger has rows in hand, and a share that is gone is not online.    *)
InTheDatabase ==
  /\ groups \subseteq {ProtoOrPort(k) : k \in Keys}
  /\ asked \cup answered \cup silent \subseteq {k \in Keys : rows[k] # None}
  /\ \A k \in Keys : rows[k] = None => online[k] = FALSE

LEMMA DatabaseInit == PInit => InTheDatabase
BY DEF PInit, InTheDatabase

LEMMA NamedAreKeys == ASSUME LookupInv PROVE Named \subseteq Keys
BY EngineFits DEF LookupInv, Named

LEMMA StoreStays ==
  ASSUME InTheDatabase, NEW S, NEW state \in BOOLEAN, Store(S, state), S \subseteq answered \cup silent
  PROVE  InTheDatabase'
<1>1. PICK B \in SUBSET S :
         /\ online' = [k \in Keys |-> IF k \in B THEN state ELSE online[k]]
         /\ answered' = answered \ B /\ silent' = silent \ B
         /\ UNCHANGED <<vars, asked, heard>>
  BY StoreTells
<1>2. groups' = groups /\ rows' = rows
  BY <1>1 DEF Store, vars
<1> QED BY <1>1, <1>2 DEF InTheDatabase

LEMMA DatabaseNext == LookupInv /\ InTheDatabase /\ [PNext]_allVars => InTheDatabase'
<1> SUFFICES ASSUME LookupInv, InTheDatabase, [PNext]_allVars PROVE InTheDatabase'
  OBVIOUS
<1>1. CASE Pass
  BY <1>1, NamedAreKeys DEF Pass, vars, InTheDatabase
<1>2. CASE \E g \in groups : Read(g)
  <2>1. PICK g \in groups : Read(g)
    BY <1>2
  <2>2. UNCHANGED <<rows, online, answered, silent>> /\ groups' = groups \ {g} /\ asked' \subseteq {k \in Keys : rows[k] # None}
    BY <2>1 DEF Read, vars
  <2> QED BY <2>2 DEF InTheDatabase
<1>3. CASE \E k \in asked : Connect(k)
  BY <1>3 DEF Connect, vars, InTheDatabase
<1>4. CASE StoreOnline \/ StoreOffline
  BY <1>4, StoreStays DEF StoreOnline, StoreOffline
<1>5. CASE LookupRuns \/ WorldChanges
  BY <1>5 DEF LookupRuns, WorldChanges, Beside, InTheDatabase
<1>6. CASE UNCHANGED allVars
  BY <1>6 DEF allVars, vars, pingerVars, InTheDatabase
<1> QED BY <1>1, <1>2, <1>3, <1>4, <1>5, <1>6 DEF PNext, Ping

(* TypeOK for all configurations: what a run and the pinger have in hand,  *)
(* rows, servers and claims of hosts are what they can be, and a deleted   *)
(* share is never left online (bin/lookup.py, bin/pinger.py).              *)
THEOREM TypeCorrect == PSpec => []TypeOK
<1>1. PSpec => []InTheDatabase
  BY LookupInductive, DatabaseInit, DatabaseNext, PTL DEF PSpec
<1>2. LookupInv /\ PingerInv /\ InTheDatabase => TypeOK
  <2> SUFFICES ASSUME LookupInv, PingerInv, InTheDatabase PROVE TypeOK
    OBVIOUS
  <2>1. ASSUME NEW k \in Keys
        PROVE  /\ rows[k] = None \/ (rows[k].st \in Scantypes /\ rows[k].age \in 0..3)
               /\ server[k] \in Scantypes \cup {"down", "deaf", "other"}
               /\ online[k] \in BOOLEAN
               /\ rows[k] = None => ~online[k]
    BY DEF LookupInv, RowsFit, RowOf, Row, ServersFit, PingerInv, InTheDatabase
  <2>2. ASSUME NEW h \in Hosts PROVE known[h] = None \/ \E i \in 1..Len(config) : known[h] = config[i].class
    <3>1. known[h] = None \/ \E i \in 1..Last : known[h] = config[i].class
      BY DEF LookupInv, KnownFit
    <3>2. 1..Last \subseteq 1..Len(config)
      BY Lengths DEF LookupInv, InRun, Last, InEngine
    <3> QED BY <3>1, <3>2
  <2> QED BY <2>1, <2>2 DEF TypeOK, LookupInv, InRun, InTheDatabase
<1> QED BY <1>1, <1>2, LookupInductive, Inductive, PTL

(* Refreshed for all configurations: a share of a plain engine that is     *)
(* there throughout a run has a fresh row when the run comes to its        *)
(* DELETE, whatever other engines and other shares' servers do             *)
(* (bin/lookup.py:69-180, 524-551).                                        *)
THEOREM KeepsWhatIsThere == PSpec => []Refreshed
<1>1. LookupInv => Refreshed
  BY Lengths DEF LookupInv, SteadyKept, Refreshed, Plain, Fresh
<1> QED BY <1>1, LookupInductive, PTL

(* SkipsKept for all configurations: a host that SkipHosts is the first to *)
(* name gets no share from any engine that follows, in any network, but    *)
(* ManualShares (bin/lookup.py:129-140, 343-352).                          *)
THEOREM SkipsHosts == PSpec => SkipsKept
<1>1. ASSUME LookupInv, [PNext]_allVars, NEW k \in Keys, rows[k] = None, rows'[k] # None
      PROVE  Engine.free \/ ~Skipped(k)
  <2>1. PICK s \in found : Insert(s)
    BY <1>1, PingKeepsVars
    DEF allVars, vars, PNext, LookupRuns, Run, WorldChanges, World, Start, Prepare, Examine, Stopped, Duplicate, NextEngine,
        Inserted, Update, Updated, Delete, Die, Tick, Change, lookupVars, LookupInv, InRun, HaveRows
  <2>2. lpc = "new" /\ rows' = [rows EXCEPT ![s[1]] = Row(Engine.net, s[2], 0)]
    BY <2>1 DEF Insert
  <2>3. k = s[1]
    BY <1>1, <2>2 DEF LookupInv, RowsFit
  <2>4. Engine.free \/ known[k.host] = Engine.class
    BY <1>1, <2>1, <2>2, <2>3 DEF LookupInv, Permitted
  <2>5. InEngine /\ at \in 1..Len(config) /\ Len(config) \in Nat
    BY <1>1, <2>2, Lengths DEF InEngine, LookupInv, InRun
  <2>6. Engine.class # "SkipHosts"
    BY <1>1, <2>1, <2>5, EngineFits DEF LookupInv, InRun, Engine
  <2>7. Skipped(k) => known[k.host] = "SkipHosts"
    <3> SUFFICES ASSUME Skipped(k) PROVE known[k.host] = "SkipHosts"
      OBVIOUS
    <3>1. PICK i \in 1..(at - 1) : Skips(i, k.host)
      BY DEF Skipped, Skips
    <3> QED BY <1>1, <2>5, <3>1 DEF LookupInv, KnownFit, Last, Hosts
  <2> QED BY <2>4, <2>6, <2>7
<1>2. LookupInv /\ [PNext]_allVars
        => [\A k \in Keys : rows[k] = None /\ rows'[k] # None => Engine.free \/ ~Skipped(k)]_vars
  BY <1>1
<1> QED BY <1>2, LookupInductive, PTL DEF PSpec, SkipsKept
=============================================================================
