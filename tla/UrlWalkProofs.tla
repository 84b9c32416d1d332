----------------------------- MODULE UrlWalkProofs -----------------------------
(* Proofs about the walkers that keep an url and the programs around them: *)
(* for every share, the smb and webdav walkers do what dt.h asks of        *)
(* walkers, and an exit status of success means a complete scan.           *)
EXTENDS Scanner, SequenceTheorems, TLAPS

Types ==
  /\ kind \in Kinds
  /\ path \in Seq(Names)
  /\ url \in Seq(Names \cup {File})
  /\ error \in BOOLEAN
  /\ ancestors \in Seq(Nat)

(* Until an allocation fails the url is that of the engine's directory and *)
(* the stack holds the lengths of its prefixes.                            *)
Located ==
  /\ url = path
  /\ Len(ancestors) = Len(path)
  /\ \A i \in 1..Len(path) : ancestors[i] = i - 1
InStep == ~error => Located

(* What holds of all kinds, and what of all but libcurl's.                 *)
Base == Types /\ FramesSuffice
Inv ==
  /\ Base
  /\ InStep
  /\ pc = "enter" => Unmasked \/ listing = Kids(path)

-----------------------------------------------------------------------------
(* What is left of a sequence cut off at n.                                *)
LEMMA CutOff ==
  ASSUME NEW S, NEW s \in Seq(S), NEW n \in Nat, n < Len(s)
  PROVE  SubSeq(s, 1, n) \in Seq(S) /\ Len(SubSeq(s, 1, n)) = n
         /\ \A i \in 1..n : SubSeq(s, 1, n)[i] = s[i]
<1> DEFINE f == SubSeq(s, 1, n)
<1>1. \A i \in 1..n : s[i] \in S
  OBVIOUS
<1>2. /\ f \in Seq(S)
      /\ Len(f) = IF 1 <= n THEN n - 1 + 1 ELSE 0
      /\ \A i \in 1..(n - 1 + 1) : f[i] = s[1 + i - 1]
  BY <1>1, SubSeqProperties
<1> HIDE DEF f
<1>3. Len(f) = n
  BY <1>2
<1>4. \A i \in 1..n : f[i] = s[i]
  <2> SUFFICES ASSUME NEW i \in 1..n PROVE f[i] = s[i]
    OBVIOUS
  <2>1. i \in 1..(n - 1 + 1) /\ 1 + i - 1 = i
    OBVIOUS
  <2> QED BY <2>1, <1>2
<1> QED BY <1>2, <1>3, <1>4 DEF f

(* A failing url_append leaves the walker in step, or sets the flag.       *)
LEMMA AppendFailsKeeps ==
  ASSUME Base, kind' = kind, NEW n \in Names \cup {File}, AppendFails(n), path' = path
  PROVE  Base' /\ (InStep => InStep')
<1>1. CASE UNCHANGED <<url, error, ancestors>>
  BY <1>1 DEF Base, Types, InStep, Located, FramesSuffice
<1>2. CASE error' = TRUE /\ url' \in {url, Append(url, n)} /\ ancestors' = Append(ancestors, Len(url))
  <2>1. url' \in Seq(Names \cup {File})
    <3> DEFINE T == Names \cup {File}
    <3>1. url \in Seq(T) /\ n \in T
      BY DEF Base, Types
    <3> HIDE DEF T
    <3>2. Append(url, n) \in Seq(T)
      BY <3>1
    <3> QED BY <1>2, <3>1, <3>2 DEF T
  <2>2. /\ Len(path) \in Nat /\ Len(ancestors) \in Nat /\ Len(ancestors) >= Len(path)
        /\ Len(url) \in Nat
    BY DEF Base, Types, FramesSuffice
  <2>3. ancestors' \in Seq(Nat) /\ Len(ancestors') = Len(ancestors) + 1
    BY <1>2, <2>2 DEF Base, Types
  <2>4. FramesSuffice'
    BY <2>2, <2>3 DEF FramesSuffice
  <2> QED BY <1>2, <2>1, <2>3, <2>4 DEF Base, Types, InStep
<1> QED BY <1>1, <1>2 DEF AppendFails, Pushed

(* Every call of the engine keeps the types and an element for every       *)
(* directory to return from.                                               *)
LEMMA GoChildPushes ==
  ASSUME Base, NEW n \in Names, GoChild(n) \/ GoChildUnmasked(n)
  PROVE  /\ path' \in Seq(Names) /\ url' \in Seq(Names \cup {File}) /\ ancestors' \in Seq(Nat)
         /\ Len(path) \in Nat /\ Len(path') = Len(path) + 1
         /\ Len(ancestors') = Len(ancestors) + 1 /\ ancestors'[Len(ancestors) + 1] = Len(url)
         /\ \A i \in 1..Len(ancestors) : ancestors'[i] = ancestors[i]
<1>1. url' = Append(url, n) /\ path' = Append(path, n) /\ ancestors' = Append(ancestors, Len(url))
  BY DEF GoChild, GoChildUnmasked, W!Descend, Pushed
<1> QED BY <1>1 DEF Base, Types

LEMMA GoParentPops ==
  ASSUME Base, kind' = kind, GoParent
  PROVE  /\ Base' /\ pc' # "enter"
         /\ Len(path) \in Nat \ {0} /\ Len(path') = Len(path) - 1
         /\ Len(ancestors') = Len(ancestors) - 1
         /\ \A i \in 1..Len(ancestors') : ancestors'[i] = ancestors[i]
<1>1. /\ path # <<>> /\ path' = SubSeq(path, 1, Len(path) - 1) /\ pc' # "enter"
      /\ url' = Chop(ancestors[Len(ancestors)])
      /\ ancestors' = SubSeq(ancestors, 1, Len(ancestors) - 1)
      /\ error' \in {error, TRUE}
  BY DEF GoParent, Suspend, W!Ascend, W!Leaving, W!Parent
<1>2. Len(path) \in Nat /\ Len(path) > 0 /\ Len(ancestors) \in Nat /\ Len(ancestors) > 0
  BY <1>1 DEF Base, Types, FramesSuffice
<1>3. Len(path) - 1 \in Nat /\ Len(path) - 1 < Len(path)
      /\ Len(ancestors) - 1 \in Nat /\ Len(ancestors) - 1 < Len(ancestors)
  BY <1>2
<1>4. /\ path' \in Seq(Names) /\ Len(path') = Len(path) - 1
  BY <1>1, <1>3, CutOff DEF Base, Types
<1>5. /\ ancestors' \in Seq(Nat) /\ Len(ancestors') = Len(ancestors) - 1
      /\ \A i \in 1..Len(ancestors') : ancestors'[i] = ancestors[i]
  BY <1>1, <1>3, CutOff DEF Base, Types
<1>6. url' \in Seq(Names \cup {File})
  <2>1. ancestors[Len(ancestors)] \in Nat
    BY <1>2 DEF Base, Types
  <2> QED BY <1>1, <2>1, CutOff DEF Base, Types, Chop
<1>7. FramesSuffice'
  BY <1>2, <1>4, <1>5 DEF Base, FramesSuffice
<1>8. kind' \in Kinds /\ error' \in BOOLEAN
  BY <1>1 DEF Base, Types
<1>9. Base'
  BY <1>4, <1>5, <1>6, <1>7, <1>8 DEF Base, Types
<1> QED BY <1>1, <1>2, <1>4, <1>5, <1>9

LEMMA InitInv == Init => Inv
<1> SUFFICES ASSUME Init PROVE Inv
  OBVIOUS
<1>1. kind \in Kinds /\ path = <<>> /\ url = <<>> /\ ancestors = <<>> /\ error = FALSE /\ listing = Kids(path)
  BY DEF Init, RootListing, W!Init
<1>2. Types
  <2>1. path \in Seq(Names) /\ ancestors \in Seq(Nat)
    BY <1>1
  <2>2. url \in Seq(Names \cup {File})
    BY <1>1
  <2>3. error \in BOOLEAN
    BY <1>1
  <2> QED BY <1>1, <2>1, <2>2, <2>3 DEF Types
<1>3. Located /\ FramesSuffice
  BY <1>1 DEF Located, FramesSuffice
<1> QED BY <1>1, <1>2, <1>3 DEF Inv, Base, InStep

LEMMA NextBase == Base /\ [Next]_vars => Base'
<1> SUFFICES ASSUME Base, [Next]_vars PROVE Base'
  OBVIOUS
<1>1. kind' = kind
  BY DEF Next, vars
<1> USE <1>1
<1>2. CASE StatFails
  BY <1>2, AppendFailsKeeps DEF StatFails, walk
<1>3. CASE ReadDir
  BY <1>3 DEF Base, Types, FramesSuffice, ReadDir, W!Enter
<1>4. CASE \E n \in Names : GoChild(n) \/ GoChildUnmasked(n)
  <2>1. PICK n \in Names : GoChild(n) \/ GoChildUnmasked(n)
    BY <1>4
  <2>2. error' \in {error, TRUE}
    BY <2>1 DEF GoChild, GoChildUnmasked
  <2>3. FramesSuffice'
    <3>1. Len(ancestors) \in Nat /\ Len(ancestors) >= Len(path)
      BY DEF Base, Types, FramesSuffice
    <3> QED BY <2>1, <3>1, GoChildPushes DEF FramesSuffice
  <2>4. error' \in BOOLEAN
    BY <2>2 DEF Base, Types
  <2> QED BY <2>1, <2>3, <2>4, GoChildPushes DEF Base, Types
<1>5. CASE \E n \in Names : GoChildRefused(n)
  BY <1>5 DEF Base, Types, FramesSuffice, GoChildRefused, W!Refuse, W!Try
<1>6. CASE \E n \in Names : GoChildNoMemory(n)
  BY <1>6, AppendFailsKeeps DEF GoChildNoMemory, W!Refuse, W!Try
<1>7. CASE GoParent
  BY <1>7, GoParentPops
<1>8. CASE TimedOut \/ Finish
  BY <1>8 DEF Base, Types, FramesSuffice, TimedOut, W!Exit, Finish, W!Finish
<1>9. CASE UNCHANGED vars
  BY <1>9 DEF Base, Types, FramesSuffice, vars
<1> QED BY <1>2, <1>3, <1>4, <1>5, <1>6, <1>7, <1>8, <1>9 DEF Next

-----------------------------------------------------------------------------
(* The walk's own types are those of WalkProofs, which do not depend on    *)
(* what a walker tells.                                                    *)
WP == INSTANCE WalkProofs

LEMMA NextType == Base /\ UrlTypeOK /\ [Next]_vars => UrlTypeOK'
<1> SUFFICES ASSUME Base, UrlTypeOK, [Next]_vars PROVE UrlTypeOK'
  OBVIOUS
<1>1. Base'
  BY NextBase
<1>2. \A p : Kids(p) \subseteq Names
  BY DEF Kids
<1>3. listing' \subseteq Names
  <2>1. ASSUME NEW n \in Names, GoChildRefused(n) PROVE listing' \subseteq Names
    BY <1>2, <2>1 DEF UrlTypeOK, GoChildRefused, AfterRefusal, Received, Kept
  <2>2. ASSUME NEW n \in Names, GoChildUnmasked(n) PROVE listing' \subseteq Names
    BY <2>2 DEF GoChildUnmasked
  <2> QED
    BY <1>2, <2>1, <2>2
    DEF UrlTypeOK, Next, vars, StatFails, ReadDir, GoChild, GoChildNoMemory, TimedOut, GoParent, Finish, Kept
<1>4. W!TypeOK'
  <2>1. W!TypeOK /\ WP!TypeOK
    BY DEF UrlTypeOK, W!TypeOK, WP!TypeOK, W!Path, WP!Path
  <2> SUFFICES WP!TypeOK'
    BY DEF W!TypeOK, WP!TypeOK, W!Path, WP!Path
  <2>2. ASSUME NEW kids \in SUBSET Names, W!Enter(kids) PROVE WP!TypeOK'
    BY <2>1, <2>2, SharePaths, WP!EnterType DEF W!Enter, WP!Enter, Path, WP!Path
  <2>3. ASSUME NEW n \in Names, W!Descend(n) \/ W!Refuse(n) PROVE WP!TypeOK'
    <3>1. WP!Descend(n) \/ WP!Refuse(n)
      BY <2>3 DEF W!Descend, WP!Descend, W!Refuse, WP!Refuse, W!Try, WP!Try, W!Rest, WP!Rest, W!RestWithout, WP!RestWithout
    <3> QED BY <2>1, <3>1, SharePaths, WP!DescendType, WP!RefuseType DEF Path, WP!Path
  <2>4. ASSUME W!Ascend PROVE WP!TypeOK'
    <3>1. WP!Ascend
      BY <2>4 DEF W!Ascend, WP!Ascend, W!Leaving, WP!Leaving, W!Rest, WP!Rest, W!Parent, WP!Parent
    <3> QED BY <2>1, <3>1, SharePaths, WP!AscendType DEF Path, WP!Path
  <2>5. CASE W!Exit \/ W!Finish \/ UNCHANGED walk
    BY <2>1, <2>5 DEF walk, W!Exit, W!Finish, WP!TypeOK
  <2>6. ReadDir => \E kids \in SUBSET Names : W!Enter(kids)
    BY DEF ReadDir, Listed, UrlTypeOK
  <2> QED
    BY <2>2, <2>3, <2>4, <2>5, <2>6
    DEF Next, vars, walk, StatFails, GoChild, GoChildUnmasked, GoChildRefused, GoChildNoMemory, TimedOut, GoParent, Finish
<1> QED BY <1>1, <1>3, <1>4 DEF Base, Types, UrlTypeOK

LEMMA InitType == Init => Base /\ UrlTypeOK
<1>1. Init => W!TypeOK
  BY DEF Init, W!Init, W!TypeOK, W!Path
<1>2. Init => Base /\ listing \subseteq Names
  BY InitInv DEF Inv, Init, RootListing, Kids
<1> QED BY <1>1, <1>2 DEF Base, Types, UrlTypeOK

-----------------------------------------------------------------------------
(* The walkers that make the listing of a directory anew stay in step.     *)
LEMMA GoChildInStep ==
  ASSUME "curl" \notin Kinds, Inv, NEW n \in Names, GoChild(n)
  PROVE  InStep' /\ listing' = Kids(path')
<1>1. /\ url' = Append(url, n) /\ path' = Append(path, n) /\ ~error /\ error' = error /\ listing' = Kids(url')
  BY DEF Inv, Base, Types, GoChild, W!Descend, Kept
<1>2. Located
  BY <1>1 DEF Inv, InStep
<1>3. url' = path'
  BY <1>1, <1>2 DEF Located
<1>4. Len(ancestors') = Len(path') /\ \A i \in 1..Len(path') : ancestors'[i] = i - 1
  BY <1>2, GoChildPushes DEF Inv, Located
<1> QED BY <1>1, <1>3, <1>4 DEF InStep, Located

LEMMA GoParentInStep == ASSUME Inv, kind' = kind, GoParent PROVE InStep'
<1>1. /\ path' = SubSeq(path, 1, Len(path) - 1) /\ url' = Chop(ancestors[Len(ancestors)])
      /\ error' \in {error, TRUE}
  BY DEF GoParent, Suspend, W!Ascend, W!Leaving, W!Parent
<1> SUFFICES ASSUME ~error' PROVE Located'
  BY DEF InStep
<1>2. Located
  BY <1>1 DEF Inv, Base, Types, InStep
<1>3. /\ Len(path) \in Nat \ {0} /\ Len(path') = Len(path) - 1
      /\ Len(ancestors') = Len(ancestors) - 1
      /\ \A i \in 1..Len(ancestors') : ancestors'[i] = ancestors[i]
  BY GoParentPops DEF Inv
<1>4. url = path /\ ancestors[Len(ancestors)] = Len(path) - 1 /\ Len(path) - 1 < Len(url)
  BY <1>2, <1>3 DEF Located
<1>5. url' = path'
  BY <1>1, <1>4 DEF Chop
<1>6. Len(ancestors') = Len(path')
  BY <1>2, <1>3 DEF Located
<1>7. ASSUME NEW i \in 1..Len(path') PROVE ancestors'[i] = i - 1
  BY <1>2, <1>3, <1>6 DEF Located
<1> QED BY <1>5, <1>6, <1>7 DEF Located

LEMMA NextInv == ASSUME "curl" \notin Kinds PROVE Inv /\ [Next]_vars => Inv'
<1> SUFFICES ASSUME Inv, [Next]_vars PROVE Inv'
  OBVIOUS
<1>1. kind' = kind /\ Base' /\ Base
  BY NextBase DEF Next, vars, Inv
<1> USE <1>1
<1>2. CASE StatFails
  BY <1>2, AppendFailsKeeps DEF Inv, StatFails, walk, Unmasked
<1>3. CASE ReadDir
  BY <1>3 DEF Inv, InStep, Located, ReadDir, W!Enter
<1>4. CASE \E n \in Names : GoChild(n) \/ GoChildUnmasked(n)
  BY <1>4, GoChildInStep DEF Inv, InStep, GoChildUnmasked, Unmasked
<1>5. CASE \E n \in Names : GoChildRefused(n)
  BY <1>5 DEF Inv, Base, Types, InStep, Located, GoChildRefused, W!Refuse, W!Try
<1>6. CASE \E n \in Names : GoChildNoMemory(n)
  BY <1>6, AppendFailsKeeps DEF Inv, GoChildNoMemory, W!Refuse, W!Try
<1>7. CASE TimedOut
  BY <1>7 DEF Inv, InStep, Located, TimedOut, W!Exit
<1>8. CASE GoParent
  BY <1>8, GoParentPops, GoParentInStep DEF Inv
<1>9. CASE Finish
  BY <1>9 DEF Inv, InStep, Located, Finish, W!Finish
<1>10. CASE UNCHANGED vars
  BY <1>10 DEF Inv, InStep, Located, vars, Unmasked
<1> QED BY <1>2, <1>3, <1>4, <1>5, <1>6, <1>7, <1>8, <1>9, <1>10 DEF Next

-----------------------------------------------------------------------------
(* Once memory has failed on Windows it stays so.                          *)
LEMMA StaysUnmasked == Inv /\ Unmasked /\ [Next]_vars => Unmasked'
<1> SUFFICES ASSUME Inv, Unmasked, [Next]_vars PROVE Unmasked'
  OBVIOUS
<1>1. kind' = kind /\ error
  BY DEF Next, vars, Unmasked
<1>2. error'
  BY <1>1 DEF Next, vars, StatFails, ReadDir, GoChild, GoChildUnmasked, GoChildRefused, GoChildNoMemory, AppendFails,
              TimedOut, GoParent, Suspend, Finish
<1> QED BY <1>1, <1>2 DEF Unmasked

(* A call of the walker is a step of the walk, or none, but for the        *)
(* directory that is asked for without a mask.                             *)
Astray == Unmasked' /\ "enter" \in {pc, pc'}
LEMMA StepIsWalk == ASSUME Inv PROVE [Next]_vars => [W!Next \/ Astray]_walk
<1> SUFFICES ASSUME [Next]_vars PROVE W!Next \/ Astray \/ UNCHANGED walk
  BY DEF walk
<1>1. CASE StatFails
  BY <1>1 DEF StatFails
<1>2. CASE ReadDir
  <2>1. pc = "enter" /\ (Unmasked => Unmasked')
    BY <1>2, StaysUnmasked DEF ReadDir, W!Enter, Inv, Next, vars
  <2>2. CASE Unmasked
    BY <2>1, <2>2 DEF Astray
  <2>3. CASE ~Unmasked
    BY <1>2, <2>1, <2>3 DEF ReadDir, Inv, Kids, Listed, W!Kids, W!Listed, W!Enter, W!Read, W!Next
  <2> QED BY <2>2, <2>3
<1>3. CASE \E n \in Names : GoChild(n)
  BY <1>3 DEF GoChild, Inv, InStep, Located, W!Next
<1>4. CASE \E n \in Names : GoChildUnmasked(n)
  BY <1>4 DEF GoChildUnmasked, W!Descend, Astray, Unmasked, Next, vars
<1>5. CASE \E n \in Names : GoChildRefused(n) \/ GoChildNoMemory(n)
  BY <1>5 DEF GoChildRefused, GoChildNoMemory, W!Next
<1>6. CASE TimedOut \/ GoParent \/ Finish
  BY <1>6 DEF TimedOut, GoParent, Finish, W!Next
<1>7. CASE UNCHANGED vars
  BY <1>7 DEF vars, walk
<1> QED BY <1>1, <1>2, <1>3, <1>4, <1>5, <1>6, <1>7 DEF Next

(* A step of the walk is one of the walk that WalkProofs is about.         *)
LEMMA SameWalk == [W!Next]_walk => [WP!Next]_(WP!vars)
<1> SUFFICES ASSUME W!Next PROVE WP!Next
  BY DEF walk, WP!vars
<1> USE DEF W!Next, WP!Next
<1>1. CASE W!Read
  BY <1>1 DEF W!Read, WP!Read, W!Enter, WP!Enter, W!Listed, WP!Listed, W!Kids, WP!Kids
<1>2. CASE \E n \in Names : (Append(path, n) \in Share /\ W!Descend(n)) \/ W!Refuse(n)
  BY <1>2 DEF W!Descend, WP!Descend, W!Refuse, WP!Refuse, W!Try, WP!Try, W!Rest, WP!Rest, W!RestWithout, WP!RestWithout
<1>3. CASE W!Ascend \/ W!AscendFails \/ W!Exit \/ W!Finish
  BY <1>3
  DEF W!Ascend, WP!Ascend, W!AscendFails, WP!AscendFails, W!Leaving, WP!Leaving, W!Rest, WP!Rest, W!Parent, WP!Parent,
      W!AddedTree, WP!AddedTree, W!Exit, WP!Exit, W!Finish, WP!Finish
<1> QED BY <1>1, <1>2, <1>3

(* So everything that was not refused or cut off is read or still to come. *)
Complete == Unmasked \/ WP!FullInv

LEMMA InitComplete == Init => Complete
  BY SharePaths, WP!InitFull DEF Init, W!Init, WP!Init, Path, WP!Path, Complete

LEMMA NextComplete == Inv /\ Complete /\ [Next]_vars => Complete'
<1> SUFFICES ASSUME Inv, Complete, [Next]_vars PROVE Complete'
  OBVIOUS
<1>1. CASE Unmasked
  BY <1>1, StaysUnmasked DEF Complete
<1>2. CASE Astray
  BY <1>2 DEF Astray, Complete
<1>3. CASE WP!FullInv /\ [W!Next]_walk
  BY <1>3, SameWalk, SharePaths, WP!NextFull DEF Path, WP!Path, Complete
<1> QED BY <1>1, <1>2, <1>3, StepIsWalk DEF Complete

-----------------------------------------------------------------------------
(* The programs do nothing with the walker that UrlWalk does not have.     *)
LEMMA ProgramStep == [ScanNext]_scanVars => [Next]_vars
  BY DEF ScanNext, scanVars, vars, Usage, Connect, ConnectFails, Probe, NoOldTree, NoRoot, Begin, WalkOn, Return, Exits

THEOREM ProgramWalks == ScanSpec => Spec
<1>1. ScanInit => Init
  BY DEF ScanInit
<1> QED BY <1>1, ProgramStep, PTL DEF ScanSpec, Spec

(* SAFETY: the stack never underflows, libcurl's walker's included.        *)
THEOREM StackSuffices == ScanSpec => []FramesSuffice
<1>1. Base => FramesSuffice
  BY DEF Base
<1>2. Init => Base
  BY InitInv DEF Inv
<1> QED BY <1>1, <1>2, NextBase, ProgramWalks, PTL DEF Spec

(* TypeOK for every share, every kind of walker and all command lines:     *)
(* what is told to the engine are names, and it keeps one set of untried   *)
(* subdirectories for every directory on the way from the root, whatever   *)
(* fails.                                                                  *)
ProgramTypes ==
  /\ mode \in {"success", "failure", "lookup", "full", "diff", "reverse"}
  /\ oldtree \in {"good", "broken", "missing"}
  /\ program \in {"started", "connected", "walking"} \cup Statuses

THEOREM TypeCorrect == ScanSpec => []TypeOK
<1>1. ScanInit => ProgramTypes
  <2>1. \A args : Asked(args) \in {"success", "failure", "lookup", "full", "diff", "reverse"}
    BY DEF Asked
  <2> QED BY <2>1 DEF ScanInit, ProgramTypes
<1>2. ProgramTypes /\ [ScanNext]_scanVars => ProgramTypes'
  <2> USE DEF ProgramTypes, Statuses
  <2>1. ProgramTypes /\ ScanNext => ProgramTypes'
    BY DEF ScanNext, Usage, Connect, ConnectFails, Unconnected, Probe, NoOldTree, NoRoot, Ready, Begin, WalkOn, Return, Exits, Stays
  <2>2. ProgramTypes /\ UNCHANGED scanVars => ProgramTypes'
    BY DEF scanVars
  <2> QED BY <2>1, <2>2
<1>3. ScanSpec => []ProgramTypes
  BY <1>1, <1>2, PTL DEF ScanSpec
<1>4. Spec => []UrlTypeOK
  BY InitType, NextBase, NextType, PTL DEF Spec
<1>5. UrlTypeOK /\ ProgramTypes => TypeOK
  BY DEF TypeOK, ProgramTypes
<1> QED BY <1>3, <1>4, <1>5, ProgramWalks, PTL

(* SAFETY: all walkers but libcurl's read where the engine is.             *)
THEOREM InRightDirectory == ASSUME "curl" \notin Kinds PROVE ScanSpec => []ReadsWhereItIs
<1>1. Inv => ReadsWhereItIs
  BY DEF Inv, InStep, Located, ReadsWhereItIs
<1> QED BY <1>1, InitInv, NextInv, ProgramWalks, PTL DEF Spec

(* REFINEMENT: these walkers keep what dt.h asks of walkers, so that what  *)
(* holds of the walk holds of them, but for a directory that is asked for  *)
(* without a mask.                                                         *)
THEOREM ImplementsWalk == ASSUME "curl" \notin Kinds PROVE ScanSpec => WalkSpec
<1>1. Init => W!Init
  BY DEF Init
<1>2. Inv /\ [Next]_vars => [W!Next \/ (Unmasked' /\ "enter" \in {pc, pc'})]_walk
  BY StepIsWalk DEF Astray
<1> QED BY <1>1, <1>2, InitInv, NextInv, ProgramWalks, PTL DEF Spec, WalkSpec

(* Who exits with success has not begun, or has come to the end.           *)
Ended ==
  /\ program \in {"started", "connected"} => entered = {}
  /\ program = "success" /\ mode \in {"full", "diff", "reverse"} => entered = {} \/ pc = "done"

(* SuccessIsComplete: a scan that exits with success has read every        *)
(* directory of the share that was not refused, and does not lie below one *)
(* refused or cut off, over any sequence of failing requests and           *)
(* allocations, for every share and all command lines.                     *)
THEOREM SuccessMeansAll == ASSUME "curl" \notin Kinds PROVE ScanSpec => []SuccessIsComplete
<1>1. ScanInit => Ended
  BY DEF ScanInit, Init, W!Init, Ended
<1>2. Ended /\ [ScanNext]_scanVars => Ended'
  <2>1. Ended /\ (Connect \/ Begin) => Ended'
    BY DEF Ended, Connect, Begin, vars, Stays
  <2>2. Ended /\ (Usage \/ ConnectFails \/ Probe \/ NoOldTree \/ NoRoot \/ Return) => Ended'
    BY DEF Ended, Usage, ConnectFails, Unconnected, Probe, NoOldTree, NoRoot, Ready, Return, Exits, vars, Stays
  <2>3. WalkOn => Ended'
    BY DEF Ended, WalkOn
  <2>4. Ended /\ UNCHANGED scanVars => Ended'
    BY DEF Ended, scanVars
  <2> QED BY <2>1, <2>2, <2>3, <2>4 DEF ScanNext
<1>3. Complete /\ Ended => SuccessIsComplete
  <2> SUFFICES ASSUME WP!FullInv, pc = "done", NEW p \in Share PROVE p \in entered \/ W!Excused(p)
    BY DEF Complete, Ended, SuccessIsComplete
  <2>1. WP!NothingForgotten
    BY SharePaths, WP!FullAtTheEnd DEF Path, WP!Path
  <2> QED BY <2>1 DEF WP!NothingForgotten, W!Excused, WP!Excused, W!Prefix, WP!Prefix
<1>4. Spec => []Complete
  BY InitInv, NextInv, InitComplete, NextComplete, PTL DEF Spec
<1>5. ScanSpec => []Ended
  BY <1>1, <1>2, PTL DEF ScanSpec
<1> QED BY <1>3, <1>4, <1>5, ProgramWalks, PTL
=============================================================================
