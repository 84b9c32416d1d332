----------------------------- MODULE SpiderProofs -----------------------------
(***************************************************************************)
(* The safety of Spider for any shares, spiders, lookups and bounds: the   *)
(* inductive invariant IInv, and from it the invariants of Spider, the     *)
(* ownership of the saved documents and the refinement of Catalogue.       *)
(***************************************************************************)
EXTENDS Spider, TLAPS

HasOutput == {"scanned", "updated", "moved", "created", "saved"}
HasRows == {"updated", "moved", "created", "saved"}

(* A share without a row has no catalogue and no hash; a share with one    *)
(* has at most the result of one of its scans, the one its hash is of.     *)
RowInv(s) ==
  /\ tid[s] = 0 <=> catalogue[s] = Absent
  /\ tid[s] = 0 => hash[s] = None
  /\ hash[s] # None => catalogue[s] = hash[s].listing
  /\ upto[s] <= Len(seen[s])

(* A spider past Select works on a share that exists; from Lock on it owns *)
(* the row, which is the one it selected and has the hash it read.         *)
OwnerInv(p) ==
  /\ pc[p] # "idle" => job[p].share \in Shares /\ job[p].id # 0
  /\ pc[p] \in InTransaction => /\ treeLock[job[p].share] = p
                                /\ tid[job[p].share] = job[p].id
                                /\ job[p].oldhash = hash[job[p].share]
  /\ pc[p] \in {"scanning"} \cup HasOutput /\ job[p].patch => job[p].oldhash # None

(* The document it got is of the latest scan of the share, and the rows it *)
(* is about to commit are those of the document.                           *)
OutputInv(p) ==
  LET s == job[p].share IN
  /\ pc[p] \in HasOutput => /\ IsDoc(job[p].out)
                            /\ job[p].scan \in 1..Len(seen[s])
                            /\ seen[s][job[p].scan] = job[p].out.listing
                            /\ job[p].scan > upto[s]
  /\ pc[p] \in HasRows => job[p].work = job[p].out.listing

(* A running DELETE holds the rows of the shares it deletes.               *)
DeleteInv(l) ==
  lpc[l] = "deleting" => \A s \in doomed[l] : shareLock[s] = l /\ tid[s] # 0

IInv == /\ TypeOK
        /\ \A s \in Shares : RowInv(s)
        /\ \A p \in Spiders : OwnerInv(p) /\ OutputInv(p)
        /\ \A l \in Lookups : DeleteInv(l)
-------------------------------------------------------------------------------
USE Sentinels
USE DEF db, locks, spiderVars, lookupVars, counters, history, IInv, TypeOK, Goto,
        InTransaction, HasOutput, HasRows

LEMMA NoJobOK == JobOK(NoJob) /\ NoJob.share = None /\ NoJob.patch = FALSE
BY DEF JobOK, NoJob

LEMMA InitIInv == Init => IInv
<1>. SUFFICES ASSUME Init PROVE IInv
  OBVIOUS
<1>1. TypeOK
  BY NoJobOK DEF Init
<1>2. \A s \in Shares : RowInv(s)
  BY DEF Init, RowInv
<1>3. \A p \in Spiders : OwnerInv(p) /\ OutputInv(p)
  BY DEF Init, OwnerInv, OutputInv
<1>4. \A l \in Lookups : DeleteInv(l)
  BY DEF Init, DeleteInv
<1>. QED BY <1>1, <1>2, <1>3, <1>4

(* The steps of spiders that end the transaction and leave the rows alone. *)
LEMMA ReleasePreserves ==
  ASSUME IInv, NEW p \in Spiders, Release(p),
         UNCHANGED <<catalogue, tid, online, hash, lookupVars, counters, history>>,
         due' \in [Shares -> BOOLEAN],
         save' = save \/ \E s \in Shares : save' = [save EXCEPT ![s] = None]
  PROVE  IInv'
<1>1. TypeOK'
  <2>1. DOMAIN save' = Shares /\ \A s \in Shares : save'[s] # None => save'[s] = save[s]
    OBVIOUS
  <2>2. /\ DOMAIN job' = Spiders
        /\ \A q \in Spiders : DOMAIN job'[q] = DOMAIN NoJob /\ JobOK(job'[q])
    BY NoJobOK DEF Release
  <2>. QED BY <2>1, <2>2 DEF Release
<1>2. \A s \in Shares : RowInv(s)'
  BY DEF RowInv
<1>3. \A q \in Spiders : OwnerInv(q)' /\ OutputInv(q)'
  BY DEF Release, OwnerInv, OutputInv
<1>4. \A l \in Lookups : DeleteInv(l)'
  BY DEF Release, DeleteInv
<1>. QED BY <1>1, <1>2, <1>3, <1>4

(* The steps that only move on inside the transaction, and those that      *)
(* change the saved document.                                              *)
LEMMA AdvancePreserves ==
  ASSUME IInv, NEW p \in Spiders, NEW to \in InTransaction,
         pc[p] \in InTransaction, pc' = [pc EXCEPT ![p] = to],
         to # "scanning",
         to \in HasOutput => pc[p] \in HasOutput,
         to \in HasRows => pc[p] \in HasRows,
         UNCHANGED <<db, locks, job, lookupVars, counters, history>>,
         NEW doc, doc # None => doc = Torn \/ IsDoc(doc),
         save' = save \/ \E s \in Shares : save' = [save EXCEPT ![s] = doc]
  PROVE  IInv'
<1>1. TypeOK'
  <2>1. DOMAIN save' = Shares /\ \A s \in Shares : save'[s] # None => save'[s] = Torn \/ IsDoc(save'[s])
    OBVIOUS
  <2>. QED BY <2>1
<1>2. \A s \in Shares : RowInv(s)'
  BY DEF RowInv
<1>3. \A q \in Spiders : OwnerInv(q)' /\ OutputInv(q)'
  BY DEF OwnerInv, OutputInv
<1>4. \A l \in Lookups : DeleteInv(l)'
  BY DEF DeleteInv
<1>. QED BY <1>1, <1>2, <1>3, <1>4

-------------------------------------------------------------------------------
(* The steps of a spider, one by one.                                      *)

LEMMA SelectPreserves ==
  ASSUME IInv, NEW p \in Spiders, NEW s \in Shares, Select(p, s) PROVE IInv'
<1>1. job'[p] = [NoJob EXCEPT !.share = s, !.id = tid[s]]
  BY DEF Select
<1>2. JobOK(job'[p]) /\ DOMAIN job'[p] = DOMAIN NoJob /\ job'[p].share = s /\ job'[p].id = tid[s]
  BY <1>1 DEF JobOK, NoJob
<1>3. TypeOK'
  BY <1>2 DEF Select
<1>4. \A t \in Shares : RowInv(t)'
  BY DEF Select, RowInv
<1>5. \A q \in Spiders : OwnerInv(q)' /\ OutputInv(q)'
  BY <1>2 DEF Select, OwnerInv, OutputInv
<1>6. \A l \in Lookups : DeleteInv(l)'
  BY DEF Select, DeleteInv
<1>. QED BY <1>3, <1>4, <1>5, <1>6

LEMMA ClaimPreserves == ASSUME IInv, NEW p \in Spiders, Claim(p) PROVE IInv'
<1>1. /\ DOMAIN job' = Spiders
      /\ \A q \in Spiders : DOMAIN job'[q] = DOMAIN NoJob /\ JobOK(job'[q])
  BY NoJobOK DEF Claim
<1>2. TypeOK'
  BY <1>1 DEF Claim
<1>3. \A s \in Shares : RowInv(s)'
  BY DEF Claim, RowInv
<1>4. \A q \in Spiders : OwnerInv(q)' /\ OutputInv(q)'
  <2>1. CASE pc' = [pc EXCEPT ![p] = "claimed"] /\ job' = job
    BY <2>1 DEF Claim, OwnerInv, OutputInv
  <2>2. CASE pc' = [pc EXCEPT ![p] = "idle"] /\ job' = [job EXCEPT ![p] = NoJob]
    BY <2>2 DEF Claim, OwnerInv, OutputInv
  <2>. QED BY <2>1, <2>2 DEF Claim
<1>5. \A l \in Lookups : DeleteInv(l)'
  BY DEF Claim, DeleteInv
<1>. QED BY <1>2, <1>3, <1>4, <1>5

LEMMA LockPreserves == ASSUME IInv, NEW p \in Spiders, Lock(p) PROVE IInv'
<1>1. TypeOK'
  BY DEF Lock, OwnerInv, JobOK
<1>2. \A s \in Shares : RowInv(s)'
  BY DEF Lock, RowInv
<1>3. \A q \in Spiders : OwnerInv(q)' /\ OutputInv(q)'
  BY DEF Lock, OwnerInv, OutputInv, NoJob
<1>4. \A l \in Lookups : DeleteInv(l)'
  BY DEF Lock, DeleteInv
<1>. QED BY <1>1, <1>2, <1>3, <1>4

LEMMA PreparePreserves == ASSUME IInv, NEW p \in Spiders, Prepare(p) PROVE IInv'
<1>1. \A q \in Spiders : /\ job'[q] = IF q = p THEN [job[p] EXCEPT !.patch = job'[p].patch]
                                               ELSE job[q]
                         /\ job'[p].patch = (job[p].oldhash # None /\ save[job[p].share] # None)
  BY DEF Prepare, NoJob
<1>2. job'[p].patch \in BOOLEAN /\ (job'[p].patch => job[p].oldhash # None)
  BY <1>1
<1>3. DOMAIN job' = Spiders /\ pc' = [pc EXCEPT ![p] = "scanning"] /\ pc[p] = "locked"
  BY DEF Prepare
<1>4. TypeOK'
  <2>1. \A q \in Spiders : DOMAIN job'[q] = DOMAIN NoJob
    BY <1>1
  <2>2. /\ job'[p].share = job[p].share /\ job'[p].id = job[p].id
        /\ job'[p].scan = job[p].scan /\ job'[p].work = job[p].work
    BY <1>1 DEF NoJob
  <2>3. JobOK(job'[p])
    BY <1>2, <2>2 DEF JobOK
  <2>. QED BY <1>1, <1>3, <2>1, <2>3 DEF Prepare
<1>5. \A s \in Shares : RowInv(s)'
  BY DEF Prepare, RowInv
<1>6. \A q \in Spiders : OwnerInv(q)' /\ OutputInv(q)'
  <2>1. \A q \in Spiders : /\ job'[q].share = job[q].share /\ job'[q].id = job[q].id
                           /\ job'[q].oldhash = job[q].oldhash
                           /\ q # p => job'[q] = job[q]
    BY <1>1 DEF NoJob
  <2>. QED BY <1>2, <1>3, <2>1 DEF Prepare, OwnerInv, OutputInv
<1>7. \A l \in Lookups : DeleteInv(l)'
  BY DEF Prepare, DeleteInv
<1>. QED BY <1>4, <1>5, <1>6, <1>7

LEMMA ScannerSucceedsPreserves ==
  ASSUME IInv, NEW p \in Spiders, NEW l \in Listing, ScannerSucceeds(p, l) PROVE IInv'
<1>1. TypeOK'
  BY DEF ScannerSucceeds, OwnerInv, JobOK, NoJob
<1>2. \A s \in Shares : RowInv(s)'
  BY DEF ScannerSucceeds, OwnerInv, RowInv
<1>3. \A q \in Spiders : OwnerInv(q)'
  BY DEF ScannerSucceeds, OwnerInv, NoJob
<1>4. \A q \in Spiders : OutputInv(q)'
  BY DEF ScannerSucceeds, OwnerInv, OutputInv, RowInv, IsDoc, Doc, NoJob
<1>5. \A k \in Lookups : DeleteInv(k)'
  BY DEF ScannerSucceeds, DeleteInv
<1>. QED BY <1>1, <1>2, <1>3, <1>4, <1>5

(* The heart of the matter: in patch mode the base of the patch is the     *)
(* document whose md5 the row has, so the patch meets the rows it was made *)
(* against.                                                                *)
LEMMA UpdateIsExact ==
  ASSUME IInv, NEW p \in Spiders, pc[p] = "scanned", NEW tooLong \in BOOLEAN,
         UsePatch(p, tooLong)
  PROVE  Patched(catalogue[job[p].share], job[p].out) = job[p].out.listing
<1>1. job[p].out.base = hash[job[p].share] /\ hash[job[p].share] # None
  BY DEF UsePatch, OwnerInv
<1>2. catalogue[job[p].share] = job[p].out.base.listing
  BY <1>1 DEF OwnerInv, RowInv
<1>. QED BY <1>1, <1>2 DEF Patched

LEMMA UpdatePreserves == ASSUME IInv, NEW p \in Spiders, Update(p) PROVE IInv'
<1>1. job' = [job EXCEPT ![p].work = job[p].out.listing]
  BY UpdateIsExact DEF Update
<1>2. pc[p] = "scanned" /\ pc' = [pc EXCEPT ![p] = "updated"]
  BY DEF Update
<1>3. TypeOK'
  BY <1>1, <1>2 DEF Update, OutputInv, IsDoc, JobOK, NoJob
<1>4. \A s \in Shares : RowInv(s)'
  BY DEF Update, RowInv
<1>5. \A q \in Spiders : OwnerInv(q)' /\ OutputInv(q)'
  BY <1>1, <1>2 DEF Update, OwnerInv, OutputInv, IsDoc, NoJob
<1>6. \A l \in Lookups : DeleteInv(l)'
  BY DEF Update, DeleteInv
<1>. QED BY <1>3, <1>4, <1>5, <1>6

LEMMA UpdateViolatesPreserves ==
  ASSUME IInv, NEW p \in Spiders, UpdateViolates(p) PROVE IInv'
<1>1. TypeOK'
  BY DEF UpdateViolates
<1>2. \A s \in Shares : RowInv(s)'
  BY DEF UpdateViolates, RowInv
<1>3. \A q \in Spiders : OwnerInv(q)' /\ OutputInv(q)'
  BY DEF UpdateViolates, OwnerInv, OutputInv
<1>4. \A l \in Lookups : DeleteInv(l)'
  BY DEF UpdateViolates, DeleteInv
<1>. QED BY <1>1, <1>2, <1>3, <1>4

LEMMA FinishPreserves == ASSUME IInv, NEW p \in Spiders, Finish(p) PROVE IInv'
<1>1. PICK s \in Shares : s = job[p].share
  BY DEF Finish, OwnerInv
<1>2. /\ job[p].work = job[p].out.listing /\ IsDoc(job[p].out)
      /\ job[p].scan \in 1..Len(seen[s]) /\ tid[s] # 0 /\ treeLock[s] = p
  BY <1>1 DEF Finish, OwnerInv, OutputInv
<1>3. TypeOK'
  <2>1. /\ DOMAIN job' = Spiders
        /\ \A q \in Spiders : DOMAIN job'[q] = DOMAIN NoJob /\ JobOK(job'[q])
    BY NoJobOK DEF Finish, Release
  <2>2. DOMAIN hash' = Shares /\ \A t \in Shares : hash'[t] # None => IsDoc(hash'[t])
    BY <1>1, <1>2 DEF Finish
  <2>. QED BY <1>1, <1>2, <2>1, <2>2 DEF Finish, Release, IsDoc
<1>4. \A t \in Shares : RowInv(t)'
  BY <1>1, <1>2 DEF Finish, RowInv, IsDoc
<1>5. \A q \in Spiders : OwnerInv(q)' /\ OutputInv(q)'
  BY <1>1, <1>2 DEF Finish, Release, OwnerInv, OutputInv
<1>6. \A l \in Lookups : DeleteInv(l)'
  BY DEF Finish, Release, DeleteInv
<1>. QED BY <1>3, <1>4, <1>5, <1>6

-------------------------------------------------------------------------------
(* The steps of lookups and of the surroundings.                           *)

LEMMA InsertPreserves ==
  ASSUME IInv, NEW l \in Lookups, NEW s \in Shares, Insert(l, s) PROVE IInv'
<1>1. TypeOK'
  BY DEF Insert
<1>2. \A t \in Shares : RowInv(t)'
  BY DEF Insert, RowInv
<1>3. \A q \in Spiders : OwnerInv(q)' /\ OutputInv(q)'
  BY DEF Insert, OwnerInv, OutputInv
<1>4. \A k \in Lookups : DeleteInv(k)'
  BY DEF Insert, DeleteInv
<1>. QED BY <1>1, <1>2, <1>3, <1>4

LEMMA DeleteLocksPreserves ==
  ASSUME IInv, NEW l \in Lookups, NEW V \in SUBSET Shares, DeleteLocks(l, V) PROVE IInv'
<1>1. TypeOK'
  BY DEF DeleteLocks
<1>2. \A t \in Shares : RowInv(t)'
  BY DEF DeleteLocks, RowInv
<1>3. \A q \in Spiders : OwnerInv(q)' /\ OutputInv(q)'
  BY DEF DeleteLocks, OwnerInv, OutputInv
<1>4. \A k \in Lookups : DeleteInv(k)'
  BY DEF DeleteLocks, DeleteInv
<1>. QED BY <1>1, <1>2, <1>3, <1>4

LEMMA DeleteCascadesPreserves ==
  ASSUME IInv, NEW l \in Lookups, DeleteCascades(l) PROVE IInv'
<1>1. TypeOK'
  <2>1. /\ catalogue' \in [Shares -> Listing \cup {Nothing, Absent}]
        /\ tid' \in [Shares -> Nat]
        /\ online' \in [Shares -> BOOLEAN] /\ due' \in [Shares -> BOOLEAN]
    BY DEF DeleteCascades
  <2>2. /\ DOMAIN hash' = Shares /\ \A s \in Shares : hash'[s] # None => hash'[s] = hash[s]
        /\ shareLock' \in [Shares -> Lookups \cup {None}]
    BY DEF DeleteCascades
  <2>3. seen' \in [Shares -> Seq(Listing)] /\ upto' \in [Shares -> Nat]
    <3>1. <<>> \in Seq(Listing)
      OBVIOUS
    <3>. QED BY <3>1 DEF DeleteCascades
  <2>. QED BY <2>1, <2>2, <2>3 DEF DeleteCascades
<1>2. \A t \in Shares : RowInv(t)'
  BY DEF DeleteCascades, RowInv
<1>3. \A q \in Spiders : pc[q] \in InTransaction => job[q].share \notin doomed[l]
  BY DEF DeleteCascades, OwnerInv
<1>4. \A q \in Spiders : OwnerInv(q)' /\ OutputInv(q)'
  BY <1>3 DEF DeleteCascades, OwnerInv, OutputInv
<1>5. \A k \in Lookups : DeleteInv(k)'
  BY DEF DeleteCascades, DeleteInv
<1>. QED BY <1>1, <1>2, <1>4, <1>5

LEMMA UnlinkPreserves ==
  ASSUME IInv, NEW l \in Lookups, NEW s \in Shares, Unlink(l, s) PROVE IInv'
<1>1. TypeOK'
  BY DEF Unlink
<1>2. \A t \in Shares : RowInv(t)'
  BY DEF Unlink, RowInv
<1>3. \A q \in Spiders : OwnerInv(q)' /\ OutputInv(q)'
  BY DEF Unlink, OwnerInv, OutputInv
<1>4. \A k \in Lookups : DeleteInv(k)'
  BY DEF Unlink, DeleteInv
<1>. QED BY <1>1, <1>2, <1>3, <1>4

LEMMA LookupAbortsPreserves ==
  ASSUME IInv, NEW l \in Lookups, LookupAborts(l) PROVE IInv'
<1>1. TypeOK'
  BY DEF LookupAborts
<1>2. \A t \in Shares : RowInv(t)'
  BY DEF LookupAborts, RowInv
<1>3. \A q \in Spiders : OwnerInv(q)' /\ OutputInv(q)'
  BY DEF LookupAborts, OwnerInv, OutputInv
<1>4. \A k \in Lookups : DeleteInv(k)'
  BY DEF LookupAborts, DeleteInv
<1>. QED BY <1>1, <1>2, <1>3, <1>4

LEMMA SurroundingsPreserve ==
  ASSUME IInv, NEW s \in Shares, Ping(s) \/ DeleteSave(s) \/ Tick(s) PROVE IInv'
<1>1. CASE Ping(s)
  <2>1. TypeOK'
    BY <1>1 DEF Ping
  <2>2. (\A q \in Spiders : OwnerInv(q)' /\ OutputInv(q)') /\ \A t \in Shares : RowInv(t)'
    BY <1>1 DEF Ping, OwnerInv, OutputInv, RowInv
  <2>. QED BY <1>1, <2>1, <2>2 DEF Ping, DeleteInv
<1>2. CASE DeleteSave(s)
  <2>1. TypeOK'
    BY <1>2 DEF DeleteSave
  <2>2. (\A q \in Spiders : OwnerInv(q)' /\ OutputInv(q)') /\ \A t \in Shares : RowInv(t)'
    BY <1>2 DEF DeleteSave, OwnerInv, OutputInv, RowInv
  <2>. QED BY <1>2, <2>1, <2>2 DEF DeleteSave, DeleteInv
<1>3. CASE Tick(s)
  <2>1. TypeOK'
    BY <1>3 DEF Tick
  <2>2. (\A q \in Spiders : OwnerInv(q)' /\ OutputInv(q)') /\ \A t \in Shares : RowInv(t)'
    BY <1>3 DEF Tick, OwnerInv, OutputInv, RowInv
  <2>. QED BY <1>3, <2>1, <2>2 DEF Tick, DeleteInv
<1>. QED BY <1>1, <1>2, <1>3

-------------------------------------------------------------------------------
LEMMA AbortPreserves == ASSUME IInv, NEW p \in Spiders, Abort(p) PROVE IInv'
BY ReleasePreserves DEF Abort

LEMMA SpiderStepPreserves == ASSUME IInv, NEW p \in Spiders, SpiderStep(p) PROVE IInv'
<1>1. CASE \E s \in Shares : Select(p, s)
  BY <1>1, SelectPreserves
<1>2. CASE Claim(p)
  BY <1>2, ClaimPreserves
<1>3. CASE Lock(p)
  BY <1>3, LockPreserves
<1>4. CASE LockFails(p) \/ ResolveFails(p) \/ TooManyLines(p)
  BY <1>4, ReleasePreserves DEF LockFails, ResolveFails, TooManyLines
<1>5. CASE Prepare(p)
  BY <1>5, PreparePreserves
<1>6. CASE \E l \in Listing : ScannerSucceeds(p, l)
  BY <1>6, ScannerSucceedsPreserves
<1>7. CASE ScannerFails(p)
  BY <1>7, AdvancePreserves DEF ScannerFails
<1>8. CASE Postpone(p)
  BY <1>8, ReleasePreserves DEF Postpone
<1>9. CASE Update(p)
  BY <1>9, UpdatePreserves
<1>10. CASE UpdateViolates(p)
  BY <1>10, UpdateViolatesPreserves
<1>11. CASE Quarantine(p)
  BY <1>11, ReleasePreserves DEF Quarantine, OwnerInv
<1>12. CASE MoveSave(p)
  BY <1>12, AdvancePreserves DEF MoveSave, OwnerInv
<1>13. CASE CreateSave(p)
  BY <1>13, AdvancePreserves DEF CreateSave, OwnerInv
<1>14. CASE WriteSave(p)
  BY <1>14, AdvancePreserves DEF WriteSave, OwnerInv, OutputInv
<1>15. CASE SaveFails(p)
  BY <1>15, AdvancePreserves DEF SaveFails
<1>16. CASE Finish(p)
  BY <1>16, FinishPreserves
<1>. QED BY <1>1, <1>2, <1>3, <1>4, <1>5, <1>6, <1>7, <1>8, <1>9, <1>10, <1>11,
            <1>12, <1>13, <1>14, <1>15, <1>16 DEF SpiderStep

LEMMA NextIInv == IInv /\ [Next]_vars => IInv'
<1>. SUFFICES ASSUME IInv, [Next]_vars PROVE IInv'
  OBVIOUS
<1>1. CASE \E p \in Spiders : SpiderStep(p) \/ Abort(p)
  BY <1>1, SpiderStepPreserves, AbortPreserves
<1>2. CASE \E l \in Lookups, s \in Shares : Insert(l, s) \/ Unlink(l, s)
  BY <1>2, InsertPreserves, UnlinkPreserves
<1>3. CASE \E l \in Lookups, V \in SUBSET Shares : DeleteLocks(l, V)
  BY <1>3, DeleteLocksPreserves
<1>4. CASE \E l \in Lookups : DeleteCascades(l) \/ LookupAborts(l)
  BY <1>4, DeleteCascadesPreserves, LookupAbortsPreserves
<1>5. CASE \E p \in Spiders, l \in Lookups : BreakDeadlock(p, l)
  BY <1>5, AbortPreserves, LookupAbortsPreserves DEF BreakDeadlock
<1>6. CASE \E s \in Shares : Ping(s) \/ DeleteSave(s) \/ Tick(s)
  BY <1>6, SurroundingsPreserve
<1>7. CASE UNCHANGED vars
  <2>1. \A q \in Spiders : OwnerInv(q)' /\ OutputInv(q)'
    BY <1>7 DEF vars, OwnerInv, OutputInv
  <2>2. (\A s \in Shares : RowInv(s)') /\ \A l \in Lookups : DeleteInv(l)'
    BY <1>7 DEF vars, RowInv, DeleteInv
  <2>. QED BY <1>7, <2>1, <2>2 DEF vars
<1>. QED BY <1>1, <1>2, <1>3, <1>4, <1>5, <1>6, <1>7 DEF Next

THEOREM Inductive == Spec => []IInv
BY InitIInv, NextIInv, PTL DEF Spec

-------------------------------------------------------------------------------
(* The values are of their types, and the committed rows are never those   *)
(* of a patch applied to rows it was not made for.                         *)
THEOREM TypeCorrect == Spec => []TypeOK
BY Inductive, PTL DEF IInv

(* At every moment, whatever dies, fails or is unlinked: the md5 in the    *)
(* database is that of a document with exactly the committed rows.         *)
THEOREM HashCorrect == Spec => []HashMatchesRows
<1>1. IInv => HashMatchesRows
  BY DEF RowInv, HashMatchesRows
<1>. QED BY <1>1, Inductive, PTL

(* A spider in its transaction is alone on a share that stays as selected. *)
THEOREM MutualExclusion == Spec => []AloneInTransaction
<1>1. IInv => AloneInTransaction
  BY DEF OwnerInv, AloneInTransaction
<1>. QED BY <1>1, Inductive, PTL

(* Documents come into the save directory only under the lock of the row.  *)
THEOREM SaveOwnership == Spec => SaveWrittenByOwner
<1>1. ASSUME IInv, Next PROVE OwnerWrites
  <2>1. CASE \E p \in Spiders : SpiderStep(p) \/ Abort(p)
    <3>1. PICK p \in Spiders : SpiderStep(p) \/ Abort(p)
      BY <2>1
    <3>2. CASE CreateSave(p) \/ WriteSave(p)
      BY <1>1, <3>2 DEF CreateSave, WriteSave, OwnerInv, OwnerWrites
    <3>3. CASE MoveSave(p) \/ Quarantine(p)
      BY <1>1, <3>3 DEF MoveSave, Quarantine, OwnerWrites
    <3>4. CASE ~(CreateSave(p) \/ WriteSave(p) \/ MoveSave(p) \/ Quarantine(p))
      <4>1. save' = save
        BY <3>1, <3>4 DEF SpiderStep, Select, Claim, Lock, LockFails, Prepare, ResolveFails,
             ScannerSucceeds, ScannerFails, TooManyLines, Postpone, Update, UpdateViolates,
             SaveFails, Finish, Abort
      <4>. QED BY <4>1 DEF OwnerWrites
    <3>. QED BY <3>2, <3>3, <3>4
  <2>2. CASE \E l \in Lookups, s \in Shares : Unlink(l, s)
    BY <1>1, <2>2 DEF Unlink, OwnerWrites
  <2>3. CASE \E s \in Shares : DeleteSave(s)
    BY <1>1, <2>3 DEF DeleteSave, OwnerWrites
  <2>4. CASE save' = save
    BY <2>4 DEF OwnerWrites
  <2>. QED BY <1>1, <2>1, <2>2, <2>3, <2>4 DEF Next, Insert, DeleteLocks, DeleteCascades,
                LookupAborts, BreakDeadlock, Abort, Ping, Tick
<1>2. IInv /\ [Next]_vars => [OwnerWrites]_vars
  BY <1>1
<1>. QED BY <1>2, Inductive, PTL DEF Spec, SaveWrittenByOwner

-------------------------------------------------------------------------------
(* The refinement of Catalogue: what the readers of the database see moves *)
(* in one step from nothing, or from one complete scan, to a later one.    *)

LEMMA InsertAdds ==
  ASSUME IInv, NEW l \in Lookups, NEW s \in Shares, Insert(l, s) PROVE C!Add(s)
BY DEF Insert, RowInv, C!Add

LEMMA CascadeRemoves ==
  ASSUME IInv, NEW l \in Lookups, DeleteCascades(l) PROVE C!Remove(doomed[l])
BY DEF DeleteCascades, DeleteInv, RowInv, C!Remove

LEMMA ScannerObserves ==
  ASSUME IInv, NEW p \in Spiders, NEW l \in Listing, ScannerSucceeds(p, l)
  PROVE  C!Observe(job[p].share, l)
BY DEF ScannerSucceeds, OwnerInv, RowInv, C!Observe

LEMMA FinishPublishes ==
  ASSUME IInv, NEW p \in Spiders, Finish(p)
  PROVE  C!Publish(job[p].share, job[p].scan)
<1>1. PICK s \in Shares : s = job[p].share
  BY DEF Finish, OwnerInv
<1>2. /\ job[p].scan \in 1..Len(seen[s]) /\ job[p].scan > upto[s]
      /\ job[p].work = seen[s][job[p].scan]
  BY <1>1 DEF Finish, OutputInv
<1>. QED BY <1>1, <1>2 DEF Finish, C!Publish

LEMMA StepsOfCatalogue == IInv /\ [Next]_vars => [C!CatNext]_C!catVars
<1>. SUFFICES ASSUME IInv, Next PROVE C!CatNext \/ UNCHANGED C!catVars
  BY DEF vars, C!catVars
<1>1. CASE \E p \in Spiders : Finish(p)
  <2>1. PICK p \in Spiders : Finish(p)
    BY <1>1
  <2>2. job[p].share \in Shares /\ job[p].scan \in 1..Len(seen[job[p].share])
    BY <2>1 DEF Finish, OwnerInv, OutputInv
  <2>. QED BY <2>1, <2>2, FinishPublishes DEF C!CatNext
<1>2. CASE \E p \in Spiders, l \in Listing : ScannerSucceeds(p, l)
  <2>1. PICK p \in Spiders, l \in Listing : ScannerSucceeds(p, l)
    BY <1>2
  <2>2. job[p].share \in Shares
    BY <2>1 DEF ScannerSucceeds, OwnerInv
  <2>. QED BY <2>1, <2>2, ScannerObserves DEF C!CatNext
<1>3. CASE \E l \in Lookups, s \in Shares : Insert(l, s)
  BY <1>3, InsertAdds DEF C!CatNext
<1>4. CASE \E l \in Lookups : DeleteCascades(l)
  BY <1>4, CascadeRemoves DEF C!CatNext
<1>5. CASE \E p \in Spiders : Abort(p) \/ (SpiderStep(p) /\ ~Finish(p)
                                /\ ~ \E l \in Listing : ScannerSucceeds(p, l))
  <2>1. PICK p \in Spiders : Abort(p) \/ (SpiderStep(p) /\ ~Finish(p)
                                /\ ~ \E l \in Listing : ScannerSucceeds(p, l))
    BY <1>5
  <2>2. CASE \/ Abort(p) \/ Claim(p) \/ Lock(p) \/ LockFails(p) \/ Prepare(p) \/ ResolveFails(p)
             \/ \E s \in Shares : Select(p, s)
    BY <2>2 DEF Abort, Claim, Lock, LockFails, Prepare, ResolveFails, Select, C!catVars
  <2>3. CASE ScannerFails(p) \/ TooManyLines(p) \/ Postpone(p)
    BY <2>3 DEF ScannerFails, TooManyLines, Postpone, C!catVars
  <2>4. CASE Update(p) \/ UpdateViolates(p) \/ Quarantine(p)
    BY <2>4 DEF Update, UpdateViolates, Quarantine, C!catVars
  <2>5. CASE MoveSave(p) \/ CreateSave(p) \/ WriteSave(p) \/ SaveFails(p)
    BY <2>5 DEF MoveSave, CreateSave, WriteSave, SaveFails, C!catVars
  <2>. QED BY <2>1, <2>2, <2>3, <2>4, <2>5 DEF SpiderStep
<1>6. CASE \/ \E l \in Lookups, s \in Shares : Unlink(l, s)
           \/ \E l \in Lookups, V \in SUBSET Shares : DeleteLocks(l, V)
           \/ \E l \in Lookups : LookupAborts(l)
           \/ \E p \in Spiders, l \in Lookups : BreakDeadlock(p, l)
           \/ \E s \in Shares : Ping(s) \/ DeleteSave(s) \/ Tick(s)
  BY <1>6 DEF Unlink, DeleteLocks, LookupAborts, BreakDeadlock, Abort, Ping, DeleteSave, Tick,
       C!catVars
<1>. QED BY <1>1, <1>2, <1>3, <1>4, <1>5, <1>6 DEF Next

THEOREM Refinement == Spec => CatalogueSpec
<1>1. Init => C!CatInit
  BY DEF Init, C!CatInit
<1>. QED BY <1>1, StepsOfCatalogue, Inductive, PTL DEF Spec, CatalogueSpec, C!CatSpec
===============================================================================
