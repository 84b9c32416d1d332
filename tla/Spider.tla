-------------------------------- MODULE Spider --------------------------------
(***************************************************************************)
(* bin/spider.py: any number of spider processes keep the catalogues of    *)
(* shares in the database up to date.  A scan ends in a document, the      *)
(* lines a low-level scanner prints; the document is kept in bin/save, its *)
(* md5 in trees.hash.  With the saved document at hand the scanner prints  *)
(* a patch against it and the spider applies only the patch, provided the  *)
(* md5 the patch starts with is the md5 in the database.                   *)
(*                                                                         *)
(* Around the spiders: bin/lookup.py inserts newly found shares and        *)
(* deletes long unseen ones (and unlinks their saved documents),           *)
(* bin/pinger.py switches shares on- and offline, and any process may die  *)
(* at any of its steps.                                                    *)
(*                                                                         *)
(* A row of shares and its row of trees are created and deleted together,  *)
(* so a share s has one database id tid[s], 0 when there is no row.  Every *)
(* statement outside scan_share's transaction is autocommitted.            *)
(***************************************************************************)
EXTENDS Naturals, Sequences, FiniteSets

CONSTANTS Shares, Listing, Nothing, Absent,   \* as in Catalogue
          Spiders,     \* the spider processes
          Lookups,     \* the lookup processes
          None,        \* no hash (NULL), no file, no process
          Garbage,     \* rows left by a patch applied to other rows than it was made for
          MaxTicks,    \* bound: how often next_scan passes
          MaxInserts   \* bound: rows ever inserted

ASSUME Sentinels == /\ {Nothing, Absent, None, Garbage} \cap Listing = {}
                    /\ Nothing # Absent /\ Garbage # Absent /\ Nothing # Garbage
                    /\ None \notin Spiders \cup Lookups \cup Shares
ASSUME Bounds == MaxTicks \in Nat /\ MaxInserts \in Nat

VARIABLES
  catalogue,  \* the committed rows of paths and files of a share
  tid,        \* share_id (and tree_id) of the row of a share, 0: no row
  online,     \* shares.state = 'online'
  due,        \* next_scan is NULL or in the past
  hash,       \* trees.hash
  treeLock,   \* who holds the row of trees (FOR UPDATE)
  shareLock,  \* the lookup whose running DELETE holds the row of shares
  save,       \* the saved document, by (protocol, host, port)
  pc, job,    \* the spiders: position in scan_share, local variables
  lpc, doomed,  \* the lookups: position, shares still to be deleted or unlinked
  inserts, ticks,  \* how much of the bounds is used up
  seen, upto  \* history, as in Catalogue

db == <<catalogue, tid, online, due, hash>>
locks == <<treeLock, shareLock>>
spiderVars == <<pc, job>>
lookupVars == <<lpc, doomed>>
counters == <<inserts, ticks>>
history == <<seen, upto>>
vars == <<db, locks, save, spiderVars, lookupVars, counters, history>>

(* What a scanner prints: base is the md5 of the listing it was given and  *)
(* made the patch lines against, None without one; listing is the complete *)
(* content.  md5 being free of collisions, the md5 of a document is        *)
(* represented by the document.                                            *)
Doc(base, listing) == [base |-> base, listing |-> listing]
Torn == Doc(None, Garbage)  \* a saved document whose writing was cut short

(* The rows of paths and files after a document's patch lines are applied. *)
Patched(rows, doc) == IF doc.base = None THEN rows
                      ELSE IF doc.base.listing = rows THEN doc.listing ELSE Garbage

NoJob == [share |-> None, id |-> 0, oldhash |-> None, patch |-> FALSE,
          out |-> None, work |-> Nothing, scan |-> 0]

Init == /\ catalogue = [s \in Shares |-> Absent]
        /\ tid = [s \in Shares |-> 0]
        /\ online = [s \in Shares |-> FALSE]
        /\ due = [s \in Shares |-> FALSE]
        /\ hash = [s \in Shares |-> None]
        /\ treeLock = [s \in Shares |-> None]
        /\ shareLock = [s \in Shares |-> None]
        /\ save = [s \in Shares |-> None]
        /\ pc = [p \in Spiders |-> "idle"]
        /\ job = [p \in Spiders |-> NoJob]
        /\ lpc = [l \in Lookups |-> "idle"]
        /\ doomed = [l \in Lookups |-> {}]
        /\ inserts = 0 /\ ticks = 0
        /\ seen = [s \in Shares |-> <<>>]
        /\ upto = [s \in Shares |-> 0]

-------------------------------------------------------------------------------
(* The main loop and the beginning of scan_share.                          *)

Goto(p, from, to) == pc[p] = from /\ pc' = [pc EXCEPT ![p] = to]

(* The end of the transaction, by commit or rollback; back to the loop.    *)
Release(p) == /\ treeLock' = [s \in Shares |-> IF treeLock[s] = p THEN None ELSE treeLock[s]]
              /\ pc' = [pc EXCEPT ![p] = "idle"]
              /\ job' = [job EXCEPT ![p] = NoJob]
              /\ UNCHANGED shareLock

(* Mutant: the query forgets the shares that were never scanned.           *)
SelectScannedOnly(p, s) ==
  /\ Goto(p, "idle", "selected")
  /\ tid[s] # 0 /\ online[s] /\ due[s] /\ hash[s] # None
  /\ job' = [job EXCEPT ![p] = [NoJob EXCEPT !.share = s, !.id = tid[s]]]
  /\ UNCHANGED <<db, locks, save, lookupVars, counters, history>>

(* SELECT an online share that is due; no lock is taken.                   *)
Select(p, s) ==
  /\ Goto(p, "idle", "selected")
  /\ tid[s] # 0 /\ online[s] /\ due[s]
  /\ job' = [job EXCEPT ![p] = [NoJob EXCEPT !.share = s, !.id = tid[s]]]
  /\ UNCHANGED <<db, locks, save, lookupVars, counters, history>>

(* The conditional UPDATE of next_scan: 'UPDATE 1' makes the share p's, on *)
(* 'UPDATE 0' (claimed by another, or the row is gone) p looks again.  It  *)
(* waits while a DELETE holds the row.                                     *)
Claim(p) ==
  LET s == job[p].share IN
  /\ pc[p] = "selected"
  /\ \/ /\ tid[s] = job[p].id /\ due[s] /\ shareLock[s] = None
        /\ pc' = [pc EXCEPT ![p] = "claimed"]
        /\ due' = [due EXCEPT ![s] = FALSE]
        /\ UNCHANGED job
     \/ /\ tid[s] # job[p].id \/ (~due[s] /\ shareLock[s] = None)
        /\ pc' = [pc EXCEPT ![p] = "idle"]
        /\ job' = [job EXCEPT ![p] = NoJob]
        /\ UNCHANGED due
  /\ UNCHANGED <<catalogue, tid, online, hash, locks, save, lookupVars, counters, history>>

(* SELECT hash ... FOR UPDATE NOWAIT.  When the row is locked or gone, or  *)
(* the statement fails for any other reason, the scan is given up.         *)
Lock(p) ==
  LET s == job[p].share IN
  /\ Goto(p, "claimed", "locked")
  /\ tid[s] = job[p].id /\ treeLock[s] = None
  /\ treeLock' = [treeLock EXCEPT ![s] = p]
  /\ job' = [job EXCEPT ![p].oldhash = hash[s]]
  /\ UNCHANGED <<db, shareLock, save, lookupVars, counters, history>>

LockFails(p) ==
  /\ pc[p] = "claimed"
  /\ Release(p)
  /\ UNCHANGED <<db, save, lookupVars, counters, history>>

(* Mutant: the transaction is ended before the long wait for the scanner.  *)
PrepareAndCommit(p) ==
  /\ Goto(p, "locked", "scanning")
  /\ job' = [job EXCEPT ![p].patch = job[p].oldhash # None /\ save[job[p].share] # None]
  /\ treeLock' = [treeLock EXCEPT ![job[p].share] = None]
  /\ UNCHANGED <<db, shareLock, save, lookupVars, counters, history>>

(* patchmode: there is a hash, and a saved document to patch against.      *)
Prepare(p) ==
  /\ Goto(p, "locked", "scanning")
  /\ job' = [job EXCEPT ![p].patch = job[p].oldhash # None /\ save[job[p].share] # None]
  /\ UNCHANGED <<db, locks, save, lookupVars, counters, history>>

ResolveFails(p) ==
  /\ pc[p] = "locked"
  /\ Release(p)
  /\ UNCHANGED <<db, save, lookupVars, counters, history>>
-------------------------------------------------------------------------------
(* The scanner.                                                            *)

(* The scanner opens the saved document it was told to use and prints a    *)
(* patch against it, or, when it cannot make sense of it, a plain listing. *)
Bases(p) == IF job[p].patch THEN {save[job[p].share], None} ELSE {None}

ScannerSucceeds(p, l) ==
  LET s == job[p].share IN
  /\ Goto(p, "scanning", "scanned")
  /\ job[p].patch => save[s] # None
  /\ \E base \in Bases(p) :
        job' = [job EXCEPT ![p].out = Doc(base, l), ![p].scan = Len(seen[s]) + 1]
  /\ seen' = [seen EXCEPT ![s] = Append(@, l)]
  /\ UNCHANGED <<db, locks, save, lookupVars, counters, upto>>

(* It exits with a failure: the share does not answer, the saved document  *)
(* has disappeared since patchmode was computed, ...                       *)
ScannerFails(p) ==
  /\ Goto(p, "scanning", "failed")
  /\ UNCHANGED <<db, locks, save, job, lookupVars, counters, history>>

(* More lines than max_lines_from_scanner: it is killed.                   *)
TooManyLines(p) ==
  /\ pc[p] = "scanning"
  /\ Release(p)
  /\ UNCHANGED <<db, save, lookupVars, counters, history>>

(* Mutant: the return without a commit.                                    *)
PostponeNoCommit(p) ==
  /\ Goto(p, "failed", "idle")
  /\ shareLock[job[p].share] = None
  /\ job' = [job EXCEPT ![p] = NoJob]
  /\ UNCHANGED <<db, locks, save, lookupVars, counters, history>>

(* After a failure the next scan is put off and the transaction committed. *)
Postpone(p) ==
  LET s == job[p].share IN
  /\ pc[p] = "failed"
  /\ shareLock[s] = None
  /\ due' = [due EXCEPT ![s] = FALSE]
  /\ Release(p)
  /\ UNCHANGED <<catalogue, tid, online, hash, save, lookupVars, counters, history>>
-------------------------------------------------------------------------------
(* The update of the database and of the saved document.                   *)

(* Mutants: the md5 is not compared; it is compared with the md5 of the    *)
(* saved document instead of the one in the database.                      *)
UsePatchUnchecked(p, tooLong) == job[p].patch /\ ~tooLong
UsePatchOfSave(p, tooLong) ==
  job[p].patch /\ ~tooLong /\ job[p].out.base = save[job[p].share]

(* The patch is used only when it is made against the document whose md5   *)
(* the database has, and is not too long.                                  *)
UsePatch(p, tooLong) ==
  job[p].patch /\ ~tooLong /\ job[p].out.base = job[p].oldhash

(* The rows are changed inside the transaction: job.work.                  *)
Update(p) ==
  LET s == job[p].share
      out == job[p].out IN
  /\ Goto(p, "scanned", "updated")
  /\ \E tooLong \in BOOLEAN :
        job' = [job EXCEPT ![p].work =
                  IF UsePatch(p, tooLong) THEN Patched(catalogue[s], out) ELSE out.listing]
  /\ UNCHANGED <<db, locks, save, lookupVars, counters, history>>

(* A row violates a constraint: rollback first, then the saved document is *)
(* renamed, so that the next scan patches nothing.                         *)
UpdateViolates(p) ==
  /\ Goto(p, "scanned", "quarantine")
  /\ treeLock' = [treeLock EXCEPT ![job[p].share] = None]
  /\ UNCHANGED <<db, shareLock, save, job, lookupVars, counters, history>>

Quarantine(p) ==
  /\ pc[p] = "quarantine"
  /\ save' = [save EXCEPT ![job[p].share] = None]
  /\ Release(p)
  /\ UNCHANGED <<db, lookupVars, counters, history>>

(* The old document is moved to ".old" (which nothing reads), the new one  *)
(* created and then written.                                               *)
MoveSave(p) ==
  /\ Goto(p, "updated", "moved")
  /\ save' = [save EXCEPT ![job[p].share] = None]
  /\ UNCHANGED <<db, locks, job, lookupVars, counters, history>>

CreateSave(p) ==
  /\ Goto(p, "moved", "created")
  /\ save' = [save EXCEPT ![job[p].share] = Torn]
  /\ UNCHANGED <<db, locks, job, lookupVars, counters, history>>

WriteSave(p) ==
  /\ Goto(p, "created", "saved")
  /\ save' = [save EXCEPT ![job[p].share] = job[p].out]
  /\ UNCHANGED <<db, locks, job, lookupVars, counters, history>>

(* Any of the three may fail; that is logged and otherwise ignored.        *)
SaveFails(p) ==
  /\ pc[p] \in {"updated", "moved", "created"}
  /\ pc' = [pc EXCEPT ![p] = "saved"]
  /\ UNCHANGED <<db, locks, save, job, lookupVars, counters, history>>

(* Mutant: the md5 is taken from the saved document, not from the output.  *)
FinishHashOfSave(p) ==
  LET s == job[p].share IN
  /\ pc[p] = "saved"
  /\ shareLock[s] = None
  /\ due' = [due EXCEPT ![s] = FALSE]
  /\ hash' = [hash EXCEPT ![s] = save[s]]
  /\ catalogue' = [catalogue EXCEPT ![s] = job[p].work]
  /\ upto' = [upto EXCEPT ![s] = job[p].scan]
  /\ Release(p)
  /\ UNCHANGED <<tid, online, save, lookupVars, counters, seen>>

(* UPDATE shares and trees, and commit: all rows change at once.  The      *)
(* UPDATE waits while a DELETE holds the row of shares.                    *)
Finish(p) ==
  LET s == job[p].share IN
  /\ pc[p] = "saved"
  /\ shareLock[s] = None
  /\ due' = [due EXCEPT ![s] = FALSE]
  /\ hash' = [hash EXCEPT ![s] = job[p].out]
  /\ catalogue' = [catalogue EXCEPT ![s] = job[p].work]
  /\ upto' = [upto EXCEPT ![s] = job[p].scan]
  /\ Release(p)
  /\ UNCHANGED <<tid, online, save, lookupVars, counters, seen>>

InTransaction == {"locked", "scanning", "failed", "scanned",
                  "updated", "moved", "created", "saved"}

(* An exception, a signal or the death of the process or its connection:   *)
(* the transaction is rolled back.  The saved document stays as it is.     *)
Abort(p) ==
  /\ pc[p] \in InTransaction \cup {"quarantine"}
  /\ Release(p)
  /\ UNCHANGED <<db, save, lookupVars, counters, history>>
-------------------------------------------------------------------------------
(* bin/lookup.py, bin/pinger.py and the clock.                             *)

(* InsertHosts: a new row (share_insert gives it a tree), then the unlink  *)
(* of a saved document an earlier row may have left behind.                *)
Insert(l, s) ==
  /\ lpc[l] = "idle" /\ tid[s] = 0 /\ inserts < MaxInserts
  /\ inserts' = inserts + 1
  /\ tid' = [tid EXCEPT ![s] = inserts + 1]
  /\ catalogue' = [catalogue EXCEPT ![s] = Nothing]
  /\ online' = [online EXCEPT ![s] = TRUE]
  /\ due' = [due EXCEPT ![s] = TRUE]
  /\ lpc' = [lpc EXCEPT ![l] = "unlink"]
  /\ doomed' = [doomed EXCEPT ![l] = {s}]
  /\ UNCHANGED <<hash, locks, save, spiderVars, ticks, history>>

(* DELETE FROM shares: first the rows of shares are locked (which rows are *)
(* old enough is left open) ...                                            *)
DeleteLocks(l, V) ==
  /\ V # {} /\ \A s \in V : tid[s] # 0 /\ shareLock[s] = None
  /\ lpc[l] = "idle"
  /\ lpc' = [lpc EXCEPT ![l] = "deleting"]
  /\ doomed' = [doomed EXCEPT ![l] = V]
  /\ shareLock' = [s \in Shares |-> IF s \in V THEN l ELSE shareLock[s]]
  /\ UNCHANGED <<db, treeLock, save, spiderVars, counters, history>>

(* Mutant: trees without the reference to shares that makes it wait.       *)
DeleteCascadesUnlocked(l) ==
  LET V == doomed[l]
      Reset(f, value) == [s \in Shares |-> IF s \in V THEN value ELSE f[s]] IN
  /\ lpc[l] = "deleting"
  /\ lpc' = [lpc EXCEPT ![l] = "unlink"]
  /\ tid' = Reset(tid, 0)
  /\ catalogue' = Reset(catalogue, Absent)
  /\ online' = Reset(online, FALSE)
  /\ due' = Reset(due, FALSE)
  /\ hash' = Reset(hash, None)
  /\ shareLock' = Reset(shareLock, None)
  /\ seen' = Reset(seen, <<>>)
  /\ upto' = Reset(upto, 0)
  /\ UNCHANGED <<treeLock, save, spiderVars, doomed, counters>>

(* ... then the deletion cascades to trees, paths and files, which waits   *)
(* for the spiders that hold the rows of trees.                            *)
DeleteCascades(l) ==
  LET V == doomed[l]
      Reset(f, value) == [s \in Shares |-> IF s \in V THEN value ELSE f[s]] IN
  /\ lpc[l] = "deleting"
  /\ \A s \in V : treeLock[s] = None
  /\ lpc' = [lpc EXCEPT ![l] = "unlink"]
  /\ tid' = Reset(tid, 0)
  /\ catalogue' = Reset(catalogue, Absent)
  /\ online' = Reset(online, FALSE)
  /\ due' = Reset(due, FALSE)
  /\ hash' = Reset(hash, None)
  /\ shareLock' = Reset(shareLock, None)
  /\ seen' = Reset(seen, <<>>)
  /\ upto' = Reset(upto, 0)
  /\ UNCHANGED <<treeLock, save, spiderVars, doomed, counters>>

(* After either, the saved documents are unlinked one by one.              *)
Unlink(l, s) ==
  /\ lpc[l] = "unlink" /\ s \in doomed[l]
  /\ save' = [save EXCEPT ![s] = None]
  /\ doomed' = [doomed EXCEPT ![l] = @ \ {s}]
  /\ lpc' = [lpc EXCEPT ![l] = IF doomed[l] = {s} THEN "idle" ELSE "unlink"]
  /\ UNCHANGED <<db, locks, spiderVars, counters, history>>

(* A lookup dies, or its DELETE is cancelled.                              *)
LookupAborts(l) ==
  /\ lpc[l] # "idle"
  /\ lpc' = [lpc EXCEPT ![l] = "idle"]
  /\ doomed' = [doomed EXCEPT ![l] = {}]
  /\ shareLock' = [s \in Shares |-> IF shareLock[s] = l THEN None ELSE shareLock[s]]
  /\ UNCHANGED <<db, treeLock, save, spiderVars, counters, history>>

(* The DELETE waits for a spider's row of trees, the spider's UPDATE waits *)
(* for the DELETE's row of shares: the database cancels one of the two.    *)
WaitCycle(p, l) == /\ lpc[l] = "deleting"
                   /\ pc[p] \in {"failed", "saved"}
                   /\ treeLock[job[p].share] = p
                   /\ shareLock[job[p].share] = l

BreakDeadlock(p, l) == WaitCycle(p, l) /\ (Abort(p) \/ LookupAborts(l))

(* The pinger: an UPDATE of state, which waits for a DELETE.               *)
Ping(s) == /\ tid[s] # 0 /\ shareLock[s] = None
           /\ online' = [online EXCEPT ![s] = ~@]
           /\ UNCHANGED <<catalogue, tid, due, hash, locks, save, spiderVars,
                          lookupVars, counters, history>>

(* Somebody deletes a saved document, which bin/common.py allows.          *)
DeleteSave(s) == /\ save[s] # None
                 /\ save' = [save EXCEPT ![s] = None]
                 /\ UNCHANGED <<db, locks, spiderVars, lookupVars, counters, history>>

(* next_scan passes.                                                       *)
Tick(s) == /\ tid[s] # 0 /\ ~due[s] /\ ticks < MaxTicks
           /\ ticks' = ticks + 1
           /\ due' = [due EXCEPT ![s] = TRUE]
           /\ UNCHANGED <<catalogue, tid, online, hash, locks, save, spiderVars,
                          lookupVars, inserts, history>>
-------------------------------------------------------------------------------
(* What a spider does of its own, interruptions left out.                  *)
SpiderStep(p) ==
  \/ \E s \in Shares : Select(p, s)
  \/ Claim(p) \/ Lock(p) \/ LockFails(p) \/ Prepare(p) \/ ResolveFails(p)
  \/ \E l \in Listing : ScannerSucceeds(p, l)
  \/ ScannerFails(p) \/ TooManyLines(p) \/ Postpone(p)
  \/ Update(p) \/ UpdateViolates(p) \/ Quarantine(p)
  \/ MoveSave(p) \/ CreateSave(p) \/ WriteSave(p) \/ SaveFails(p)
  \/ Finish(p)

Next ==
  \/ \E p \in Spiders : SpiderStep(p) \/ Abort(p)
  \/ \E l \in Lookups :
        \/ \E s \in Shares : Insert(l, s) \/ Unlink(l, s)
        \/ \E V \in SUBSET Shares : DeleteLocks(l, V)
        \/ DeleteCascades(l) \/ LookupAborts(l)
  \/ \E p \in Spiders, l \in Lookups : BreakDeadlock(p, l)
  \/ \E s \in Shares : Ping(s) \/ DeleteSave(s) \/ Tick(s)

Spec == Init /\ [][Next]_vars

(* cron keeps starting spiders and lookups, a started process runs, the    *)
(* database grants a row to those who wait for it in their order, and it   *)
(* finds deadlocks; nothing forces a failure, a new share, a DELETE or a   *)
(* ping.                                                                   *)
Fairness ==
  /\ \A p \in Spiders : /\ WF_vars(SpiderStep(p))
                        /\ SF_vars(Claim(p)) /\ SF_vars(Postpone(p)) /\ SF_vars(Finish(p))
  /\ \A l \in Lookups : /\ WF_vars(DeleteCascades(l))
                        /\ \A s \in Shares : WF_vars(Unlink(l, s))
  /\ \A p \in Spiders, l \in Lookups : WF_vars(BreakDeadlock(p, l))

FairSpec == Spec /\ Fairness
-------------------------------------------------------------------------------
(* The types; the rows are never those of a patch applied to wrong rows.   *)
(* Documents nest (a base is a document), so of a hash, a save and a       *)
(* printed document only the listing is constrained.                       *)
IsDoc(d) == d.listing \in Listing
JobOK(j) == /\ j.share \in Shares \cup {None}
            /\ j.id \in Nat /\ j.patch \in BOOLEAN /\ j.scan \in Nat
            /\ j.work \in Listing \cup {Nothing}

TypeOK ==
  /\ catalogue \in [Shares -> Listing \cup {Nothing, Absent}]
  /\ tid \in [Shares -> Nat]
  /\ online \in [Shares -> BOOLEAN] /\ due \in [Shares -> BOOLEAN]
  /\ treeLock \in [Shares -> Spiders \cup {None}]
  /\ shareLock \in [Shares -> Lookups \cup {None}]
  /\ pc \in [Spiders -> InTransaction \cup {"idle", "selected", "claimed", "quarantine"}]
  /\ DOMAIN job = Spiders
  /\ \A p \in Spiders : DOMAIN job[p] = DOMAIN NoJob /\ JobOK(job[p])
  /\ DOMAIN hash = Shares /\ \A s \in Shares : hash[s] # None => IsDoc(hash[s])
  /\ DOMAIN save = Shares
  /\ \A s \in Shares : save[s] # None => save[s] = Torn \/ IsDoc(save[s])
  /\ lpc \in [Lookups -> {"idle", "deleting", "unlink"}]
  /\ doomed \in [Lookups -> SUBSET Shares]
  /\ inserts \in Nat /\ ticks \in Nat
  /\ seen \in [Shares -> Seq(Listing)] /\ upto \in [Shares -> Nat]

(* The md5 in the database is that of the document the rows came from:     *)
(* what makes it safe to apply a patch against a document with that md5,   *)
(* whatever happened to the saved document in the meantime.                *)
HashMatchesRows == \A s \in Shares : hash[s] # None => catalogue[s] = hash[s].listing

(* Between its SELECT ... FOR UPDATE and its commit a spider alone works   *)
(* on the share, even when the scan outlives the claim (next_scan) and     *)
(* another spider claims the share too; and the row it selected exists     *)
(* unchanged all that time, though lookups delete and insert rows.         *)
AloneInTransaction ==
  \A p \in Spiders : pc[p] \in InTransaction =>
     LET s == job[p].share IN
       /\ treeLock[s] = p
       /\ tid[s] = job[p].id
       /\ \A q \in Spiders : pc[q] \in InTransaction /\ job[q].share = s => q = p

OwnerWrites ==
  \A s \in Shares : save'[s] \notin {None, save[s]} =>
    \E p \in Spiders : treeLock[s] = p /\ treeLock'[s] = p /\ pc[p] \in InTransaction

(* A document that comes into the save directory was written by the spider *)
(* whose transaction is still open on the share, so the document of a      *)
(* finished scan is never overwritten by an older one.                     *)
SaveWrittenByOwner == [][OwnerWrites]_vars

(* Readers of the database see what Catalogue promises, at every step.     *)
C == INSTANCE Catalogue
CatalogueSpec == C!CatSpec

(* No row stays locked forever: a spider releases the row of trees, and    *)
(* the DELETE of a lookup ends, although spiders keep working on the       *)
(* shares it deletes and each waits for the other's row.                   *)
LocksAreReleased ==
  /\ \A s \in Shares : treeLock[s] # None ~> treeLock[s] = None
  /\ \A l \in Lookups : lpc[l] = "deleting" ~> lpc[l] # "deleting"

(* A share that is due is claimed, unless it goes offline or is deleted.   *)
DueIsServed == \A s \in Shares : due[s] ~> (~due[s] \/ ~online[s])

(* misc/save/README: the saved documents contain exactly the same content  *)
(* which lies in the database (while no spider is at work on the share).   *)
SavesMatchDatabase ==
  \A s \in Shares : treeLock[s] = None /\ save[s] # None => save[s] = hash[s]
===============================================================================
