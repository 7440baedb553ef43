---------------------------- MODULE StoreOpening ----------------------------
(***************************************************************************)
(* How a store directory is claimed and opened, and how a new arena is     *)
(* assembled in it (crates/zhold-store: store/opening.rs,                  *)
(* store/initialization.rs, store/admission.rs, collection/                *)
(* initialization.rs).  Processes open the store for writing at the same   *)
(* time, die and fail anywhere; the power can go.                          *)
(*                                                                         *)
(* Writes of the marker, of journals and of manifests are atomic and       *)
(* durable (JsonPublication); the entries of the arenas directory are not  *)
(* until it is synchronized.                                               *)
(***************************************************************************)
EXTENDS FiniteSets, Naturals

CONSTANTS
    Process,
    Arena,
    Nonce,      \* store UUIDs and fingerprint keys
    None,
    MaxFaults,  \* bound on deaths and errors
    MaxLosses   \* bound on losses of power

\* What store.json says.
Marker == [schema : {1, 2}, id : Nonce, key : Nonce \cup {None}]

ASSUME StoreOpeningAssumption ==
    /\ None \notin Process \cup Nonce \cup Arena \cup Marker
    /\ MaxFaults \in Nat /\ MaxLosses \in Nat

VARIABLES
    foreign,        \* whether the root holds an entry that is not zhold's
    marker,         \* store.json
    probes,         \* the processes whose capability probe is in the root
    layout,         \* whether the directories of the store are there
    initialization, \* holder of the initialization lock
    collection,     \* holder of the collection lock
    disk,           \* arena -> what the arenas directory holds of it
    survives,       \* arena -> what a loss of power can leave of it
    journal,        \* arena -> the store UUID in its initialization journal
    owner,          \* arena -> the store UUID in its manifest
    pc, loaded,     \* process -> its next operation, and the marker it works with
    wants,          \* process -> the arena it leases
    current,        \* process -> the arena whose initialization it reconciles
    faults, losses

rootVars == <<foreign, marker, probes, layout>>
lockVars == <<initialization, collection>>
arenaVars == <<disk, survives, journal, owner>>
processVars == <<pc, loaded, wants, current>>
vars == <<rootVars, lockVars, arenaVars, processVars, faults, losses>>

\* An arena is staged empty, with an unfinished or a finished manifest; then it has its
\* final path.
Staging == {"empty", "begun", "settled"}
Final == {"leased", "idle"}

Used ==
    UNION {{m.id, m.key} : m \in {marker} \cap Marker}
        \cup {journal[a] : a \in Arena} \cup {owner[a] : a \in Arena}

Fresh(n) == n \in Nonce \ Used

Goto(p, place) == pc' = [pc EXCEPT ![p] = place]

\* What a process that is under way, or holds a lease, works on.
Working(p) == pc[p] \notin {"idle", "open", "leased"}

Release(lock, p) == IF lock = p THEN None ELSE lock

-----------------------------------------------------------------------------
(* Claiming the root: open_marker_read_write.                              *)

\* A root may be new, hold foreign files, or a store of this or the previous schema with
\* arenas.
Init ==
    /\ foreign \in BOOLEAN
    /\ marker \in {None} \cup {[schema |-> s, id |-> n, key |-> IF s = 1 THEN None ELSE n] :
                                    s \in {1, 2}, n \in Nonce}
    /\ probes = {} /\ layout = (marker # None)
    /\ initialization = None /\ collection = None
    /\ disk \in [Arena -> IF marker = None THEN {"none"} ELSE {"none", "idle"}]
    /\ survives = [a \in Arena |-> {disk[a]}]
    /\ journal = [a \in Arena |-> None]
    /\ owner = [a \in Arena |-> IF disk[a] = "none" THEN None ELSE marker.id]
    /\ pc = [p \in Process |-> "idle"] /\ loaded = [p \in Process |-> None]
    /\ wants = [p \in Process |-> None] /\ current = [p \in Process |-> None]
    /\ faults = 0 /\ losses = 0

Quiet == UNCHANGED <<arenaVars, wants, current, faults, losses>>

\* The operation ends with an error: its locks are freed, and a process that was opening
\* the store has none.
Refuse(p) ==
    /\ Goto(p, IF wants[p] = None THEN "refused" ELSE "open")
    /\ loaded' = [loaded EXCEPT ![p] = IF wants[p] = None THEN None ELSE @]
    /\ wants' = [wants EXCEPT ![p] = None] /\ current' = [current EXCEPT ![p] = None]
    /\ initialization' = Release(initialization, p)
    /\ collection' = Release(collection, p)

Open(p) ==
    /\ pc[p] \in {"idle", "refused"} /\ Goto(p, "look")
    /\ Quiet /\ UNCHANGED <<rootVars, lockVars, loaded>>

LookForMarker(p) ==
    /\ pc[p] = "look"
    /\ IF marker = None THEN Goto(p, "scan") /\ UNCHANGED loaded
       ELSE IF marker.schema = 1 THEN Goto(p, "waitUpgrade") /\ UNCHANGED loaded
       ELSE Goto(p, "probe") /\ loaded' = [loaded EXCEPT ![p] = marker]
    /\ Quiet /\ UNCHANGED <<rootVars, lockVars>>

\* contains_only_initialization_files: the marker, its staging files, the lock and probes
\* are files that may be there; the directories of the layout are not.
OnlyInitializationFiles == ~foreign /\ ~layout

ScanRoot(p) ==
    /\ pc[p] = "scan"
    /\ IF OnlyInitializationFiles
          THEN Goto(p, "waitClaim") /\ UNCHANGED <<lockVars, loaded, wants, current>>
          ELSE Refuse(p)
    /\ UNCHANGED <<rootVars, arenaVars, faults, losses>>

AcquireInitialization(p) ==
    /\ pc[p] \in {"waitClaim", "waitUpgrade"} /\ initialization = None
    /\ initialization' = p
    /\ Goto(p, IF pc[p] = "waitClaim" THEN "claim" ELSE "upgrade")
    /\ Quiet /\ UNCHANGED <<rootVars, collection, loaded>>

\* Mutant of Upgraded: every upgrade draws a key, without reading the marker again.
UpgradedAgain(n) == [schema |-> 2, id |-> marker.id, key |-> n]

\* load_marker: a marker of schema 1 gets a key, and keeps its UUID.
Upgraded(n) == IF marker.schema = 1 THEN [schema |-> 2, id |-> marker.id, key |-> n] ELSE marker

LoadMarker(p) ==
    /\ pc[p] \in {"upgrade", "claim"} /\ marker # None
    /\ \E n \in Nonce :
        /\ Fresh(n) /\ marker' = Upgraded(n)
        /\ loaded' = [loaded EXCEPT ![p] = marker']
    /\ IF pc[p] = "upgrade"
          THEN Goto(p, "probe") /\ initialization' = None
          ELSE Goto(p, "probeClaimed") /\ UNCHANGED initialization
    /\ Quiet /\ UNCHANGED <<foreign, probes, layout, collection>>

\* Mutant of ClaimRoot: the marker is not looked for again under the lock.
ClaimRootUnchecked(p) ==
    /\ pc[p] = "claim"
    /\ probes' = {} /\ Goto(p, "probeClaimed")
    /\ Quiet /\ UNCHANGED <<foreign, marker, layout, lockVars, loaded>>

\* cleanup_abandoned_staging: the probes of whomever are removed.
CleanupAbandoned == probes' = {}

\* Still no marker under the lock: what an earlier claim left behind is removed, and the
\* root is looked at again.
ClaimRoot(p) ==
    /\ pc[p] = "claim" /\ marker = None
    /\ CleanupAbandoned
    /\ IF OnlyInitializationFiles
          THEN Goto(p, "probeClaimed") /\ UNCHANGED <<lockVars, loaded, wants, current>>
          ELSE Refuse(p)
    /\ UNCHANGED <<foreign, marker, layout, arenaVars, faults, losses>>

\* verify_filesystem_capabilities makes a file and a link, and removes both; it is done
\* with the lock in hand and, once a marker is loaded, without.
Probe(p) ==
    /\ pc[p] \in {"probe", "probeClaimed"}
    /\ probes' = probes \cup {p}
    /\ Goto(p, IF pc[p] = "probe" THEN "unprobe" ELSE "unprobeClaimed")
    /\ Quiet /\ UNCHANGED <<foreign, marker, layout, lockVars, loaded>>

RemoveProbe(p) ==
    /\ pc[p] \in {"unprobe", "unprobeClaimed"} /\ p \in probes
    /\ probes' = probes \ {p}
    /\ IF pc[p] = "unprobe" THEN Goto(p, "layout") /\ UNCHANGED initialization
       ELSE IF loaded[p] = None THEN Goto(p, "create") /\ UNCHANGED initialization
       ELSE Goto(p, "probe") /\ initialization' = None
    /\ Quiet /\ UNCHANGED <<foreign, marker, layout, collection, loaded>>

\* create_json does not replace a marker that is there: the winner's is taken.
CreateMarker(p) ==
    /\ pc[p] = "create"
    /\ \E n \in Nonce :
        /\ Fresh(n)
        /\ marker' = IF marker = None THEN [schema |-> 2, id |-> n, key |-> n] ELSE marker
        /\ loaded' = [loaded EXCEPT ![p] = marker']
    /\ initialization' = None /\ Goto(p, "probe")
    /\ Quiet /\ UNCHANGED <<foreign, probes, layout, collection>>

EnsureLayout(p) ==
    /\ pc[p] = "layout" /\ layout' = TRUE /\ Goto(p, "waitCollection")
    /\ Quiet /\ UNCHANGED <<foreign, marker, probes, lockVars, loaded>>

-----------------------------------------------------------------------------
(* Arenas.  Everything here is done with the collection lock in hand: the   *)
(* reconciliation that ends an opening or precedes a lease, and the lease. *)

\* An open store leases an arena that no other process holds.
Lease(p, a) ==
    /\ pc[p] = "open" /\ \A q \in Process : pc[q] = "leased" => wants[q] # a
    /\ wants' = [wants EXCEPT ![p] = a] /\ Goto(p, "waitCollection")
    /\ UNCHANGED <<rootVars, lockVars, arenaVars, loaded, current, faults, losses>>

\* admission_locks has both locks or waits for neither.
AcquireCollection(p) ==
    /\ pc[p] = "waitCollection" /\ collection = None
    /\ \A q \in Process : pc[q] = "leased" => wants[q] # wants[p]
    /\ collection' = p /\ Goto(p, "reconcile")
    /\ Quiet /\ UNCHANGED <<rootVars, initialization, loaded>>

\* A change of the arenas directory is seen at once, and may be lost until the directory
\* is synchronized.
SetEntry(a, state) ==
    /\ disk' = [disk EXCEPT ![a] = state]
    /\ survives' = [survives EXCEPT ![a] = @ \cup {state}]

\* The state of an entry whose manifest records the begin or the end of a build.
Begun(state) ==
    IF state \in {"empty", "settled"} THEN "begun" ELSE IF state = "idle" THEN "leased" ELSE state

Settled(state) ==
    IF state = "begun" THEN "settled" ELSE IF state = "leased" THEN "idle" ELSE state

\* A write of a manifest goes with the directory it is in, wherever that is found.
Rewrite(a, Recorded(_)) ==
    /\ disk' = [disk EXCEPT ![a] = Recorded(@)]
    /\ survives' = [survives EXCEPT ![a] = {Recorded(state) : state \in @}]

\* Mutant of Synchronize: the entry is taken to be on the disk.
SynchronizeNothing(a) == UNCHANGED <<disk, survives>>

\* sync_metadata_directory of the arena.
Synchronize(a) ==
    /\ survives' = [survives EXCEPT ![a] = {disk[a]}]
    /\ UNCHANGED disk

RemoveJournal(a) == journal' = [journal EXCEPT ![a] = None]

\* Journals and manifests of another store are refused.
Owned(p, a) == {journal[a], owner[a]} \subseteq {loaded[p].id, None}

\* The error of one step of a reconciliation or of a lease.
Rejected(p) == Refuse(p) /\ UNCHANGED <<rootVars, arenaVars, faults, losses>>

\* Mutant of ReconcileJournal: whatever an interrupted initialization left is removed.
ReconcileJournalByRemoval(p, a) ==
    /\ pc[p] = "reconcile" /\ journal[a] # None
    /\ current' = [current EXCEPT ![p] = a] /\ Goto(p, "unjournal")
    /\ SetEntry(a, "none")
    /\ UNCHANGED <<rootVars, lockVars, journal, owner, loaded, wants, faults, losses>>

\* reconcile_record: what an interrupted initialization left behind is removed, settled
\* and promoted, or accepted where it is.
ReconcileJournal(p, a) ==
    /\ pc[p] = "reconcile" /\ journal[a] # None
    /\ IF ~Owned(p, a) THEN Rejected(p)
       ELSE /\ current' = [current EXCEPT ![p] = a]
            /\ Goto(p, IF disk[a] = "begun" THEN "settle"
                       ELSE IF disk[a] = "settled" THEN "promote" ELSE "unjournal")
            /\ IF disk[a] = "empty" THEN SetEntry(a, "none") ELSE UNCHANGED <<disk, survives>>
            /\ UNCHANGED <<rootVars, lockVars, journal, owner, loaded, wants, faults, losses>>

\* Mutant of SettleStaged: the manifest is promoted with its unfinished build.
PromoteUnsettled(p) ==
    /\ pc[p] = "settle" /\ Goto(p, "promote")
    /\ UNCHANGED <<rootVars, lockVars, arenaVars, loaded, wants, current, faults, losses>>

\* Its manifest records what the stage of the build allows to conclude.
SettleStaged(p) ==
    /\ pc[p] = "settle" /\ Rewrite(current[p], Settled) /\ Goto(p, "promote")
    /\ UNCHANGED <<rootVars, lockVars, journal, owner, loaded, wants, current, faults, losses>>

\* The staged arena is renamed to its final path.
PromoteStaged(p) ==
    /\ pc[p] = "promote" /\ SetEntry(current[p], "idle") /\ Goto(p, "syncStaged")
    /\ UNCHANGED <<rootVars, lockVars, journal, owner, loaded, wants, current, faults, losses>>

SyncStaged(p) ==
    /\ pc[p] = "syncStaged" /\ Synchronize(current[p]) /\ Goto(p, "unjournal")
    /\ UNCHANGED <<rootVars, lockVars, journal, owner, loaded, wants, current, faults, losses>>

UnjournalStaged(p) ==
    /\ pc[p] = "unjournal" /\ RemoveJournal(current[p])
    /\ owner' = [owner EXCEPT ![current[p]] = IF disk[current[p]] = "none" THEN None ELSE @]
    /\ Goto(p, "reconcile") /\ current' = [current EXCEPT ![p] = None]
    /\ UNCHANGED <<rootVars, lockVars, disk, survives, loaded, wants, faults, losses>>

\* Every journal is gone: a staging directory that is still there has none.
Orphaned(a) == disk[a] \in Staging /\ journal[a] = None

\* reject_orphaned_staging, and what follows: an opening is over, a lease goes on.
FinishReconciliation(p) ==
    /\ pc[p] = "reconcile" /\ \A a \in Arena : journal[a] = None
    /\ \/ /\ \E a \in Arena : Orphaned(a)
          /\ Rejected(p)
       \/ /\ \A a \in Arena : ~Orphaned(a)
          /\ IF wants[p] = None
                THEN Goto(p, "open") /\ collection' = None
                ELSE Goto(p, "lease") /\ UNCHANGED collection
          /\ Quiet /\ UNCHANGED <<rootVars, initialization, loaded>>

\* lease_existing: an unfinished build makes the arena suspect.
LeaseExisting(p) ==
    LET a == wants[p] IN
    /\ pc[p] = "lease" /\ disk[a] \in Final
    /\ IF disk[a] = "leased" \/ ~Owned(p, a) THEN Rejected(p)
       ELSE /\ Rewrite(a, Begun)
            /\ Goto(p, "leased") /\ collection' = None
            /\ UNCHANGED <<rootVars, initialization, journal, owner, loaded, wants, current,
                           faults, losses>>

\* Mutant of JournalArena: the journal is written when the staging directory is there.
StageUnjournaled(p) ==
    LET a == wants[p] IN
    /\ pc[p] = "lease" /\ disk[a] = "none"
    /\ SetEntry(a, "empty") /\ Goto(p, "manifest")
    /\ UNCHANGED <<rootVars, lockVars, journal, owner, loaded, wants, current, faults, losses>>

\* lease_new: a journal first,
JournalArena(p) ==
    LET a == wants[p] IN
    /\ pc[p] = "lease" /\ disk[a] = "none"
    /\ journal' = [journal EXCEPT ![a] = loaded[p].id] /\ Goto(p, "stage")
    /\ UNCHANGED <<rootVars, lockVars, disk, survives, owner, loaded, wants, current, faults, losses>>

\* then the staging directory,
StageArena(p) ==
    /\ pc[p] = "stage" /\ SetEntry(wants[p], "empty") /\ Goto(p, "manifest")
    /\ UNCHANGED <<rootVars, lockVars, journal, owner, loaded, wants, current, faults, losses>>

\* the manifest of a reserved build in it,
StageManifest(p) ==
    LET a == wants[p] IN
    /\ pc[p] = "manifest" /\ Rewrite(a, Begun) /\ Goto(p, "rename")
    /\ owner' = [owner EXCEPT ![a] = loaded[p].id]
    /\ UNCHANGED <<rootVars, lockVars, journal, loaded, wants, current, faults, losses>>

\* the final path,
PromoteArena(p) ==
    /\ pc[p] = "rename" /\ SetEntry(wants[p], "leased") /\ Goto(p, "sync")
    /\ UNCHANGED <<rootVars, lockVars, journal, owner, loaded, wants, current, faults, losses>>

\* made durable,
SyncArena(p) ==
    /\ pc[p] = "sync" /\ Synchronize(wants[p]) /\ Goto(p, "commit")
    /\ UNCHANGED <<rootVars, lockVars, journal, owner, loaded, wants, current, faults, losses>>

\* and the journal goes.
UnjournalArena(p) ==
    /\ pc[p] = "commit" /\ RemoveJournal(wants[p])
    /\ Goto(p, "leased") /\ collection' = None
    /\ UNCHANGED <<rootVars, initialization, disk, survives, owner, loaded, wants, current,
                   faults, losses>>

EndLease(p) ==
    /\ pc[p] = "leased" /\ Rewrite(wants[p], Settled)
    /\ Goto(p, "open") /\ wants' = [wants EXCEPT ![p] = None]
    /\ UNCHANGED <<rootVars, lockVars, journal, owner, loaded, current, faults, losses>>

\* The store is closed.
Close(p) ==
    /\ pc[p] = "open" /\ Goto(p, "idle") /\ loaded' = [loaded EXCEPT ![p] = None]
    /\ Quiet /\ UNCHANGED <<rootVars, lockVars>>

-----------------------------------------------------------------------------
(* Faults.                                                                 *)

\* A lease that is dropped before Cargo was started records that, in the staging
\* directory or at the final path.
DropLease(p) ==
    IF pc[p] \in {"rename", "sync", "commit"} THEN Rewrite(wants[p], Settled)
    ELSE UNCHANGED <<disk, survives>>

\* An operation of the file system fails under an opening or a lease; the removal of a
\* journal may have been seen by then.
Fail(p) ==
    /\ Working(p) /\ pc[p] # "refused" /\ faults < MaxFaults /\ faults' = faults + 1
    /\ Refuse(p) /\ DropLease(p)
    /\ \/ UNCHANGED journal
       \/ pc[p] = "commit" /\ RemoveJournal(wants[p])
       \/ pc[p] = "unjournal" /\ RemoveJournal(current[p])
    /\ UNCHANGED <<rootVars, owner, losses>>

Forget(P) ==
    /\ pc' = [p \in Process |-> IF p \in P THEN "idle" ELSE pc[p]]
    /\ loaded' = [p \in Process |-> IF p \in P THEN None ELSE loaded[p]]
    /\ wants' = [p \in Process |-> IF p \in P THEN None ELSE wants[p]]
    /\ current' = [p \in Process |-> IF p \in P THEN None ELSE current[p]]
    /\ initialization' = IF initialization \in P THEN None ELSE initialization
    /\ collection' = IF collection \in P THEN None ELSE collection

Die(p) ==
    /\ pc[p] # "idle" /\ faults < MaxFaults /\ faults' = faults + 1
    /\ Forget({p}) /\ UNCHANGED <<rootVars, arenaVars, losses>>

\* The power goes: what was not synchronized is there or not.
PowerLoss ==
    /\ losses < MaxLosses /\ losses' = losses + 1
    /\ Forget(Process)
    /\ probes' \in SUBSET probes
    /\ disk' \in {d \in [Arena -> Staging \cup Final \cup {"none"}] :
                    \A a \in Arena : d[a] \in survives[a]}
    /\ survives' = [a \in Arena |-> {disk'[a]}]
    /\ UNCHANGED <<foreign, marker, layout, journal, owner, faults>>

Claim(p) ==
    \/ Open(p) \/ LookForMarker(p) \/ ScanRoot(p) \/ AcquireInitialization(p)
    \/ LoadMarker(p) \/ ClaimRoot(p) \/ Probe(p) \/ RemoveProbe(p) \/ CreateMarker(p)
    \/ EnsureLayout(p)

Reconcile(p) ==
    \/ AcquireCollection(p)
    \/ \E a \in Arena : ReconcileJournal(p, a)
    \/ SettleStaged(p) \/ PromoteStaged(p) \/ SyncStaged(p) \/ UnjournalStaged(p)
    \/ FinishReconciliation(p)

Create(p) ==
    \/ \E a \in Arena : Lease(p, a)
    \/ LeaseExisting(p) \/ JournalArena(p) \/ StageArena(p) \/ StageManifest(p)
    \/ PromoteArena(p) \/ SyncArena(p) \/ UnjournalArena(p) \/ EndLease(p) \/ Close(p)

Next ==
    \/ \E p \in Process : Claim(p) \/ Reconcile(p) \/ Create(p) \/ Fail(p) \/ Die(p)
    \/ PowerLoss

Spec == Init /\ [][Next]_vars

-----------------------------------------------------------------------------
(* Properties.                                                             *)

Place == {"idle", "look", "scan", "waitClaim", "waitUpgrade", "claim", "upgrade", "probeClaimed",
          "unprobeClaimed", "create", "probe", "unprobe", "layout", "waitCollection",
          "reconcile", "settle", "promote", "syncStaged", "unjournal", "lease", "stage",
          "manifest", "rename", "sync", "commit", "leased", "open", "refused"}

TypeOK ==
    /\ foreign \in BOOLEAN /\ layout \in BOOLEAN
    /\ marker \in Marker \cup {None}
    /\ probes \in SUBSET Process
    /\ initialization \in Process \cup {None} /\ collection \in Process \cup {None}
    /\ disk \in [Arena -> Staging \cup Final \cup {"none"}]
    /\ survives \in [Arena -> SUBSET (Staging \cup Final \cup {"none"})]
    /\ journal \in [Arena -> Nonce \cup {None}] /\ owner \in [Arena -> Nonce \cup {None}]
    /\ pc \in [Process -> Place] /\ loaded \in [Process -> Marker \cup {None}]
    /\ wants \in [Process -> Arena \cup {None}] /\ current \in [Process -> Arena \cup {None}]
    /\ faults \in 0..MaxFaults /\ losses \in 0..MaxLosses

Claiming == {"claim", "upgrade", "probeClaimed", "unprobeClaimed", "create"}
Collecting == {"reconcile", "settle", "promote", "syncStaged", "unjournal", "lease", "stage",
               "manifest", "rename", "sync", "commit"}
Creating == {"lease", "stage", "manifest", "rename", "sync", "commit"}
Opened == Collecting \cup {"probe", "unprobe", "layout", "waitCollection", "open", "leased"}

\* The locks of a place, and the marker that is known there.
LocksAt(p) ==
    /\ initialization = p <=> pc[p] \in Claiming
    /\ collection = p <=> pc[p] \in Collecting
    /\ pc[p] \in Opened => loaded[p] # None
    /\ loaded[p] # None => loaded[p].schema = 2
    /\ loaded[p] = None \/ pc[p] = "open" => wants[p] = None
    /\ pc[p] \in {"waitUpgrade", "upgrade"} => marker # None
    /\ pc[p] \in Claiming \ {"claim", "upgrade"} /\ loaded[p] = None => marker = None

LocksOK == \A p \in Process : LocksAt(p)

\* What a place knows of the arena it works on.
ArenaAt(p) ==
    /\ pc[p] \in Creating =>
         /\ wants[p] \in Arena
         /\ \A a \in Arena \ {wants[p]} : journal[a] = None
         /\ journal[wants[p]] = None <=> pc[p] = "lease"
    /\ pc[p] = "stage" => disk[wants[p]] = "none"
    /\ pc[p] = "manifest" => disk[wants[p]] = "empty"
    /\ pc[p] = "rename" => disk[wants[p]] = "begun"
    /\ pc[p] \in {"sync", "commit", "leased"} => wants[p] \in Arena /\ disk[wants[p]] = "leased"
    /\ pc[p] \in {"settle", "promote", "syncStaged", "unjournal"} =>
         current[p] \in Arena /\ journal[current[p]] # None
    /\ pc[p] = "settle" => disk[current[p]] = "begun"
    /\ pc[p] = "promote" => disk[current[p]] = "settled"
    /\ pc[p] \in {"syncStaged", "unjournal"} => disk[current[p]] \notin Staging

\* Nobody else is at work on a leased arena.
LeasedAlone ==
    \A p, q \in Process :
        pc[p] = "leased" /\ pc[q] \in {"sync", "commit", "leased"} /\ wants[p] = wants[q] => p = q

ArenaOK == LeasedAlone /\ \A p \in Process : ArenaAt(p)

\* Everybody who has the store open works with the marker that is on the disk, its UUID
\* and its key, although several processes claim a new root, or upgrade an old marker, at
\* the same time.
OneMarker == \A p \in Process : loaded[p] # None => loaded[p] = marker

\* The cleaning of an abandoned claim takes no probe away from a process that is about to
\* remove it.
ProbesKept == \A p \in Process : pc[p] \in {"unprobe", "unprobeClaimed"} => p \in probes

\* One initialization is under way at a time, whoever began it and however it ended:
\* reconciliation comes before the next.
OneJournal == \A a, b \in Arena : journal[a] # None /\ journal[b] # None => a = b

\* Until the power goes a staging directory has its journal, so that no crash and no
\* failure keeps the store from being opened.
StagingJournaled == losses = 0 => \A a \in Arena : ~Orphaned(a)

\* What the store holds belongs to it: journals and manifests carry the UUID of its marker.
OneStore ==
    \A a \in Arena : {journal[a], owner[a]} \subseteq {None} \cup {m.id : m \in {marker} \cap Marker}

\* A lease is granted on an arena that no loss of power takes away, as long as no
\* initialization was interrupted between its promotion and the synchronization of it.
LeaseDurable ==
    faults = 0 => \A p \in Process : pc[p] = "leased" => survives[wants[p]] = {"leased"}

\* What holds whatever fails.
Consistent ==
    /\ TypeOK /\ LocksOK /\ ArenaOK
    /\ OneMarker /\ ProbesKept /\ OneJournal /\ StagingJournaled /\ OneStore

\* a is at its final path, and p is about to make that durable.
Promoted(p, a) ==
    \/ pc[p] = "sync" /\ wants[p] = a
    \/ pc[p] = "syncStaged" /\ current[p] = a /\ disk[a] = "idle"

\* Without a fault nothing else is at its final path and may be lost.
Durable ==
    faults = 0 =>
        \A a \in Arena : disk[a] \in Final /\ (\A p \in Process : ~Promoted(p, a))
                             => survives[a] = {disk[a]}

\* The inductive invariant.
Inv == Consistent /\ Durable

\* The creation of arenas implements ArenaCreation: it is atomic, and lasts.
Arenas == INSTANCE ArenaCreation WITH
    arena <- [a \in Arena |-> IF disk[a] \in Final THEN disk[a] ELSE "absent"],
    kept <- {a \in Arena : survives[a] \subseteq Final}

CreationIsAtomic == Arenas!Spec

=============================================================================
