----------------------------- MODULE ArenaStore -----------------------------
(***************************************************************************)
(* The core of zhold: how sentinels lease arenas, how whole arenas are     *)
(* retired, and how one process finishes what a dead one left behind       *)
(* (crates/zhold-store: store/, collection/, manifest/; the order of calls *)
(* of a managed build is that of crates/zhold-cli command/cargo.rs).       *)
(*                                                                         *)
(* One step is what a process does between two points at which another    *)
(* process, or a crash, can tell the difference: a read-modify-write of a  *)
(* manifest under its metadata lock is one step, because the JSON file is  *)
(* replaced atomically and the lock excludes every other writer; creating  *)
(* a journal, renaming an arena, deleting a tree and deleting a journal    *)
(* are steps of their own.  A process that dies loses its locks and its    *)
(* memory, nothing else: the Cargo process tree it started may live on.    *)
(***************************************************************************)
EXTENDS Naturals, FiniteSets

CONSTANTS
    Arena,          \* compatibility identities, one directory each
    Process,        \* zhold processes: sentinels, collections, recoveries
    RetirementId,   \* the nonces (UUIDs) that retirements may draw
    None,           \* "no retirement id" and "no arena"
    Nobody,         \* a lock that is free
    MaxRevision,    \* bound: no new build or pin at this manifest revision
    MaxFaults       \* bound: crashes, failed or unconfirmed operations

ASSUME ArenaStoreAssumption ==
    /\ None \notin RetirementId \cup Arena
    /\ Nobody \notin Process
    /\ MaxRevision \in Nat /\ MaxFaults \in Nat

VARIABLES
    \* What is on disk.
    manifest,   \* arena -> its arena.json, or Absent when the directory is missing
    staged,     \* arenas whose initialization was cut short, waiting in `.init-*`
    journal,    \* the retirement journals in trash-index/
    trash,      \* the retirement ids that have a directory in trash/
    \* The world around the store.
    worktree,   \* arena -> does its Git worktree exist?
    cargo,      \* arena -> is a Cargo process tree alive in it?
    basis,      \* auxiliary: retirement id -> the eviction reason it was drawn for
    \* Operating-system locks.
    collection, \* holder of the collection lock
    arenaLock,  \* arena -> holder of the arena lock
    \* One process: where it is, the arena it builds in, its ArenaLease.stage.
    pc, arena, lease,
    \* Memory of the one process that holds the collection lock.
    records,    \* journals reconciliation has still to visit
    pending,    \* arenas the current pass has still to visit
    view,       \* the manifest the snapshot has just read
    plan,       \* evictions still to carry out
    uncertain,  \* did the snapshot meet a finding?
    victim,     \* the arena being retired or deleted
    nonce,      \* and its retirement id
    faults      \* how many crashes and failures there have been

diskVars == <<manifest, staged, journal, trash, basis>>
worldVars == <<worktree, cargo>>
lockVars == <<collection, arenaLock>>
leaseVars == <<arena, lease>>
passVars == <<records, pending, view, plan, uncertain>>
gcVars == <<passVars, victim, nonce>>
vars == <<diskVars, worldVars, lockVars, pc, leaseVars, gcVars, faults>>

-----------------------------------------------------------------------------
(* Manifests and journals.                                                 *)

Stage == {"reserved", "spawning", "spawned", "finalized"}

Absent == [stage |-> "absent", revision |-> 0, retirement |-> None, pinned |-> FALSE]

Manifest == [stage : Stage \cup {"absent"}, revision : Nat,
             retirement : RetirementId \cup {None}, pinned : BOOLEAN]

RetirementRecord == [id : RetirementId, arena : Arena, revision : Nat]

Eviction == [arena : Arena, revision : Nat, orphan : BOOLEAN]

Exists(a) == manifest[a].stage # "absent"

\* ArenaManifest::is_unfinished.
Unfinished(m) == m.stage \in {"reserved", "spawning", "spawned"}

\* ArenaManifest::begin: the only place that forgets an interrupted retirement.
Begin(m) == [m EXCEPT !.stage = "reserved", !.revision = @ + 1, !.retirement = None]

\* ArenaManifest::create followed by begin.
Created == Begin([Absent EXCEPT !.stage = "finalized"])

\* ArenaManifest::transition.
Advance(m, next) == [m EXCEPT !.stage = next, !.revision = @ + 1]

\* The table of ArenaManifest::finish.
FinishAllowed(stage, outcome) ==
    \/ stage \in {"reserved", "spawning"} /\ outcome = "NotStarted"
    \/ stage \in {"spawning", "spawned"} /\ outcome = "Terminated"
    \/ stage = "spawned" /\ outcome = "Exited"

Finished(m) == Advance(m, "finalized")

PrepareRetirement(m, id) == [m EXCEPT !.revision = @ + 1, !.retirement = id]

ClearRetirement(m) == PrepareRetirement(m, None)

\* Mutant of SetPin: a change of pin that is not a new revision.
SetPinSilently(m, pin) == [m EXCEPT !.pinned = pin]

\* set_pin with a change; the other one is is_pinned_at when the expiry has come.
SetPin(m, pin) == [m EXCEPT !.pinned = pin, !.revision = @ + 1]

ExpirePin(m) == [m EXCEPT !.pinned = FALSE]

JournalOf(id) == {rec \in journal : rec.id = id}

\* Mutant of Matches: the journal is compared by its id alone.
MatchesById(rec) == Exists(rec.arena) /\ manifest[rec.arena].retirement = rec.id

\* original_matches_record and validate_active_retirement.
Matches(rec) ==
    /\ Exists(rec.arena)
    /\ manifest[rec.arena].retirement = rec.id
    /\ manifest[rec.arena].revision = rec.revision

\* What reconcile_initializations_locked makes of the manifests: every staged
\* arena is finalized as never started and moved to its final place.
Promoted == [a \in Arena |-> IF a \in staged THEN Finished(Created) ELSE manifest[a]]

-----------------------------------------------------------------------------
(* Locks.  ExclusiveFileLock::probe takes an arena lock for a moment, and   *)
(* `status`, `scan` and `doctor` probe every arena without the collection  *)
(* lock: any try_acquire or probe here may fail on a lock that is free.    *)

Free(a) == arenaLock[a] = Nobody

\* A retirement takes the metadata lock of its arena with the intent and keeps
\* it until it is done; once the arena is renamed there is nothing left that it
\* guards.  Every other holder takes and drops it within one step.
MetadataFree(a) == ~ \E p \in Process : pc[p] \in {"journal", "rename"} /\ victim = a

Held(p) == {a \in Arena : arenaLock[a] = p}

\* Something goes wrong: a process dies, an operation of the system fails, or
\* a write is visible and not confirmed durable.  MaxFaults counts the first failures; a
\* failure of what an earlier one makes necessary (LeaveSuspect, RepairFails, DropLease) is
\* free, because the earlier one bounds it.
Fault == faults < MaxFaults /\ faults' = faults + 1

Fine == UNCHANGED faults

\* All of p's locks are dropped, as by a return or by the death of p.
Unlock(p) ==
    /\ arenaLock' = [a \in Arena |-> IF a \in Held(p) THEN Nobody ELSE arenaLock[a]]
    /\ collection' = IF collection = p THEN Nobody ELSE collection

Goto(p, place) == pc' = [pc EXCEPT ![p] = place]

SetLease(p, stage) == lease' = [lease EXCEPT ![p] = stage]

Write(a, m) == manifest' = [manifest EXCEPT ![a] = m]

ForgetPass ==
    /\ records' = {} /\ pending' = {} /\ plan' = {}
    /\ view' = Absent /\ uncertain' = FALSE

\* p leaves the store with nothing in its hands.
Leave(p) ==
    /\ Unlock(p)
    /\ Goto(p, "idle")
    /\ SetLease(p, "none")
    /\ arena' = [arena EXCEPT ![p] = None]

-----------------------------------------------------------------------------
Init ==
    /\ manifest \in [Arena -> {Absent, [Absent EXCEPT !.stage = "finalized", !.revision = 1]}]
    /\ staged = {} /\ journal = {} /\ trash = {}
    /\ worktree = [a \in Arena |-> TRUE]
    /\ cargo = [a \in Arena |-> FALSE]
    /\ basis = [id \in RetirementId |-> "unused"]
    /\ collection = Nobody
    /\ arenaLock = [a \in Arena |-> Nobody]
    /\ pc = [p \in Process |-> "idle"]
    /\ arena = [p \in Process |-> None]
    /\ lease = [p \in Process |-> "none"]
    /\ records = {} /\ pending = {} /\ plan = {}
    /\ view = Absent /\ uncertain = FALSE
    /\ victim = None /\ nonce = None
    /\ faults = 0

-----------------------------------------------------------------------------
(* Admission: Store::lease_reserved_and_collect.                           *)

\* A managed build asks for arena a; a lone `gc` asks for no arena.
StartBuild(p, a) ==
    /\ pc[p] = "idle" /\ worktree[a] /\ manifest[a].revision < MaxRevision
    /\ arena' = [arena EXCEPT ![p] = a]
    /\ Goto(p, "admit")
    /\ UNCHANGED <<diskVars, worldVars, lockVars, lease, gcVars, faults>>

StartCollection(p) ==
    /\ pc[p] = "idle"
    /\ Goto(p, "gc")
    /\ UNCHANGED <<diskVars, worldVars, lockVars, leaseVars, gcVars, faults>>

\* Store::open repairs interrupted initializations under the collection lock.
OpenStore(p) ==
    /\ pc[p] = "idle" /\ collection = Nobody /\ staged # {}
    /\ manifest' = Promoted
    /\ staged' = {}
    /\ UNCHANGED <<journal, trash, basis, worldVars, lockVars, pc, leaseVars, gcVars, faults>>

\* Mutant of AcquireCollection: the lock is shared instead of exclusive.
AcquireCollectionShared(p) ==
    /\ collection' = p
    /\ \/ pc[p] = "admit" /\ Goto(p, "tryArena") /\ UNCHANGED records
       \/ pc[p] = "gc" /\ Goto(p, "reconcile") /\ records' = {rec.id : rec \in journal}
    /\ UNCHANGED <<diskVars, worldVars, arenaLock, leaseVars, pending, view, plan, uncertain,
                   victim, nonce, faults>>

\* reconcile_locked starts by listing the journals.
AcquireCollection(p) ==
    /\ collection = Nobody
    /\ collection' = p
    /\ \/ pc[p] = "admit" /\ Goto(p, "tryArena") /\ UNCHANGED gcVars
       \/ /\ pc[p] = "gc" /\ Goto(p, "reconcile")
          /\ records' = {rec.id : rec \in journal}
          /\ UNCHANGED <<pending, view, plan, uncertain, victim, nonce>>
    /\ UNCHANGED <<diskVars, worldVars, arenaLock, leaseVars, faults>>

\* Mutant of TryArena: it waits for the arena with the collection lock in hand.
TryArenaHoldingCollection(p) ==
    /\ pc[p] = "tryArena"
    /\ \/ /\ Free(arena[p])
          /\ arenaLock' = [arenaLock EXCEPT ![arena[p]] = p]
          /\ Goto(p, "lease")
       \/ Goto(p, "waitArena") /\ UNCHANGED arenaLock
    /\ UNCHANGED <<diskVars, worldVars, collection, leaseVars, gcVars, faults>>

\* admission_locks: never wait for an arena with the collection lock in hand.
TryArena(p) ==
    /\ pc[p] = "tryArena"
    /\ \/ /\ Free(arena[p])
          /\ arenaLock' = [arenaLock EXCEPT ![arena[p]] = p]
          /\ Goto(p, "lease") /\ UNCHANGED collection
       \/ /\ collection' = Nobody
          /\ Goto(p, "waitArena") /\ UNCHANGED arenaLock
    /\ UNCHANGED <<diskVars, worldVars, leaseVars, gcVars, faults>>

\* It waits without, takes the lock, drops it again and starts over.
WaitArena(p) ==
    /\ pc[p] = "waitArena" /\ Free(arena[p])
    /\ Goto(p, "admit")
    /\ UNCHANGED <<diskVars, worldVars, lockVars, leaseVars, gcVars, faults>>

(* lease_reserved_locked: interrupted initializations are settled first,   *)
(* then the arena is reused or created.                                    *)

StartReconciliation == records' = {rec.id : rec \in journal}

\* Mutant of LeaseExisting: it does not ask whether the manifest is unfinished.
LeaseUnfinished(p) ==
    /\ pc[p] = "lease"
    /\ Promoted[arena[p]].stage # "absent"
    /\ manifest' = [Promoted EXCEPT ![arena[p]] = Begin(@)]
    /\ staged' = {}
    /\ SetLease(p, "reserved") /\ Goto(p, "reconcile") /\ StartReconciliation
    /\ UNCHANGED <<journal, trash, basis, worldVars, lockVars, arena, pending, view,
                   plan, uncertain, victim, nonce, faults>>

\* lease_existing.  The second disjunct is a manifest that became visible but
\* was not confirmed durable: the new lease is dropped again.
LeaseExisting(p) ==
    LET a == arena[p] IN
    /\ pc[p] = "lease"
    /\ Promoted[a].stage = "finalized"
    /\ manifest' = [Promoted EXCEPT ![a] = Begin(@)]
    /\ staged' = {}
    /\ SetLease(p, "reserved")
    /\ \/ Goto(p, "reconcile") /\ StartReconciliation /\ Fine
       \/ Goto(p, "drop") /\ UNCHANGED records /\ Fault
    /\ UNCHANGED <<journal, trash, basis, worldVars, lockVars, arena, pending, view,
                   plan, uncertain, victim, nonce>>

\* lease_new up to the promotion of the staged arena; the second disjunct is
\* a failure after the rename.
LeaseNew(p) ==
    LET a == arena[p] IN
    /\ pc[p] = "lease"
    /\ Promoted[a].stage = "absent"
    /\ manifest' = [Promoted EXCEPT ![a] = Created]
    /\ staged' = {}
    /\ SetLease(p, "reserved")
    /\ \/ Goto(p, "reconcile") /\ StartReconciliation /\ Fine
       \/ Goto(p, "drop") /\ UNCHANGED records /\ Fault
    /\ UNCHANGED <<journal, trash, basis, worldVars, lockVars, arena, pending, view,
                   plan, uncertain, victim, nonce>>

\* lease_new fails, or p dies in it, with the arena assembled but not promoted.
LeaseNewInterrupted(p) ==
    /\ pc[p] = "lease"
    /\ Promoted[arena[p]].stage = "absent"
    /\ manifest' = Promoted
    /\ staged' = {arena[p]}
    /\ Leave(p) /\ Fault
    /\ UNCHANGED <<journal, trash, basis, worldVars, gcVars>>

\* ArenaSuspect, or any error before the manifest is written.
LeaseRefused(p) ==
    /\ pc[p] = "lease"
    /\ \/ /\ Unfinished(Promoted[arena[p]]) /\ Fine
          /\ manifest' = Promoted /\ staged' = {}
       \/ Fault /\ UNCHANGED <<manifest, staged>>
    /\ Leave(p)
    /\ UNCHANGED <<journal, trash, basis, worldVars, gcVars>>

-----------------------------------------------------------------------------
(* Reconciliation: reconcile_locked, the first half of every collection.   *)

\* Reconciliation gives up on this journal, for now.
SkipRecord(id) ==
    /\ records' = records \ {id}
    /\ UNCHANGED <<diskVars, lockVars, pc, victim, nonce>>

\* try_acquire of the arena lock, then on to `place` with it.
TakeVictim(p, a, id, place) ==
    /\ arenaLock' = [arenaLock EXCEPT ![a] = p]
    /\ victim' = a /\ nonce' = id
    /\ Goto(p, place)
    /\ UNCHANGED <<collection, records>>

\* Neither directory is left: only the journal has to go.
CompleteRecord(rec) ==
    /\ ~Exists(rec.arena) /\ rec.id \notin trash
    /\ records' = records \ {rec.id}
    /\ journal' = journal \ {rec}
    /\ UNCHANGED <<manifest, staged, trash, basis, lockVars, pc, victim, nonce>>

\* resume_retirement: the arena is still in place; rename it now.
ResumeRetirement(p, rec) ==
    /\ Exists(rec.arena) /\ rec.id \notin trash
    /\ Free(rec.arena) /\ Matches(rec)
    /\ Write(rec.arena, Absent)
    /\ trash' = trash \cup {rec.id}
    /\ TakeVictim(p, rec.arena, rec.id, "purge")
    /\ UNCHANGED <<staged, journal, basis>>

\* delete_retired: beside the trash there is no arena, or another incarnation.
DeleteRetired(p, rec) ==
    /\ rec.id \in trash /\ ~Matches(rec)
    /\ Free(rec.arena)
    /\ TakeVictim(p, rec.arena, rec.id, "purge")
    /\ UNCHANGED diskVars

\* ArenaActive, "no longer matches its retirement journal", "has both its
\* original and trash directory", or an I/O error.
RecordFails(rec) == SkipRecord(rec.id)

ReconcileRecord(p) ==
    /\ pc[p] = "reconcile"
    /\ \E rec \in journal :
         /\ rec.id \in records
         /\ \/ CompleteRecord(rec)
            \/ ResumeRetirement(p, rec)
            \/ DeleteRetired(p, rec)
            \/ RecordFails(rec)
    /\ Fine
    /\ UNCHANGED <<worldVars, leaseVars, pending, view, plan, uncertain>>

EndReconcile(p) ==
    /\ pc[p] = "reconcile" /\ records = {}
    /\ pending' = {a \in Arena : Exists(a)}
    /\ Goto(p, "repair")
    /\ UNCHANGED <<diskVars, worldVars, lockVars, leaseVars, records, view, plan,
                   uncertain, victim, nonce, faults>>

\* repair_orphaned_intents: an intent whose journal was never created is
\* rolled back.  An arena whose lock is found held is passed over.
OrphanedIntent(a) == manifest[a].retirement # None /\ JournalOf(manifest[a].retirement) = {}

RepairIntent(p) ==
    /\ pc[p] = "repair"
    /\ \E a \in pending :
         /\ pending' = pending \ {a}
         /\ \/ /\ OrphanedIntent(a) /\ Free(a)
               /\ Write(a, ClearRetirement(manifest[a]))
            \/ UNCHANGED manifest
    /\ UNCHANGED <<staged, journal, trash, basis, worldVars, lockVars, pc, leaseVars,
                   records, view, plan, uncertain, victim, nonce, faults>>

\* The collection ends with an error: a preflight drops its lease, a lone
\* collection just returns.
AbortCollection(p) ==
    /\ ForgetPass
    /\ IF lease[p] = "none" THEN Leave(p)
                            ELSE Goto(p, "drop") /\ UNCHANGED <<lockVars, leaseVars>>
    /\ UNCHANGED <<victim, nonce>>

\* A rewritten manifest is visible but not confirmed durable.
RepairFails(p) ==
    /\ pc[p] = "repair"
    /\ \E a \in pending :
         /\ OrphanedIntent(a) /\ Free(a)
         /\ Write(a, ClearRetirement(manifest[a]))
    /\ AbortCollection(p) /\ Fine
    /\ UNCHANGED <<staged, journal, trash, basis, worldVars>>

\* Any other error that collect_locked returns: a directory that cannot be
\* listed, a tree that cannot be measured, a refused quota.
CollectionFails(p) ==
    /\ \/ pc[p] \in {"reconcile", "repair", "scan"}
       \/ pc[p] = "retire" /\ plan = {}
    /\ AbortCollection(p) /\ Fault
    /\ UNCHANGED <<diskVars, worldVars>>

\* `gc --trash-only` (Store::retry_trash) stops here; a collection goes on to its snapshot,
\* in which every staged arena is a finding.
EndRepair(p) ==
    /\ pc[p] = "repair" /\ pending = {}
    /\ \/ /\ lease[p] = "none"
          /\ ForgetPass /\ Leave(p)
       \/ /\ pending' = {a \in Arena : Exists(a)}
          /\ uncertain' = (staged # {})
          /\ plan' = {}
          /\ Goto(p, "scan")
          /\ UNCHANGED <<lockVars, leaseVars, records, view>>
    /\ UNCHANGED <<diskVars, worldVars, victim, nonce, faults>>

-----------------------------------------------------------------------------
(* Snapshot and plan: read_arena_snapshot and plan_collection.             *)

\* read_entry reads the manifest first ...
ReadManifest(p) ==
    /\ pc[p] = "scan"
    /\ \E a \in pending :
         /\ pending' = pending \ {a}
         /\ victim' = a
         /\ view' = manifest[a]
    /\ Goto(p, "probe")
    /\ UNCHANGED <<diskVars, worldVars, lockVars, leaseVars, records, plan, uncertain,
                   nonce, faults>>

\* Mutant of ProbeLock: a free lock alone makes a candidate.
ProbeLockOnly(p) ==
    /\ pc[p] = "probe"
    /\ \/ /\ Free(victim) /\ ~view.pinned
          /\ plan' = plan \cup {[arena |-> victim, revision |-> view.revision,
                                 orphan |-> ~worktree[victim]]}
       \/ UNCHANGED plan
    /\ uncertain' = (uncertain \/ view.retirement # None)
    /\ view' = Absent /\ victim' = None
    /\ Goto(p, "scan")
    /\ UNCHANGED <<diskVars, worldVars, lockVars, leaseVars, records, pending, nonce, faults>>

\* ... and probes the arena lock afterwards.  Only an Inactive, unpinned arena
\* is a candidate; an unresolved intent makes the inventory uncertain.
ProbeLock(p) ==
    /\ pc[p] = "probe"
    /\ \/ /\ Free(victim) /\ ~Unfinished(view) /\ ~view.pinned
          /\ plan' = plan \cup {[arena |-> victim, revision |-> view.revision,
                                 orphan |-> ~worktree[victim]]}
       \/ UNCHANGED plan
    /\ uncertain' = (uncertain \/ view.retirement # None)
    /\ view' = Absent /\ victim' = None
    /\ Goto(p, "scan")
    /\ UNCHANGED <<diskVars, worldVars, lockVars, leaseVars, records, pending, nonce, faults>>

\* InventoryUncertain, or the planner's choice among the candidates: which of
\* them have to go is a matter of sizes and budget, left open here.
EndScan(p) ==
    /\ pc[p] = "scan" /\ pending = {}
    /\ \/ /\ uncertain
          /\ AbortCollection(p)
       \/ /\ ~uncertain
          /\ plan' \in SUBSET plan
          /\ Goto(p, "retire")
          /\ UNCHANGED <<lockVars, leaseVars, records, pending, view, uncertain, victim,
                         nonce>>
    /\ UNCHANGED <<diskVars, worldVars, faults>>

-----------------------------------------------------------------------------
(* Retirement: retire, and the deletion it shares with reconciliation.     *)

\* Mutant of StillEvictable: the plan is trusted.
StillThere(e) == Free(e.arena) /\ Exists(e.arena)

\* Everything retire re-reads under the arena and the metadata lock.
StillEvictable(e) ==
    /\ Free(e.arena)
    /\ Exists(e.arena)
    /\ manifest[e.arena].revision = e.revision
    /\ ~manifest[e.arena].pinned
    /\ ~(e.orphan /\ worktree[e.arena])

Fresh(id) == basis[id] = "unused"

\* prepare_retirement is written.  When its durability is not confirmed the
\* eviction is skipped, the intent stays.
Retire(p) ==
    /\ pc[p] = "retire"
    /\ \E e \in plan, id \in RetirementId :
         /\ StillEvictable(e) /\ Fresh(id)
         /\ plan' = plan \ {e}
         /\ Write(e.arena, PrepareRetirement(manifest[e.arena], id))
         /\ basis' = [basis EXCEPT ![id] = IF e.orphan THEN "orphan" ELSE "idle"]
         /\ \/ TakeVictim(p, e.arena, id, "journal") /\ Fine
            \/ UNCHANGED <<lockVars, pc, records, victim, nonce>> /\ Fault
    /\ UNCHANGED <<staged, journal, trash, worldVars, leaseVars, pending, view, uncertain>>

\* A changed candidate, any error before the intent is written, or no nonce
\* left within the bound.
SkipEviction(p) ==
    /\ pc[p] = "retire"
    /\ \E e \in plan : plan' = plan \ {e}
    /\ UNCHANGED <<diskVars, worldVars, lockVars, pc, leaseVars, records, pending, view,
                   uncertain, victim, nonce, faults>>

\* The victim's lock is dropped and the pass goes on where it came from:
\* reconciliation still has the nonce on its list, retirement never had.
Return(p) ==
    /\ arenaLock' = [arenaLock EXCEPT ![victim] = Nobody]
    /\ Goto(p, IF nonce \in records THEN "reconcile" ELSE "retire")
    /\ records' = records \ {nonce}
    /\ victim' = None /\ nonce' = None
    /\ UNCHANGED <<collection, worldVars, leaseVars, pending, view, plan, uncertain>>

Step(p, place) ==
    /\ Goto(p, place)
    /\ UNCHANGED <<worldVars, lockVars, leaseVars, gcVars>>

\* create_json: published, published but unconfirmed, or not published.
CreateJournal(p) ==
    LET rec == [id |-> nonce, arena |-> victim, revision |-> manifest[victim].revision] IN
    /\ pc[p] = "journal"
    /\ \/ journal' = journal \cup {rec} /\ Step(p, "rename") /\ Fine
       \/ journal' \in {journal, journal \cup {rec}} /\ Return(p) /\ Fault
    /\ UNCHANGED <<manifest, staged, trash, basis>>

\* The arena moves to trash/ as a whole; a failed rename takes the journal
\* back, if it can.
RenameArena(p) ==
    /\ pc[p] = "rename"
    /\ \/ /\ Write(victim, Absent)
          /\ trash' = trash \cup {nonce}
          /\ Step(p, "purge") /\ Fine /\ UNCHANGED journal
       \/ /\ journal' \in {journal, journal \ JournalOf(nonce)}
          /\ Return(p) /\ Fault /\ UNCHANGED <<manifest, trash>>
    /\ UNCHANGED <<staged, basis>>

PurgeTrash(p) ==
    /\ pc[p] = "purge"
    /\ \/ trash' = trash \ {nonce} /\ Step(p, "unjournal") /\ Fine
       \/ UNCHANGED trash /\ Return(p) /\ Fault
    /\ UNCHANGED <<manifest, staged, journal, basis>>

RemoveJournal(p) ==
    /\ pc[p] = "unjournal"
    /\ \/ journal' = journal \ JournalOf(nonce) /\ Fine
       \/ UNCHANGED journal /\ Fault
    /\ Return(p)
    /\ UNCHANGED <<manifest, staged, trash, basis>>

\* Mutant of EndRetire: a preflight returns with every lock released.
EndRetireUnlocked(p) ==
    /\ pc[p] = "retire" /\ plan = {}
    /\ ForgetPass
    /\ IF lease[p] = "none" THEN Leave(p) ELSE Goto(p, "admitted") /\ Unlock(p) /\ UNCHANGED leaseVars
    /\ UNCHANGED <<diskVars, worldVars, victim, nonce, faults>>

\* The confirming snapshot only feeds the report.  A preflight returns its
\* lease with the collection lock released.
EndRetire(p) ==
    /\ pc[p] = "retire" /\ plan = {}
    /\ ForgetPass
    /\ IF lease[p] = "none"
          THEN Leave(p)
          ELSE Goto(p, "admitted") /\ collection' = Nobody /\ UNCHANGED <<arenaLock, leaseVars>>
    /\ UNCHANGED <<diskVars, worldVars, victim, nonce, faults>>

-----------------------------------------------------------------------------
(* A managed build, from its admission to its final record (cargo.rs).     *)

\* The budget is not met, or the volume has too little free space: the lease
\* is given back unused.
AbortAdmitted(p) ==
    /\ pc[p] = "admitted"
    /\ Goto(p, "finish")
    /\ UNCHANGED <<diskVars, worldVars, lockVars, leaseVars, gcVars, faults>>

\* transition_lifecycle under the metadata lock.  write_json may report an error
\* although the new manifest is visible; the in-memory stage then stays behind.
Transition(p, from, next, success, failure) ==
    LET a == arena[p] IN
    /\ manifest[a].stage = from
    /\ \/ Write(a, Advance(manifest[a], next)) /\ SetLease(p, next) /\ Goto(p, success) /\ Fine
       \/ /\ Write(a, Advance(manifest[a], next)) \/ UNCHANGED manifest
          /\ UNCHANGED lease /\ Goto(p, failure) /\ Fault
    /\ UNCHANGED <<staged, journal, trash, basis, worldVars, lockVars, arena, gcVars>>

MarkSpawning(p) ==
    /\ pc[p] = "admitted"
    /\ Transition(p, "reserved", "spawning", "spawning", "drop")

\* CargoSupervisor::spawn creates the process group before it reports it.
Fork(p) ==
    /\ pc[p] = "spawning"
    /\ \/ cargo' = [cargo EXCEPT ![arena[p]] = TRUE] /\ Goto(p, "forked") /\ Fine
       \/ Goto(p, "finish") /\ UNCHANGED cargo /\ Fault
    /\ UNCHANGED <<diskVars, worktree, lockVars, leaseVars, gcVars>>

MarkSpawned(p) ==
    /\ pc[p] = "forked"
    /\ Transition(p, "spawning", "spawned", "running", "cleanup")

\* Supervision fails, during its setup or while it waits.
SupervisionFails(p) ==
    /\ pc[p] = "running"
    /\ Goto(p, "cleanup") /\ Fault
    /\ UNCHANGED <<diskVars, worldVars, lockVars, leaseVars, gcVars>>

\* try_wait, or terminate_and_wait after a failure, has seen the group die.
TreeExits(p) ==
    /\ pc[p] \in {"running", "cleanup"} /\ ~cargo[arena[p]]
    /\ Goto(p, IF pc[p] = "running" THEN "exited" ELSE "finish")
    /\ UNCHANGED <<diskVars, worldVars, lockVars, leaseVars, gcVars, faults>>

\* Mutant of LeaveSuspect: the outcome is recorded although it is not confirmed.
LeaveFinalized(p) ==
    /\ pc[p] = "cleanup"
    /\ Write(arena[p], Finished(manifest[arena[p]]))
    /\ Leave(p) /\ Fine
    /\ UNCHANGED <<staged, journal, trash, basis, worldVars, gcVars>>

\* leave_suspect, when the cleanup could not be confirmed.
LeaveSuspect(p) ==
    /\ pc[p] = "cleanup"
    /\ Leave(p) /\ Fine
    /\ UNCHANGED <<diskVars, worldVars, gcVars>>

\* The outcome that each path reports: finish_not_started and
\* finish_spawn_failed, finish_aborted, finish_with_observation.
Outcomes(p) ==
    CASE pc[p] = "exited" -> {"Exited", "Terminated"}
      [] pc[p] = "finish" /\ lease[p] = "reserved" -> {"NotStarted"}
      [] pc[p] = "finish" /\ lease[p] = "spawned" -> {"Terminated"}
      [] OTHER -> {"NotStarted", "Terminated"}

\* ArenaLease::finish_observed.  Once the final manifest is visible the locks are
\* dropped, whether or not it is durable; an error then ends the process, and
\* only a regular exit is followed by a collection.
Finish(p) ==
    /\ pc[p] \in {"finish", "exited"}
    /\ \E outcome \in Outcomes(p) : FinishAllowed(manifest[arena[p]].stage, outcome)
    /\ Write(arena[p], Finished(manifest[arena[p]]))
    /\ Unlock(p)
    /\ SetLease(p, "none")
    /\ arena' = [arena EXCEPT ![p] = None]
    /\ \/ Goto(p, IF pc[p] = "exited" THEN "gc" ELSE "idle") /\ Fine
       \/ Goto(p, "idle") /\ Fault
    /\ UNCHANGED <<staged, journal, trash, basis, worldVars, gcVars>>

\* finish_observed fails before its manifest is published, or is refused by it:
\* the lease is dropped as it is.
FinishFails(p) ==
    /\ pc[p] \in {"finish", "exited"}
    /\ Goto(p, "drop") /\ Fault
    /\ UNCHANGED <<diskVars, worldVars, lockVars, leaseVars, gcVars>>

\* Drop for ArenaLease: a lease that never got as far as Spawning is finalized
\* as not started, if that can still be written; any other is abandoned.
DropLease(p) ==
    /\ pc[p] = "drop"
    /\ \/ /\ lease[p] = "reserved" /\ FinishAllowed(manifest[arena[p]].stage, "NotStarted")
          /\ Write(arena[p], Finished(manifest[arena[p]]))
       \/ UNCHANGED manifest
    /\ Leave(p) /\ Fine
    /\ UNCHANGED <<staged, journal, trash, basis, worldVars, gcVars>>

-----------------------------------------------------------------------------
(* The operator, Git, Cargo, and the death of a process.                   *)

CargoExits(a) ==
    /\ cargo[a]
    /\ cargo' = [cargo EXCEPT ![a] = FALSE]
    /\ UNCHANGED <<diskVars, worktree, lockVars, pc, leaseVars, gcVars, faults>>

\* Store::recover_suspect, by an operator who asserts with --terminated that
\* the process tree is gone.
Recover(a) ==
    /\ collection = Nobody /\ Free(a)
    /\ Unfinished(manifest[a]) /\ ~cargo[a]
    /\ Write(a, Finished(manifest[a]))
    /\ UNCHANGED <<staged, journal, trash, basis, worldVars, lockVars, pc, leaseVars, gcVars, faults>>

\* Store::update_pin needs the metadata lock only.  A pin may stay a pin with
\* another expiry, which is a new revision too.
UpdatePin(a, pin) ==
    /\ Exists(a) /\ MetadataFree(a) /\ manifest[a].revision < MaxRevision
    /\ Write(a, SetPin(manifest[a], pin))
    /\ UNCHANGED <<staged, journal, trash, basis, worldVars, lockVars, pc, leaseVars, gcVars, faults>>

\* is_pinned_at: time runs out on a pin without a write.
PinExpires(a) ==
    /\ manifest[a].pinned
    /\ Write(a, ExpirePin(manifest[a]))
    /\ UNCHANGED <<staged, journal, trash, basis, worldVars, lockVars, pc, leaseVars, gcVars, faults>>

\* The Git worktree is removed, or comes back.
WorktreeChanges(a) ==
    /\ worktree' = [worktree EXCEPT ![a] = ~@]
    /\ UNCHANGED <<diskVars, cargo, lockVars, pc, leaseVars, gcVars, faults>>

\* p dies.  The manifests, journals and directories stay as they are, and so
\* does the Cargo tree that p had started.
Crash(p) ==
    /\ pc[p] # "idle"
    /\ Leave(p) /\ Fault
    /\ IF collection = p
          THEN ForgetPass /\ victim' = None /\ nonce' = None
          ELSE UNCHANGED gcVars
    /\ UNCHANGED <<diskVars, worldVars>>

-----------------------------------------------------------------------------
(* The specification.                                                      *)

Admit(p) ==
    \/ AcquireCollection(p) \/ TryArena(p) \/ WaitArena(p)
    \/ LeaseExisting(p) \/ LeaseNew(p) \/ LeaseNewInterrupted(p) \/ LeaseRefused(p)

Collect(p) ==
    \/ ReconcileRecord(p) \/ EndReconcile(p)
    \/ RepairIntent(p) \/ RepairFails(p) \/ CollectionFails(p) \/ EndRepair(p)
    \/ ReadManifest(p) \/ ProbeLock(p) \/ EndScan(p)
    \/ Retire(p) \/ SkipEviction(p) \/ EndRetire(p)
    \/ CreateJournal(p) \/ RenameArena(p) \/ PurgeTrash(p) \/ RemoveJournal(p)

Build(p) ==
    \/ AbortAdmitted(p) \/ MarkSpawning(p) \/ Fork(p) \/ MarkSpawned(p)
    \/ SupervisionFails(p) \/ TreeExits(p) \/ LeaveSuspect(p)
    \/ Finish(p) \/ FinishFails(p) \/ DropLease(p)

Start(p) == StartCollection(p) \/ OpenStore(p) \/ \E a \in Arena : StartBuild(p, a)

Environment(a) ==
    \/ CargoExits(a) \/ Recover(a) \/ PinExpires(a) \/ WorktreeChanges(a)
    \/ \E pin \in BOOLEAN : UpdatePin(a, pin)

Next ==
    \/ \E p \in Process : Start(p) \/ Admit(p) \/ Collect(p) \/ Build(p) \/ Crash(p)
    \/ \E a \in Arena : Environment(a)

Spec == Init /\ [][Next]_vars

\* A running process takes its next step; locks are handed out sooner or later
\* only where the operating system lets them be.  Nothing makes Cargo exit, an
\* operator recover, or anyone start a build or a collection.
FairSpec == Spec /\ \A p \in Process : WF_vars(Admit(p) \/ Collect(p) \/ Build(p))

-----------------------------------------------------------------------------
(* Properties.                                                             *)

\* The places a process can be in.
Place == {"idle", "admit", "gc", "tryArena", "waitArena", "lease",
          "reconcile", "repair", "scan", "probe", "retire", "journal", "rename",
          "purge", "unjournal", "admitted", "spawning", "forked", "running",
          "cleanup", "exited", "finish", "drop"}

DiskType ==
    /\ manifest \in [Arena -> Manifest]
    /\ staged \in SUBSET Arena
    /\ journal \in SUBSET RetirementRecord
    /\ trash \in SUBSET RetirementId
    /\ worktree \in [Arena -> BOOLEAN] /\ cargo \in [Arena -> BOOLEAN]
    /\ basis \in [RetirementId -> {"unused", "idle", "orphan"}]

ProcessType ==
    /\ collection \in Process \cup {Nobody}
    /\ arenaLock \in [Arena -> Process \cup {Nobody}]
    /\ pc \in [Process -> Place]
    /\ arena \in [Process -> Arena \cup {None}]
    /\ lease \in [Process -> {"none", "reserved", "spawning", "spawned"}]
    /\ faults \in Nat

PassType ==
    /\ records \in SUBSET RetirementId
    /\ pending \in SUBSET Arena
    /\ view \in Manifest
    /\ plan \in SUBSET Eviction
    /\ uncertain \in BOOLEAN
    /\ victim \in Arena \cup {None} /\ nonce \in RetirementId \cup {None}

\* Every variable keeps to its type; a lock has one holder at most.
TypeOK == DiskType /\ ProcessType /\ PassType

Leased(a) == \E p \in Process : lease[p] # "none" /\ arena[p] = a

Quiescent(a) == manifest[a].stage = "finalized" /\ ~cargo[a] /\ ~Leased(a)

\* A Cargo process tree only ever runs in an arena whose manifest says so,
\* whoever crashed: nothing that finds the arena unlocked can mistake it for idle.
CargoTreeProtected ==
    \A a \in Arena : cargo[a] => manifest[a].stage \in {"spawning", "spawned"}

\* An ArenaLease holds its arena's lock for as long as it lives, and its stage is
\* the one on disk or, after an unconfirmed write, the one before it.
LeaseDiskAgree ==
    \A p \in Process :
        /\ lease[p] # "none" => arenaLock[arena[p]] = p
        /\ lease[p] = "reserved" => manifest[arena[p]].stage \in {"reserved", "spawning"}
        /\ lease[p] = "spawning" => manifest[arena[p]].stage \in {"spawning", "spawned"}
        /\ lease[p] = "spawned" => manifest[arena[p]].stage = "spawned"

\* Whatever lies in trash/ has a journal that authorizes its deletion: the
\* journal is written before the rename and deleted after the tree.
TrashJournaled == \A id \in trash : JournalOf(id) # {}

\* A journal that reconciliation would resume names an arena that nobody has
\* touched since: not leased, not built in, not pinned, not recovered.
ResumableIsQuiescent ==
    \A rec \in journal :
        Matches(rec) => Quiescent(rec.arena) /\ ~manifest[rec.arena].pinned

\* A planned eviction whose revision is still current is about an arena in which
\* nothing has started since the snapshot, although its lock was probed after its
\* manifest was read and neither was held.
PlannedIsQuiescent ==
    \A e \in plan :
        Exists(e.arena) /\ manifest[e.arena].revision = e.revision => Quiescent(e.arena)

\* An arena leaves its place only while it is finished, unpinned, unleased and
\* free of Cargo, however the retirement was interrupted and resumed.
RetireOnlyQuiescent ==
    [][\A a \in Arena :
          Exists(a) /\ ~Exists(a)' => Quiescent(a) /\ ~manifest[a].pinned]_vars

Suspect(a) == Unfinished(manifest[a]) /\ ~Leased(a)

\* The arena of a dead sentinel is neither reused nor retired: the only way on is
\* a recovery, and only when its Cargo tree is gone.
SuspectNeedsRecovery ==
    [][\A a \in Arena :
          Suspect(a) =>
              \/ manifest'[a].stage = manifest[a].stage
              \/ manifest'[a].stage = "finalized" /\ ~cargo[a]]_vars

\* No admission, collection or recovery keeps the collection lock for good, not
\* even while a build runs forever in the arena that an admission wants.
CollectionLockReleased == \A p \in Process : collection = p ~> collection # p

\* docs/design.md:46-48 and docs/safety.md:21-31: worktree state is revalidated
\* immediately before a retirement, and an orphan is only eligible while its
\* worktree has not reappeared.  Said of the retirements that reconciliation
\* resumes, possibly long after the collection that planned them was interrupted.
ResumeRechecksWorktree ==
    [][\A p \in Process, a \in Arena :
          pc[p] = "reconcile" /\ Exists(a) /\ ~Exists(a)' /\ basis[manifest[a].retirement] = "orphan"
              => ~worktree[a]]_vars

-----------------------------------------------------------------------------
(* An inductive invariant: why the properties above hold.                  *)

Admitting == {"admit", "tryArena", "waitArena", "lease"}
Collecting == {"reconcile", "repair", "scan", "probe", "retire",
               "journal", "rename", "purge", "unjournal"}
Retiring == {"journal", "rename", "purge", "unjournal"}

\* How far a process has come tells the stage of its lease.
LeaseFollowsPlace ==
    \A p \in Process :
        /\ pc[p] \in {"idle", "gc"} \cup Admitting => lease[p] = "none"
        /\ pc[p] \in Collecting => lease[p] \in {"none", "reserved"}
        /\ pc[p] = "admitted" => lease[p] = "reserved"
        /\ pc[p] \in {"spawning", "forked"} => lease[p] = "spawning"
        /\ pc[p] = "cleanup" => lease[p] \in {"spawning", "spawned"}
        /\ pc[p] \in {"running", "exited"} => lease[p] = "spawned"
        /\ pc[p] \in {"finish", "drop"} => lease[p] # "none"

\* What a process has named at each place, and who collects.
PlaceOK ==
    \A p \in Process :
        /\ pc[p] \in Admitting \/ lease[p] # "none" => arena[p] \in Arena
        /\ pc[p] \in {"tryArena", "lease"} \cup Collecting => collection = p
        /\ pc[p] \in {"probe"} \cup Retiring => victim \in Arena
        /\ pc[p] \in Retiring => nonce \in RetirementId

\* The arena locks a process holds at each place.
LocksFollowPlace ==
    \A p \in Process :
        /\ pc[p] = "lease" => arenaLock[arena[p]] = p
        /\ pc[p] \in Retiring => arenaLock[victim] = p /\ (lease[p] # "none" => victim # arena[p])

\* Cargo cannot be alive before it is forked or after it was seen to exit.
NoCargoYet ==
    \A p \in Process :
        lease[p] = "reserved" \/ pc[p] \in {"spawning", "finish", "exited"} => ~cargo[arena[p]]

\* A staged arena has no place among the arenas yet.
StagedIsAbsent == \A a \in staged : ~Exists(a)

\* A read of the manifest is not newer than the manifest.
ViewIsOld ==
    \A p \in Process :
        pc[p] = "probe" /\ Exists(victim) =>
            /\ view.revision <= manifest[victim].revision
            /\ view.revision = manifest[victim].revision => view.stage = manifest[victim].stage

\* A planned eviction was read from this manifest as it is, or it has moved on.
PlanIsOld ==
    \A e \in plan :
        Exists(e.arena) =>
            /\ e.revision <= manifest[e.arena].revision
            /\ e.revision = manifest[e.arena].revision => manifest[e.arena].stage = "finalized"

\* There is a plan only between a snapshot and the end of its pass.
PlanFollowsPlace ==
    /\ records # {} => plan = {}
    /\ \A p \in Process :
          /\ pc[p] \in {"reconcile", "repair"} => plan = {}
          /\ pc[p] \in {"repair", "scan", "probe", "retire", "journal", "rename"} => records = {}
          /\ pc[p] \in {"purge", "unjournal"} => records = {} \/ nonce \in records
          /\ collection = p /\ pc[p] \notin Collecting => plan = {} /\ records = {}
    /\ collection = Nobody => plan = {} /\ records = {}

\* From the intent to the rename nothing about the victim changes.
VictimIsRetirable ==
    \A p \in Process :
        /\ pc[p] \in {"journal", "rename"} =>
              /\ manifest[victim].stage = "finalized" /\ ~manifest[victim].pinned
              /\ nonce \notin trash
        /\ pc[p] = "journal" => manifest[victim].retirement = nonce
        /\ pc[p] = "rename" => JournalOf(nonce) # {}
        /\ pc[p] = "unjournal" => nonce \notin trash

\* Only a finished manifest carries a retirement intent.
IntentIsFinished == \A a \in Arena : manifest[a].retirement # None => manifest[a].stage = "finalized"

\* An id in a journal, in the trash or in a manifest is never drawn again.
UsedIds ==
    /\ \A rec \in journal : ~Fresh(rec.id)
    /\ \A id \in trash : ~Fresh(id)
    /\ \A a \in Arena : manifest[a].retirement # None => ~Fresh(manifest[a].retirement)

\* A journal is as old as the manifest it names, or the manifest has moved on.
JournalIsOld ==
    \A rec \in journal :
        manifest[rec.arena].retirement = rec.id =>
            /\ rec.revision <= manifest[rec.arena].revision
            /\ rec.revision = manifest[rec.arena].revision => ~manifest[rec.arena].pinned

\* The half that keeps a Cargo tree's arena from looking idle.
LeaseInv ==
    /\ LocksFollowPlace /\ LeaseDiskAgree /\ NoCargoYet
    /\ CargoTreeProtected /\ StagedIsAbsent

\* The half that ties what a collection remembers, or finds, to what it found then.
RetirementInv ==
    /\ ViewIsOld /\ PlanIsOld /\ PlanFollowsPlace /\ VictimIsRetirable
    /\ IntentIsFinished /\ UsedIds /\ JournalIsOld /\ TrashJournaled

\* The inductive invariant: every step of every process, and every crash, leads
\* from a state that satisfies it to one that does.
Inv == TypeOK /\ PlaceOK /\ LeaseFollowsPlace /\ LeaseInv /\ RetirementInv

=============================================================================
