# Verification of zhold

This directory models the core of zhold (the crates `zhold-core`, `zhold-store` and
`zhold-cli` under `src/crates/`) in TLA+, checks the models with TLC on small instances and
proves the central results with TLAPS for every value of the constants. Every definition is
translated from the Rust source; `PROJECT.json` says which lines each one stands for.

zhold gives every Git worktree its own Cargo build directory, an *arena*, in one store. A
*sentinel* (a managed `cargo` run) leases an arena, runs Cargo in it and records what became of
it; a *collection* retires whole arenas until the store is near its budget. There is no daemon:
sentinels, collections, recoveries and Git hooks are processes that meet in the file system, in
JSON documents and in file locks, and any of them can be killed between two system calls.

## Inventory

Paths are relative to `src/crates/`; `store` is `zhold-store/src`, `cli` is `zhold-cli/src`.

| Component | State | Operations | Meets | What makes it correct |
|---|---|---|---|---|
| Admission and leases (`store/store/service.rs`, `admission.rs`, `arena_lease.rs`, `lifecycle.rs`, `manifest/`) | `arena.json`: stage, revision, retirement intent, pin; `ArenaLease.stage` in memory | lease_reserved_and_collect, lease_existing, lease_new, mark_spawning, mark_spawned, finish_*, Drop | arena, metadata and collection locks; collections, recovery | an arena in which Cargo may live never looks idle; lease and disk agree; no admission starves the store |
| Collection (`store/collection/collector.rs`, `inventory/arena_snapshot.rs`) | snapshot and plan in memory, trash/, trash-index/ | snapshot, plan, retire, delete | every admission; pins; worktrees | only an idle, unpinned, unchanged arena is retired |
| Reconciliation (`store/collection/reconcile.rs`, `trash.rs`) | retirement journals, intents | reconcile_record, resume_retirement, delete_retired, repair_orphaned_intents | whatever a dead collection left | every tree in the trash is authorized; a stale journal removes nothing |
| Staged initialization (`store/store/admission.rs`, `store/collection/initialization.rs`) | `.init-*` directories, initialization journals | journal, stage, promote, settle | admission, Store::open | an arena appears whole, leased, or not at all, and stays; no crash keeps the store from opening |
| Suspect recovery and pins (`store/store/service.rs`) | stage, pin | recover_suspect, update_pin, expiry | retirement | a suspect is neither reused nor retired |
| Managed build (`cli/command/cargo.rs`) | place in the protocol, outcome | admit, spawn, supervise, clean up, record, collect | leases, supervisor | no outcome is recorded while the tree may live (after a failed spawn it may: see Supervisor) |
| File locks (`store/lock/`) | OS locks | acquire, try_acquire, probe, shared | all | bounded waiting; released at death |
| Worktree registry and gates (`store/worktree/`) | registry file, gate locks, phases | hook_ready, hook_prepare_remove, hook_removed, hook_cancel_remove, acquire_admission | builds, Git hooks | no worktree is removed under a build; a removed one admits nothing |
| JSON publication (`store/io/`) | primary, backup and temporary file | create, replace with backup, stabilize, remove | every document | a crash leaves the old or the new document |
| Planner and budget (`zhold-core/src/policy/`, `store/store/admission.rs`) | sizes, reservations, watermarks | plan | admission | the same capacity is never spent twice; the plan stops at the watermark |
| Build history (`store/history/`) | receipts and their index | persist, prune | collections | the index names only what exists; pruning removes only what is proved unused |
| Reservation profiles (`store/reservation/`) | sample window | record, recommend | admission | the recommendation covers the percentile |
| Unix supervision (`cli/command/cargo/supervisor/`) | process group, leader, terminal | spawn, try_wait, suspend, resume, terminate | signals, shell | "gone" is said of the group, not of the leader |
| Windows supervision | job object | same | | the kernel does atomically what Unix needs a protocol for |
| Store marker and opening (`store/store/initialization.rs`, `opening.rs`) | `store.json`, capability probes, layout | claim, upgrade, probe, open | every process that opens the store | one creator wins, and everybody works with its marker |
| Configuration and quota (`store/config/`, `store/quota/`) | a document, the project quota of the kernel | read, change, verify | admission | an admission is refused when the quota is not what it should be |
| Doctor, scan, status | none | probes and reports | arena locks | read-only |
| Context and identities, command line | none | parsing, hashing, output | | pure |

What is hard here: the snapshot's reads and the retirement are far apart in time; a process can
die at any line and leave a Cargo tree alive behind a free lock; a rewritten manifest can be visible
although the write reports an error; a journal survives its collection and is acted upon by a
process that knows nothing else of it; an admission needs two locks, one of which a build holds for
hours. `PROJECT.json` lists each hazard at its line with the properties that cover it.

## Plan

The order is that of importance; each module is written without RECURSIVE operators unless it is
for TLC alone, with named assumptions, one action per operation and invariants in named parts.

1. `ArenaStore` (done): leases, collection, reconciliation, recovery, pins and the managed build in
   one module, because their correctness is a matter of how they interleave. `MCArenaStore` and
   two configurations; `ArenaStoreProofs` proves its safety properties.
2. `WorktreeGate` (done): registry lock, shared and exclusive gate, hooks against admissions and
   builds. `MCWorktreeGate` and two configurations; `WorktreeGateProofs`.
3. `StoreOpening` (done): the claim of a root, the marker, and the staging protocol of a new arena step
   by step with its reconciliation, shown to implement `ArenaCreation`, which is what ArenaStore
   assumes of a new arena. `MCStoreOpening` and one configuration; `StoreOpeningProofs`.
4. `JsonPublication` (done): create, replace with a backup, remove and read over files, directory
   synchronizations and losses of power, shown to implement `AtomicDocument`, as ArenaStore
   assumes. `MCJsonPublication` and two configurations; `JsonPublicationProofs`.
5. `Capacity` (done): aggregate admission with sizes, reservations and the watermark, while builds
   grow and end. `MCCapacity` and two configurations; `CapacityProofs`.
6. `History` (done): the growth of a build in its profile, receipts, index, policy, pruning and their
   crashes. `MCHistory` and one configuration; `HistoryProofs`.
7. `Reservation` (done): the percentile and the window as operators, which `History` uses.
8. `Supervisor` (done): the process group, its leader, stop and continue, the terminal, the signals.
   `MCSupervisor` and two configurations; `SupervisorProofs`.

`SumProofs` has the lemmas about sums over finite sets that `CapacityProofs` and `HistoryProofs` share.

Abstract specifications: `AtomicDocument`, an atomic document (implemented by JsonPublication), and
`ArenaCreation`, an arena that appears at once and lasts (implemented by StoreOpening). The theorems are
the safety invariants and action properties of these modules and the two step simulations.

## ArenaStore

### State

| Variable | In the code |
|---|---|
| `manifest` | each arena's `arena.json` (lifecycle stage, revision, retirement id, whether a pin is in force); `Absent` is a missing directory |
| `staged` | arenas assembled in `.init-*` and not yet promoted |
| `journal`, `trash` | records in `trash-index/`, directories in `trash/` |
| `worktree`, `cargo` | the world: the Git worktree exists; a Cargo process tree is alive |
| `collection`, `arenaLock` | holders of the collection lock and of the arena locks |
| `pc`, `arena`, `lease` | per process: its place, the arena it builds in, `ArenaLease.stage` |
| `records`, `pending`, `view`, `plan`, `uncertain`, `victim`, `nonce` | memory of the one process that holds the collection lock |
| `basis` | auxiliary: the ids drawn so far and the eviction reason each one was drawn for |
| `faults` | a bound, see below |

### Steps

A step is what a process does between two points at which another process or a crash can tell the
difference. A manifest is rewritten under its metadata lock by replacing the file, so a
read-modify-write is one step; the journal, the rename, the deletion and the removal of the
journal are steps of their own, because a crash between them is what reconciliation is for.
`Admit(p)` is `lease_reserved_and_collect` up to the lease, `Collect(p)` is `collect_locked`
(reconciliation, repair, snapshot, plan, retirement) as a preflight under a lease or as a lone
`gc`, `Build(p)` is the managed build of `command/cargo.rs`, `Environment(a)` is Cargo's own end,
the operator's recovery and pin, a pin that expires and a worktree that goes or comes back. `Crash(p)`
drops p's locks and memory and nothing else.

An operation that reports an error after its effect became visible is a disjunct of its own
(`Transition`, `LeaseExisting`, `CreateJournal`, `RenameArena`, `PurgeTrash`, `RemoveJournal`,
`RepairFails`, `Finish`).

### What is abstracted

- A document is read and replaced at once. `JsonPublication` shows that it behaves so; a reader without
  the lock that finds the generation before stands for one that read earlier.
- The steps in which a new arena is assembled: it appears at once, or an interruption leaves it staged, as
  `ArenaCreation` says.
- Losses of power, which JsonPublication and StoreOpening have: here a process dies, and what it wrote stays.
- Sizes and reservations, which Capacity has, history and reports. Which candidates have to go is the planner's choice,
  open in `EndScan`: the safety of a retirement must not depend on it.
- The metadata lock: whoever holds it for one read-modify-write is one step; the retirement, which
  holds it over several, is `MetadataFree`.
- Probes of an arena lock by `status`, `scan` and `doctor` take it for a moment: every
  try_acquire may fail on a free lock.
- `CargoExits` is the end of a Cargo tree by itself or by a kill. The supervisor's observation
  that the process group is gone is taken to be exact. `Supervisor` shows that it is, except after a
  spawn that could not be completed (its finding): what ArenaStore says of a live tree is not said of
  processes that such a cleanup leaves behind.
- `recover_suspect --terminated` is the operator's word, taken to be true.
- Retirement ids are UUIDs, drawn once; `basis` remembers them.
- Dry runs change nothing and are left out.

### Properties

- `CargoTreeProtected`: a Cargo tree lives only in an arena whose manifest is Spawning or Spawned.
- `LeaseDiskAgree`: a lease holds its arena's lock, and its stage is the durable one or, after an
  unconfirmed write, the one before it.
- `PlannedIsQuiescent`: a planned eviction of the current revision is about an idle arena, although
  the snapshot reads the manifest before it probes the lock, and pins and crashes come in between.
- `ResumableIsQuiescent`: a journal that reconciliation would resume names an idle, unpinned arena.
- `RetireOnlyQuiescent` (action): an arena is removed only idle, unpinned, unleased, free of Cargo.
- `SuspectNeedsRecovery` (action): the arena of a dead sentinel leaves its stage only by a recovery,
  with its Cargo tree gone.
- `CollectionLockReleased` (liveness): nobody keeps the collection lock for good.
- `Inv`: the inductive invariant of the proofs, the type invariant among its parts; so is `TrashJournaled`,
  that every tree in the trash has the journal that authorizes its deletion.

### Runs

| Run | Instance | Bounds | Checks |
|---|---|---|---|
| `arena` | 1 arena, 2 processes, 1 id | revision 3, 1 fault | Inv, CargoTreeProtected, LeaseDiskAgree, PlannedIsQuiescent, ResumableIsQuiescent, SuspectNeedsRecovery, RetireOnlyQuiescent, CollectionLockReleased |
| `orphan` | 1 arena, 1 process, 1 id | revision 2, 1 fault | ResumeRechecksWorktree, violated |

`MaxRevision` stops new builds and pins, not what is under way, so a revision can pass it. Three
revisions let a pin of one process come between the snapshot and the retirement of the other (builds and
recoveries cannot: they start under the collection lock, which a collection holds all along), and builds,
pins, recoveries and an interrupted retirement come before or after each other. `MaxFaults` bounds
crashes and failed operations together: one fault leaves something behind, and the other process, or
the same one started again, meets it. Arenas interact through the plan alone, whose size is the
planner's choice here. What needs more (two ids, a death of the one that cleans up after a death,
two arenas) is covered by the proofs, which have no bounds. The run has liveness and uses no symmetry.
Deadlock is checked: some process can always start again.

### Fairness

`FairSpec` is weak fairness of each process' own next step. The operating system schedules a
running process, and no step of one is repeatedly enabled and disabled by others while it holds
the collection lock. Nothing is assumed of Cargo, which may run forever, of operators, or of
anyone starting anything; `CollectionLockReleased` holds all the same, because `TryArena` lets go
of the collection lock before it waits for an arena.

### Finding

`docs/design.md:46-48` and `docs/safety.md:21-31` say that worktree state is revalidated
immediately before a retirement. `retire` does so; `resume_retirement`
(`store/collection/trash.rs:45-79`) does not. The run `orphan` shows the steps: a collection plans an
arena whose worktree is missing, writes the intent and the journal and dies before the rename; the
worktree comes back; the next reconciliation renames the arena. What is lost is a cache that could
have been kept: the arena is idle and unpinned even then (`RetireOnlyQuiescent`).

## WorktreeGate

### State

| Variable | In the code |
|---|---|
| `checkout` | the world: which repository's worktree is at a path |
| `state` | the registry's record of a key: Ready, Draining, Removed, or no record |
| `registry` | holder of the registry lock |
| `gate`, `shared` | holder of a key's gate, exclusive; its holders, shared |
| `pc`, `event`, `path`, `key` | per process: its place, which hook or build it is, what it was given, what it works on |
| `seen` | the state in the record that a hook has read and will act upon |

A key stands for a repository at a path: two keys at one path are two repositories that are checked
out there in turn.

### Steps

A build resolves its worktree (`StartBuild`), takes the gate shared and reads the registration after
it (`acquire_admission`: `EnterShared`, `ReadRegistration`), and lets go with its lease
(`EndBuild`). A hook takes the registry lock first. `ready` and `cancel-remove` know their key: they
wait for the gate with the registry lock in hand (`WaitForGate`), then read the record
(`ReadRecord`). `prepare-remove` and `removed` have only a path: they look the record up
(`FindRecord`), then try the gate (`TryGate`), and a build that holds it ends them. The record is
written from what was read (`CommitReady`, `CommitPrepareRemove`, `CommitRemoved`,
`CommitCancelRemove`). `Crash` is a death or a returned error at any place; the commits whose write
may fail after it is visible have that as a disjunct.

The manager is the environment, modelled from how `command/hook.rs` expects to be called: it
removes a worktree only after its own `prepare-remove` succeeded, then reports `removed`, or
`cancel-remove` when the worktree is still there; managers of one path take turns. Worktrees also
go without a hook (`Discard`), where no manager is at work.

Left out: HEAD and the manager's metadata in a record, which no decision depends on, the receipts
of hooks, and the retirements that the hooks ask for afterwards, which are ArenaStore's. A build ends here
with its sentinel, whose death gives the gate back; a Cargo tree that outlives it is ArenaStore's as well.

### Properties

- `DrainingExcludesBuilds`: no build goes on in a worktree that is registered as Draining or Removed.
- `OneClaim`: a path has one live registration at most.
- `RemovalUndisturbed`: from the grant to the manager's next report the record stays Draining and no
  build of that worktree runs. It speaks of the key that was drained: a repository at the same
  path without a record has a gate of its own, and the code does not exclude its builds.
- `GateReleased` (liveness): no hook keeps a gate.
- `Inv`: the inductive invariant of the proofs.

### Runs

| Run | Instance | Checks |
|---|---|---|
| `hooks` | 2 keys at 1 path, 3 processes | Inv, DrainingExcludesBuilds, OneClaim, RemovalUndisturbed, GateReleased under FairSpec |
| `wait` | 1 key, 3 processes | PrepareReports under FairLocksSpec, violated |

The state space is finite: there is no bound. Three processes are a build, a hook and a manager at
the same time; one path with two keys is the only way in which keys interact. No symmetry is used,
because both runs have liveness.

### Fairness

`FairSpec` is weak fairness of each process' own next step, for the reason given above. Nothing
makes a build end or a manager report. `FairLocksSpec` adds strong fairness of the three blocking
acquisitions, which is more than a file lock promises; it is there so that the counterexample of
`wait` is not one of unfair locks.

### Finding

`docs/locking.md:62-63` says that `prepare-remove` acquires without blocking, so that it reports an
active build. Its gate acquisition does not block, its registry acquisition before that does
(`hooks.rs:41`), and `ready` and `cancel-remove` keep the registry lock while they wait for a gate
(`hooks.rs:24`, `95`). The run `wait` shows a `prepare-remove` that waits as long as a build
runs, behind a `ready` of the same worktree. Nothing deadlocks: when the build ends, all go on.

## JsonPublication

### State

| Variable | In the code |
|---|---|
| `dir` | what the primary and the backup path hold: nothing, a whole document, or bytes that do not parse |
| `outcomes` | the directories that a loss of power can leave: each change since the last synchronization may be lost by itself |
| `kind` | a mutable document (manifests, configuration, registrations) or a journal, which is created and removed only |
| `step`, `source`, `asked` | the writer's next operation, its `JsonSource`, its value |
| `report` | what the last write returned: durable, unconfirmed, existing, failed |
| `at`, `said`, `got` | per reader: its next operation, and what its last read returned |
| `during` | auxiliary: the document's values while a read is under way |

### Steps

One action per operation of the file system in `replace_with_backup_with`, `create_json_commit_aware`
and `remove_json`, each of which can fail (`Fail`, `Restore`, the disjuncts of `Confirm`, `Cleanup`
and `SyncCleanup`) or be the writer's last (`Die`). What follows the new primary differs: a creation has its
staging file to remove, whose failure is a warning (`ConfirmCreation`); a replacement looks for the backup,
and an error there is one of the write (`ConfirmReplacement`). There is one writer, because whoever
writes holds the document's lock, and a writer's memory does not outlive its call. A reader
looks at one path at a time (`read_json`, `read_optional_json`) and needs no lock: inventory,
scans and read-only stores have none. `PowerLoss` ends everybody and leaves any of `outcomes`.

The bytes of a file are on the disk before it is renamed or linked into place; a failed fsync is
taken to have written nothing, or anything, of what it was asked for, and a later one that succeeds
to have written all. A torn primary is a state to start from, with the backup that is left
behind it. Staging files, permissions and the encoding are left out, and so is Windows, where
`sync_metadata_directory` does nothing.

### Properties

- `AtomicSpec`: JsonPublication implements `AtomicDocument`: the value of the document is the primary's or
  else the backup's, it changes in one step per write, "durable" is said when no loss of
  power can bring back another value, and a loss of power leaves the last durable value or one that
  was asked for after it.
- `DocumentKept` (action): no step makes it possible to lose a mutable document altogether.
- `ReadsCurrent`: a lock-free read returns a value that was current during it.
- `Inv`: the inductive invariant of the proofs.

`AtomicDocument` says nothing of the document after "failed": an error in looking for the backup
(`json_publish.rs:140`) is one of the write although the new primary is durable by then. ArenaStore's
callers are modelled to match.

### Runs

| Run | Instance | Checks |
|---|---|---|
| `power` | 3 values, 1 reader | Inv, AtomicSpec, DocumentKept, ReadsCurrent |
| `reader` | 3 values, 1 reader | AbsentMeansAbsent, violated |

The state space is finite. Three values are one that is durable, one that was left unconfirmed and one
that is being written; readers do not see each other, so that one is enough. Values and readers
are interchangeable.

### Finding

`docs/store-format.md:78-79` says that optional reads report absence only when both paths are absent.
`json_document_state` looks at the two paths one after the other (`io/json_document.rs:28-33`): the
run `reader` shows a reader that finds no primary, because it is rotated, and no backup, because a
primary is back by then. The readers without a lock that take absence for the defaults are
`Store::config` and `Store::recommended_reservation` of a read-only store.

## Capacity

### State

| Variable | In the code |
|---|---|
| `size`, `cargo` | the world: bytes in an arena's directory; a Cargo process tree is alive in it |
| `manifest` | what `arena.json` says of capacity: `last_known_size`, `reservation`, whether it is finished, the pin |
| `collection`, `arenaLock` | holders of the collection lock and of the arena locks |
| `pc`, `arena` | per process: its place, the arena it builds in |
| `deep`, `pending`, `view`, `plan` | memory of the collection lock's holder: its kind of measurement, the arenas still to be read or retired, the snapshot, the planned evictions |

### Steps

`Admit` is `lease_reserved_and_collect` up to the lease: both locks, the measured size and the
reservation in the manifest. The snapshot is read arena by arena (`Observe`), because builds
finish, die, grow and are pinned without the collection lock while it is read. An uncertain
snapshot gives up the admission (`GiveUp`); otherwise `PlanEvictions`, `Evict` or `SkipEviction` for each
candidate, a second snapshot (`Confirm`, `Observe`) and the decision of `execute_managed` (`Decide`).
`Spawn`, `CargoWrites`, `CargoExits` and `Finish` are the build, `Collect` is `gc` or the collection after
a build, `Crash` and `Recover` leave and settle a suspect.

`Plans` is the set of plans that `plan_collection_with_reservation` can come to for some order of the
candidates: none within the budget, else candidates until the target is reached, and no further.

### What is abstracted

- A retirement is one step and a lease is finished in one step; their steps, failures and crashes
  are ArenaStore's. So is the revision: `Evict` may come where the code skips because of one, which
  only adds behaviours.
- A Cargo tree keeps its arena within what was measured at admission plus the reservation.
  Nothing but a project quota enforces this, and without it the budget cannot be promised; the
  reservation is learnt from earlier builds (History and Reservation).
- One budget for all processes, sums that do not saturate at 2^64, no `--min-free`, no quota.
- An entry that cannot be read at all is like one that is not trusted: it makes the snapshot uncertain.

### Properties

- `GrowthWithinBudget` (action): no step that makes the arenas grow takes them over the budget.
  An admission's decision is about numbers read at different times; the growth comes later, when
  others have been admitted, refused, killed or retired.
- `SnapshotCovers`: what an admission has read of an arena still covers what it is charged, and so
  what it may grow to, until the sum is judged. `ObservedState` may be out of date, the numbers not.
- `PlanIsEnough`: no plan falls short of the budget while it spares an idle arena with bytes in it.
- `Inv`: the inductive invariant of the proofs.

### Runs

| Run | Instance | Bounds | Checks |
|---|---|---|---|
| `budget` | 3 arenas, 2 processes | budget 4, reservation 2, initial size 1 | Inv, SnapshotCovers, PlanIsEnough, GrowthWithinBudget |
| `unmeasured` | 2 arenas, 2 processes | budget 3, reservations 1 and 2, trees may be unreadable | CompletedSizesRecorded, violated |

The state space is finite: sizes stay within charges. With three arenas a build runs in one, its
sentinel alive or dead, another is admitted and a third is idle and can go; a budget of 4 lets
two reservations in with nothing else, so that admissions are granted, refused and granted after a
retirement. Arenas and processes are interchangeable in `budget`.

### Finding

`docs/safety.md:42-43` says that cached sizes are trusted because every managed transition durably
records its observation. When `measure_tree` fails at the end of a build or in a recovery,
`finish_primary` (`store/store/finalization.rs:43-45`) and `recover_suspect`
(`store/store/recovery.rs:36-43`) keep the size from before the build and drop the reservation. The
run `unmeasured` shows such a manifest: finished, with less than what is there, and trusted by the
next admission's cached snapshot. `SizesRecorded` proves that a failed measurement is the only way.

## StoreOpening

### State

| Variable | In the code |
|---|---|
| `foreign`, `layout`, `probes` | the root: an entry that is not zhold's, the directories of a store, the probes of processes that test the file system |
| `marker` | `store.json`: its schema, UUID and fingerprint key |
| `initialization`, `collection` | holders of the two locks |
| `disk`, `survives` | what the arenas directory holds of an arena, and what a loss of power can leave of it: nothing, a staging directory (empty, with an unfinished or a finished manifest), the arena with an unfinished or a finished build |
| `journal`, `owner` | the store UUID in the initialization journal and in the manifest |
| `pc`, `loaded`, `wants`, `current` | per process: its next operation, the marker it works with, the arena it leases, the one it reconciles |
| `faults`, `losses` | bounds |

### Steps

`Claim(p)` is `open_read_write` up to the layout: the look at the marker and at the root without the lock,
the lock, the second look, the cleaning of an abandoned claim, the probes, the marker and its upgrade.
`Reconcile(p)` is `reconcile_initializations`, which ends an opening and precedes a lease: a staging
directory without a manifest is removed, one with a manifest is settled and promoted, an arena at its final
path is accepted, and a staging directory without a journal is refused. `Create(p)` is the lease:
`lease_new` with its journal, staging directory, manifest, rename, synchronization and removal of the
journal as steps of their own, or `lease_existing`. An operation that fails (`Fail`) drops a lease
that was not started, which writes its manifest; `Die` and `PowerLoss` write nothing.

Abstracted: documents are replaced atomically and durably (JsonPublication), so only the entries of
the arenas directory can be lost; the staging directories of one arena are one, whatever their nonce;
a lease is finished in one step; retirement, which takes arenas away, is ArenaStore's. Symbolic links,
permissions and the read-only opening are left out.

### Properties

- `CreationIsAtomic`: StoreOpening implements `ArenaCreation`: an arena is there with its manifest or not at
  all, and a loss of power does not take it away once its entry is synchronized.
- `OneMarker`: everybody who has the store open works with the UUID and key that are on the disk, although
  several processes claim a new root, or upgrade an old marker, at the same time.
- `ProbesKept`: the cleaning of an abandoned claim takes no probe from a process that is about to remove it.
- `StagingJournaled`: until the power goes, a staging directory has its journal, without which no
  opening would succeed again.
- `LeaseDurable`: a lease is granted on an arena that no loss of power takes away, unless something died
  between the rename and its synchronization.
- `Inv`: the inductive invariant of the proofs; `OneJournal` (one initialization at a time) and `OneStore`
  (journals and manifests carry the UUID of the marker) are among its parts.

### Runs

| Run | Instance | Bounds | Checks |
|---|---|---|---|
| `opening` | 2 processes, 2 arenas, 3 nonces | 2 faults, 1 loss of power | Inv, OneMarker, ProbesKept, StagingJournaled, LeaseDurable, CreationIsAtomic |

Two processes race for the root and for the first lease; the second arena is what one process leaves
interrupted while another wants the first; two faults interrupt a reconciliation of an interrupted
creation. Nonces: two claims and one upgrade. All three sets are interchangeable.

The two restrictions in the properties are real. `reconcile_record` removes the journal of an arena that it
finds at its final path without synchronizing the rename that a dead process made
(`store/collection/initialization.rs:52-60`): a loss of power can then bring back a staging directory
without a journal. It is listed among the hazards; no property covers it.

### A refusal of zhold's own root

The test `concurrent_store_initializers_serialize_marker_publication` (`store/store/store_test.rs:41-59`)
expects of every process that opens one new root at the same time that it succeeds. `initialize_marker`
looks at the entries of the root before it has the lock, and does not look for the marker again
(`initialization.rs:70`). In the model, too, a process that finds no marker may then see the directories that
the winner has made meanwhile, and refuse a root in which only zhold has written; a second attempt
succeeds. No property says otherwise.

## History and Reservation

### State

| Variable | In the code |
|---|---|
| `receipts`, `unsynced` | the files of the receipts, by their place in the order of time, with their sizes; those whose removal a loss of power can undo |
| `index` | the totals and whether they are clean |
| `policy` | whether history is kept, the receipts and the bytes to keep |
| `samples` | the growths in the reservation profile of one class of commands, the newest last |
| `history`, `reservation` | holders of the two locks |
| `pc`, `wanted`, `window` | per process: its next operation, the growth or the policy it carries, the profile it has read |
| `image`, `published`, `request`, `plan` | memory of the holder of the history lock |

### Steps

A finished build records its growth (`ReadProfile`, `RecordGrowth`), then its receipt: the index is read
or rebuilt, marked dirty, the receipt is created, the index projected, and if its totals exceed the
policy the oldest receipts are pruned, the directory is synchronized and the totals are counted anew.
`BeginPrune` is `history prune` with any bounds, `ReadPolicy` and `SetPolicy` are `history policy`, which reads
the policy without the lock. `RemovalPlan` is `removal_plan`, `Reservation` has the window (`PushSample`), the
percentile (`Ordering`, `Rank`, `Percentile95`: the sorted window at the rank) and the recommendation. `Stop` is a death or an error anywhere, `PowerLoss` brings
back receipts whose removal was not synchronized.

Abstracted: what a receipt says, findings about files that are not receipts, queries, dry runs, sums that
saturate. A receipt may be created anywhere in the order, because clocks go back.

### Properties

- `IndexCovers`: a clean index never counts less than there is; if it did, the history would outgrow its
  bounds unseen.
- `RetentionHolds`: a publication that ends without a warning leaves what the policy allows, although most
  publications look at the index only.
- `KeepsMost`: a prune keeps the largest newest part that its bounds allow.
- `OldestFirst` (action): a receipt goes when all older ones are gone, wherever a prune is interrupted.
- `NoSampleLost` (action): the profile changes by one sample more, whoever records at the same time.
- `ReservationCovers`: the recommendation covers 95 of 100 builds of the window and the last one.
- `Inv`: the inductive invariant of the proofs, the type invariant among its parts.

`IndexCovers` and `RetentionHolds` leave out runs with both a fault and a loss of power (`Exact`): a rebuilt index
is clean, but rebuilding does not synchronize the removals of a prune that died, and the receipts may
come back behind it. The next prune counts anew.

### Run

| Run | Instance | Bounds | Checks |
|---|---|---|---|
| `records` | 2 processes, 3 receipts of size 1 or 3, 3 policies, window of 2 samples | 1 fault, 1 loss of power | all of the above |

Three receipts are one that stays, one that goes and one that comes; the policies bound the count, the bytes
(a single receipt may exceed them) and switch the history off. A window of two samples is full after two builds.
Receipts are reused, so that the space is finite; processes are interchangeable.

## Supervisor

### State

| Variable | In the code |
|---|---|
| `leader`, `member` | Cargo, which leads a process group, and another process of the group |
| `event`, `killed` | the change of the leader that `waitpid` has yet to tell; whether the group has SIGKILL |
| `foreground`, `wrapper` | who has the terminal; whether the sentinel is stopped |
| `pc` | the next operation of the sentinel's main thread |
| `handoff` | `ForegroundTerminal.handoff`; `lost` when it was dropped with the terminal still in Cargo's hands |
| `quiesce`, `asked` | `quiesce_stop_pending`; whether this poll was asked to continue Cargo |
| `forwarder`, `interrupted`, `continued` | the thread that forwards signals, and what it has seen |
| `signals`, `sigcont` | signals to the sentinel that are pending: the kernel and `signal_hook` keep one of each kind |
| `outcome` | what the lease records |
| `stops`, `faults` | bounds |

### Steps

`Start` is the spawn with its callback, the forwarder and the hand-off of the terminal; `Poll` is
`try_wait`, over and over: an exit, a stop that is followed by a stop of the whole job (`Quiesce`,
`Reclaim`, `Sleep`, `Resume`), a continuation, and when the leader is reaped the question whether the group
is empty; `Terminate` is `terminate_and_wait` after an error, and `Drop`. `Fail`, `FailCleanup` and
`FailDrop` are failing system calls in the three. A spawn that cannot be completed is cleaned up by
`KillSpawned` and then `ReapSpawned`, or, if the kill failed, `TrySpawned`, which takes a dead leader for
the group. `ForwardSignal` and `ForwardContinue` are the second thread. `Environment` is Cargo, the user at
the terminal and the shell: members start and exit, the group or the sentinel is stopped, the shell takes
the terminal and continues its job in the foreground or not.

External, modelled from how they are used: `killpg` reaches a group as long as one of its processes is
there, and may be refused when only a dead leader is left; a group that its leader leaves behind is
orphaned, and what is stopped in it is continued; `waitpid` tells the last change of the leader. A leader
that is not reaped keeps its group, so that stops and continuations of it always find it. A signal that is
pending already is not sent again, be it in the kernel, while the sentinel is stopped, or in the flag that
`signal_hook` keeps for it. A call that fails when the terminal is dropped has failed each time it was tried
before. Left out: more than one member, other terminals.

### Properties

- `OutcomeWhenGone`: a lease records "finished" or "aborted" when the group is gone, not its leader. After a
  spawn that could not be completed Cargo is gone; the others have SIGKILL unless the kill failed, too.
- `TerminalReturned`: the terminal is Cargo's only while the sentinel knows that it has to take it back, or
  when its last attempt failed, which nobody hears of; never after an outcome of `terminate_and_wait` or `try_wait`.
- `StopsAsOne`: while the sentinel is stopped, the terminal is not Cargo's.
- `StoppedIsContinued` (liveness): a stopped Cargo is continued while the sentinel runs.
- `SecondSignalEnds` (liveness): a signal that is pending after another one was passed on ends the build, even a
  Cargo that ignores the first or is stopped. It promises nothing of two equal signals that come before the
  thread looks, or while the sentinel is stopped: they are one.
- `TreeExitedFirst`: an outcome is recorded only after the whole tree has exited, which is violated.
- `Inv`: the inductive invariant of the proofs.

### Runs

| Run | Instance | Bounds | Checks |
|---|---|---|---|
| `terminal` | one Cargo, one member, 2 kinds of signals | 3 stops, 2 failing system calls | Inv, OutcomeWhenGone, TerminalReturned, StopsAsOne, StoppedIsContinued, SecondSignalEnds |
| `cleanup` | one Cargo, one member, 1 kind of signal | no stop, 2 failing system calls | TreeExitedFirst, violated |

Signals come any number of times; two kinds let two of them be pending together, and all that kill do the
same. Three stops let Cargo, the sentinel and Cargo again be stopped in one job control cycle; a second failure
comes during the cleanup of the first.

### Fairness

The threads of a running sentinel are scheduled (weak fairness of `Start`, `Poll`, `Terminate` and of the two
actions of the forwarder), and a process that has SIGKILL dies. Nothing makes Cargo exit by itself, a user
act or a shell continue anything. A stopped sentinel takes no step: the liveness properties say so.

### Finding

`docs/design.md:96-97` and `docs/safety.md:70-71` say that a lease is released only after the process tree
has exited. When `mark_spawned`, the forwarder or the hand-off of the terminal fails,
`terminate_group_child` (`platform_unix.rs:236-250`) kills the group and waits for its leader alone, and a
kill that fails is forgotten if the leader is found dead. Both are `CleanupConfirmed`, and the lease is
finalized as aborted. The run `cleanup` shows a Cargo that has started another process and exited when
`mark_spawned` fails: the outcome is recorded while that process is still there. `terminate_and_wait`, which
is what every later error comes to, does wait for the group.

## What is proved

`ArenaStoreProofs` proves, from `ArenaStoreAssumption` (the null values are not among the values
they are null for; the bounds are naturals) and for every set of arenas, processes and ids:

| Theorem | Property |
|---|---|
| `InductiveInvariant` | `Inv` |
| `TypeCorrect` | `TypeOK` |
| `CargoProtected` | `CargoTreeProtected` |
| `LeasesAgree` | `LeaseDiskAgree` |
| `TrashAuthorized` | `TrashJournaled` |
| `ResumableQuiescent` | `ResumableIsQuiescent` |
| `PlannedQuiescent` | `PlannedIsQuiescent` |
| `RetiresOnlyQuiescent` | `RetireOnlyQuiescent` |
| `SuspectsNeedRecovery` | `SuspectNeedsRecovery` |

None of the properties is inductive by itself. `CargoTreeProtected` needs to know how far a process
has come (`LeaseFollowsPlace`), that Cargo cannot be alive before the fork nor after it was seen to
exit (`NoCargoYet`), and that the arena of a lease is locked by it (`LocksFollowPlace`,
`LeaseDiskAgree`). `RetireOnlyQuiescent` needs that whatever a collection remembers or finds is not
newer than the manifest and, when it is not older either, describes it: `ViewIsOld` for the
manifest just read, `PlanIsOld` for the plan, `JournalIsOld` for journals of any age, and
`VictimIsRetirable` from the intent to the rename. They hold because every operation that could
make an arena busy or pinned writes a new revision, and an id is drawn once (`UsedIds`).
`PlanFollowsPlace` says that a plan does not outlive its pass, so that no arena is removed and
created again, with revisions that start over, under a plan.

The proof has one lemma per conjunct of `Inv`, each by cases on the actions of `Next`; first come
lemmas on the manifest operators and on what each action writes, seen from an arbitrary arena
(`WriteEffect`, `SettleEffect`, `LeaseEffect`, `CreateEffect`), on which all the others rest.

`WorktreeGateProofs` proves, from `WorktreeGateAssumption` (every key has a path; the null value is
not a key, a path or a process) and for any number of keys, paths and processes:

| Theorem | Property |
|---|---|
| `InductiveInvariant` | `Inv` |
| `TypeCorrect` | `TypeOK` |
| `BuildsExcluded` | `DrainingExcludesBuilds` |
| `ClaimUnique` | `OneClaim` |
| `GrantHolds` | `RemovalUndisturbed` |

`PlaceOK` says which key and which locks a process has at each place, and `GateOK` that a gate is
not held both ways: with them a write of Draining finds no build behind the gate. `SeenIsCurrent`
says that the record a hook acts upon is still the one in the registry and that no alias has come
up since it looked, though `prepare-remove` reads it before it has the gate; it rests on the
registry lock. `OneManager` is the assumption on the environment, kept by its actions: without
it one manager's `cancel-remove` could end another's grant.

`JsonPublicationProofs` proves, from `JsonPublicationAssumption` (no file, a torn file and the contents
of documents are different things) and for any contents and any number of readers:

| Theorem | Property |
|---|---|
| `InductiveInvariant` | `Inv` |
| `TypeCorrect` | `TypeOK` |
| `Implements` | `AtomicSpec` |
| `KeepsDocument` | `DocumentKept` |
| `ReadersCurrent` | `ReadsCurrent` |

`WriterOK` says what the writer knows of the directory before each operation, `OutcomesOK` what it
knows of the directories that a loss of power can leave: the backup is removed only when every
one of them has the primary, which is what `stabilize_primary` is for. `Simulation` maps each step to
a step or a stutter of `AtomicDocument`; `SetSurvivors` and `RenameSurvivors` are what a change of the
directory does to the values that can be left. `KeepsDocument` follows from the simulation.
`ReaderOK` says that a reader about to look at the backup finds a value that it has seen, or none.

`SumProofs` states what the models need of `SumFunctionOnSet`, the sum of a function over a finite set: it
is a natural, it grows with the function and with the set (`SumLeq`, `SumAtLeast`), it can be split
(`SumSplit`, `SumPlus`), and one element can be taken out of it (`SumRemove`). The library defines the
sum by recursion over the subsets and leaves it to the reader that there is such a function: `SumExists`
shows it by induction on the number of elements, `SumsOfSubset` that a subset has the same one. Both inductions are
stated of sets of numbers (`NaturalInduction`) and of families of sets (`SubsetInduction`), because the
library's own are stated of operators, which no prover can instantiate.

`CapacityProofs` proves, from `CapacityAssumption` (there are finitely many arenas; the null values are not
arenas, processes or numbers; sizes and reservations are naturals, the watermark is a percentage) and for any
arenas, processes, sizes and budget:

| Theorem | Property |
|---|---|
| `InductiveInvariant` | `Inv` |
| `SnapshotsCover` | `SnapshotCovers` |
| `PlansAreEnough` | `PlanIsEnough` |
| `GrowthIsFunded` | `GrowthWithinBudget`, where every tree can be measured |
| `SizesRecorded` | `CompletedSizesRecorded`, where every tree can be measured |
| `ChargesFall` | no arena's charge rises while the collection lock is held |

`UnfinishedOK` says that an unfinished arena has a recorded size and stays within its charge, so that
whoever finishes it, now or after a crash, lowers the charge (`MeasurementEffect`). `IdleStaysIdle` says
that what a snapshot found idle is not admitted while the collection lock is held; with it `ChargeFalls`
goes through all actions, and `SnapshotCovers` follows for what was read before.

`GrowthWithinBudget` says of a step what no state says: `FundingOK` is the invariant behind it. The
*ceiling* of an arena is its charge while Cargo is alive in it or was granted to start, and its size
otherwise; as long as there is an arena that may grow, the ceilings of all arenas sum up to no more than the
budget. A grant is the one step that raises a ceiling (`GrantFunded`): what the admission has read and adds up
is no less than the ceilings, by `SnapshotCovers`, although the reads are of different times; every other step
leaves them or lowers them (`CeilingsFall`, `FundingStep`). That sizes are known has to be remembered from the
read to the grant (`TrustStep`). Where a tree cannot be measured the theorem does not hold, and the run
`unmeasured` shows why: the recorded size of an arena is then less than what is there. `PlanIsEnough` follows
from the target of the plan being no more than what the reservations leave of the budget (`PercentBounds`,
`PlanEffect`).

`StoreOpeningProofs` proves, from `StoreOpeningAssumption` (the null value is no process, arena, nonce or
marker; the bounds are naturals) and for any processes, arenas, nonces, faults and losses of power:

| Theorem | Property |
|---|---|
| `InductiveInvariant` | `Inv` |
| `MarkerUnique` | `OneMarker` |
| `ProbesSafe` | `ProbesKept` |
| `StagingKnown` | `StagingJournaled` |
| `LeasesDurable` | `LeaseDurable` |
| `JournalUnique`, `StoreUnique` | `OneJournal`, `OneStore` |
| `CreationAtomic` | `CreationIsAtomic` |

`LocksOK` says at each place which lock is held and which marker is known, above all that a process about to
create the marker knows that there is none; `OneMarker` rests on it. `ArenaOK` says what a place knows of
the arena it works on, and that nobody else works on a leased one. The steps fall in two kinds,
those that leave the arenas alone (`ArenaStep`) and those that leave the root alone (`RootStep`,
`HolderStep`); two processes never both have the collection lock (`HolderAlone`). These parts make up
`Consistent`, which holds whatever fails. `Durable` holds until something fails: an arena at its final path is
durable, or a process stands between its rename and the synchronization (`Promoted`). A lease of an
arena that was there finds nobody in that place, because it would have the collection lock
(`CreateDurable`); a loss of power leaves what is there durable. The refinement needs one
invariant more, `Survival`: what is there can survive, and no other final state of it can. Four lemmas say what each
way of writing an arena (`SetEntryAtomic`, `RewriteAtomic`, `SynchronizeAtomic` and doing nothing) is for
`ArenaCreation`, `StepWrites` that each action is one of them.

`SupervisorProofs` proves, from `SupervisorAssumption` (the bounds are naturals) and for any signals:

| Theorem | Property |
|---|---|
| `InductiveInvariant` | `Inv` |
| `OutcomeTrue` | `OutcomeWhenGone` |
| `TerminalTakenBack` | `TerminalReturned` |
| `JobStopsAsOne` | `StopsAsOne` |

`PlaceOK` says what each operation of the main thread may count on: that the leader is reaped before anybody
asks whether the group is empty, that the terminal is not Cargo's when the job goes to sleep, that a hand-off is
closed wherever the build ends, or lost, and how many calls have failed where the kill of a spawned group may
have. There is one lemma per action.

`HistoryProofs` proves, from `HistoryAssumption` and `ReservationAssumption` (receipts are a finite set of
naturals, policies have a count and bytes, the null value is no process) and for any processes, receipts, sizes
and policies:

| Theorem | Property |
|---|---|
| `InductiveInvariant` | `Inv` |
| `IndexIsRight` | `IndexCovers` |
| `RetentionKept` | `RetentionHolds` |
| `MostIsKept` | `KeepsMost` |
| `RemovalsOrdered` | `OldestFirst` |
| `SamplesKept` | `NoSampleLost` |
| `ReservationIsEnough` | `ReservationCovers` |

`SampleOK`: who is about to record a growth has the lock, and the profile it has read is still the one on the
disk. `MemoryOK` says what the holder of the history lock remembers, above all that the index on the disk is
dirty while a receipt is made, and that a publication prunes by the policy. `OrderOK`: a plan is the older part
of the receipts that are there (`PlanIsOldest`, by count, age and size) and stays it while its holder removes
one after the other.

`IndexOK` is why the index may be trusted. An index is `Right` when it counts the receipts on the disk, as
long as the power did not go, and when it counts as well what a loss of power may bring back (`Worst`), as long
as nothing failed. The two halves need each other's bounds: a rebuilt index counts the disk but not
the removals of a prune that died, and after a loss of power only `Worst` connects the index with the disk. A clean
index is right, and so is the one that a publication carries through its dirty phase, so that one more
receipt makes the projection right (`CountsOneMore`). `BoundsOK` follows from it for a
publication that looks at the index only, and from the plan otherwise: `PlanKeeps` shows of
`removal_plan` that what it keeps is allowed, and contains every allowed end of the history; removing the oldest
first changes neither what is kept nor what is newer than a kept receipt.

`ReservationIsEnough` is about one state: a window can be sorted (`OrderingExists`, by induction on its length, taking
out the largest sample), and the places up to the rank are as many samples that the percentile covers
(`PercentileCovers`).

Only model-checked: `CollectionLockReleased`, `GateReleased`, `StoppedIsContinued` and `SecondSignalEnds`,
liveness properties under fairness, which the prover does not reach; and the five counterexamples.

## Not modelled

- Windows supervision: a job object ends with its processes, the kernel does in one call what the Unix
  supervisor needs a protocol for, and job control does not exist.
- Configuration and quota: a document under a lock of its own, whose writes are JsonPublication's, and the
  project quota of the kernel. `store/quota/` asks the kernel and compares; it can refuse an admission, which
  every admission of ArenaStore and Capacity can meet anyway.
- Context resolution and identities: parsing and hashing without state. Arenas and worktree keys are
  identities in the models.
- Command line and rendering: parsing, dispatch and output.
- Doctor, scan and status: they change nothing. Their probes of arena locks are in ArenaStore, their
  reads without a lock in JsonPublication.
- Dry runs and queries of every command.

Partly modelled: of the managed build, what is done with the output of Cargo; of the planner, the order in
which it prefers candidates, which is open in ArenaStore and Capacity because no property may depend on it.
