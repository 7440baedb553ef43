-------------------------- MODULE ArenaStoreProofs --------------------------
(***************************************************************************)
(* Theorems about ArenaStore, for any number of arenas, processes and      *)
(* retirement ids and for any bounds.                                      *)
(***************************************************************************)
EXTENDS ArenaStore, TLAPS

\* The tuples of variables and the one-line assignments are always expanded.
USE DEF diskVars, worldVars, lockVars, leaseVars, passVars, gcVars, vars,
        Goto, SetLease, Fine, Fault

-----------------------------------------------------------------------------
(* The operators on manifests.                                             *)

\* Whatever is written to arena.json is a manifest again.
LEMMA ManifestOperators ==
    ASSUME NEW m \in Manifest
    PROVE  /\ Begin(m) \in Manifest /\ Finished(m) \in Manifest /\ ClearRetirement(m) \in Manifest
           /\ \A s \in Stage : Advance(m, s) \in Manifest
           /\ \A id \in RetirementId : PrepareRetirement(m, id) \in Manifest
           /\ ExpirePin(m) \in Manifest /\ \A pin \in BOOLEAN : SetPin(m, pin) \in Manifest
<1>0. m.revision + 1 \in Nat
    BY DEF Manifest
<1>1. Begin(m) \in Manifest
    BY <1>0 DEF Manifest, Stage, Begin
<1>2. ASSUME NEW s \in Stage PROVE Advance(m, s) \in Manifest
    BY <1>0 DEF Manifest, Stage, Advance
<1>3. ASSUME NEW i \in RetirementId \cup {None} PROVE PrepareRetirement(m, i) \in Manifest
    BY <1>0, <1>3 DEF Manifest, Stage, PrepareRetirement
<1>4. Finished(m) \in Manifest
    BY <1>2 DEF Finished, Stage
<1>5. ExpirePin(m) \in Manifest
    BY DEF Manifest, Stage, ExpirePin
<1>6. ASSUME NEW pin \in BOOLEAN PROVE SetPin(m, pin) \in Manifest
    BY <1>0 DEF Manifest, Stage, SetPin
<1> QED
    BY <1>1, <1>2, <1>3, <1>4, <1>5, <1>6 DEF ClearRetirement

\* The fields of a manifest.
LEMMA ManifestFields ==
    ASSUME NEW m \in Manifest
    PROVE  /\ m.stage \in Stage \cup {"absent"} /\ m.revision \in Nat
           /\ m.retirement \in RetirementId \cup {None} /\ m.pinned \in BOOLEAN
BY DEF Manifest

\* The manifests that the code writes without reading one are manifests.
LEMMA FixedManifests ==
    /\ Absent \in Manifest /\ Created \in Manifest /\ Finished(Created) \in Manifest
    /\ [Absent EXCEPT !.stage = "finalized", !.revision = 1] \in Manifest
<1>1. Absent \in Manifest
    BY DEF Absent, Manifest
<1>2. [Absent EXCEPT !.stage = "finalized"] \in Manifest
    BY DEF Absent, Manifest, Stage
<1>3. Created \in Manifest
    BY <1>2, ManifestOperators DEF Created
<1>4. Finished(Created) \in Manifest
    BY <1>3, ManifestOperators
<1>5. [Absent EXCEPT !.stage = "finalized", !.revision = 1] \in Manifest
    BY DEF Absent, Manifest, Stage
<1> QED
    BY <1>1, <1>3, <1>4, <1>5

\* What a settled initialization leaves: a finished first revision.
LEMMA CreatedFields ==
    /\ Created.stage = "reserved" /\ Created.retirement = None
    /\ Finished(Created).stage = "finalized" /\ Finished(Created).retirement = None
BY DEF Absent, Created, Begin, Finished, Advance

\* Settling the interrupted initializations keeps every manifest one.
LEMMA PromotedType ==
    ASSUME TypeOK
    PROVE  Promoted \in [Arena -> Manifest]
BY FixedManifests DEF Promoted, TypeOK, DiskType

\* Each operation on a manifest changes the fields it is for.
LEMMA ManifestStages ==
    ASSUME NEW m \in Manifest
    PROVE  /\ Begin(m).stage = "reserved" /\ Begin(m).retirement = None /\ Begin(m).revision = m.revision + 1
           /\ Finished(m).stage = "finalized" /\ Finished(m).retirement = m.retirement
           /\ Finished(m).revision = m.revision + 1
           /\ \A s : Advance(m, s).stage = s /\ Advance(m, s).retirement = m.retirement
                     /\ Advance(m, s).revision = m.revision + 1
           /\ ClearRetirement(m).stage = m.stage /\ ClearRetirement(m).retirement = None
           /\ ClearRetirement(m).revision = m.revision + 1 /\ ClearRetirement(m).pinned = m.pinned
           /\ \A id : PrepareRetirement(m, id).stage = m.stage /\ PrepareRetirement(m, id).retirement = id
                      /\ PrepareRetirement(m, id).revision = m.revision + 1
                      /\ PrepareRetirement(m, id).pinned = m.pinned
           /\ ExpirePin(m).stage = m.stage /\ ExpirePin(m).retirement = m.retirement
           /\ ExpirePin(m).revision = m.revision /\ ~ExpirePin(m).pinned
           /\ \A pin : SetPin(m, pin).stage = m.stage /\ SetPin(m, pin).retirement = m.retirement
                       /\ SetPin(m, pin).revision = m.revision + 1
BY DEF Manifest, Begin, Finished, Advance, PrepareRetirement, ClearRetirement,
       ExpirePin, SetPin

\* A step that rewrites one manifest leaves every other one as it is.
LEMMA WriteFrame ==
    ASSUME DiskType, NEW a \in Arena, NEW m, Write(a, m)
    PROVE  /\ manifest'[a] = m
           /\ \A b \in Arena \ {a} : manifest'[b] = manifest[b]
BY DEF DiskType, Write

\* A staged arena is promoted as finished, every other manifest is left alone.
LEMMA PromotedValues ==
    ASSUME TypeOK, NEW a \in Arena
    PROVE  /\ a \in staged => Promoted[a] = Finished(Created)
           /\ a \notin staged => Promoted[a] = manifest[a]
BY DEF Promoted, TypeOK, DiskType

-----------------------------------------------------------------------------
(* What the steps that write manifests do to the fields of a manifest.     *)

Others(a) == \A b \in Arena : b # a => manifest'[b] = manifest[b]

Advanced(a, s) ==
    /\ manifest'[a].stage = s /\ manifest'[a].retirement = manifest[a].retirement
    /\ manifest'[a].revision = manifest[a].revision + 1
    /\ Others(a)

Intended(a, id) ==
    /\ manifest'[a].stage = manifest[a].stage /\ manifest'[a].retirement = id
    /\ manifest'[a].revision = manifest[a].revision + 1
    /\ manifest'[a].pinned = manifest[a].pinned
    /\ Others(a)

Removed(a) == manifest'[a].stage = "absent" /\ manifest'[a].retirement = None /\ Others(a)

Repinned(a) == Advanced(a, manifest[a].stage)

Expired(a) ==
    /\ manifest'[a].stage = manifest[a].stage /\ manifest'[a].retirement = manifest[a].retirement
    /\ manifest'[a].revision = manifest[a].revision /\ ~manifest'[a].pinned
    /\ Others(a)

Settled(a) ==
    IF a \in staged
       THEN manifest[a].stage = "absent" /\ manifest'[a].stage = "finalized" /\ manifest'[a].retirement = None
       ELSE manifest'[a] = manifest[a]

\* A rewrite of one manifest, seen from every arena.
LEMMA WriteEffect ==
    ASSUME TypeOK, NEW a \in Arena
    PROVE  /\ Write(a, Finished(manifest[a])) => Advanced(a, "finalized")
           /\ \A s : Write(a, Advance(manifest[a], s)) => Advanced(a, s)
           /\ Write(a, ClearRetirement(manifest[a])) => Intended(a, None)
           /\ \A id : Write(a, PrepareRetirement(manifest[a], id)) => Intended(a, id)
           /\ Write(a, Absent) => Removed(a)
           /\ \A pin : Write(a, SetPin(manifest[a], pin)) => Repinned(a)
           /\ Write(a, ExpirePin(manifest[a])) => Expired(a)
<1>1. manifest[a] \in Manifest
    BY DEF TypeOK, DiskType
<1>2. ASSUME NEW m, Write(a, m) PROVE manifest'[a] = m /\ Others(a)
    BY <1>2, WriteFrame DEF TypeOK, Others
<1>3. Write(a, Finished(manifest[a])) => Advanced(a, "finalized")
    BY <1>1, <1>2, ManifestStages DEF Advanced
<1>4. ASSUME NEW s, Write(a, Advance(manifest[a], s)) PROVE Advanced(a, s)
    BY <1>1, <1>2, <1>4, ManifestStages DEF Advanced
<1>5. Write(a, ClearRetirement(manifest[a])) => Intended(a, None)
    BY <1>1, <1>2, ManifestStages DEF Intended
<1>6. ASSUME NEW id, Write(a, PrepareRetirement(manifest[a], id)) PROVE Intended(a, id)
    BY <1>1, <1>2, <1>6, ManifestStages DEF Intended
<1>7. Write(a, Absent) => Removed(a)
    BY <1>2 DEF Removed, Absent
<1>8. ASSUME NEW pin, Write(a, SetPin(manifest[a], pin)) PROVE Repinned(a)
    BY <1>1, <1>2, <1>8, ManifestStages DEF Repinned, Advanced
<1>9. Write(a, ExpirePin(manifest[a])) => Expired(a)
    BY <1>1, <1>2, ManifestStages DEF Expired
<1> QED
    BY <1>3, <1>4, <1>5, <1>6, <1>7, <1>8, <1>9

\* Settling the interrupted initializations, seen from one arena.
LEMMA SettleEffect ==
    ASSUME TypeOK, StagedIsAbsent, NEW a \in Arena, manifest' = Promoted
    PROVE  Settled(a)
BY PromotedValues, CreatedFields DEF Settled, StagedIsAbsent, Exists

\* A new lease of an existing arena, seen from every arena.
LEMMA LeaseEffect ==
    ASSUME TypeOK, StagedIsAbsent, NEW a \in Arena, Promoted[a].stage = "finalized",
           manifest' = [Promoted EXCEPT ![a] = Begin(@)]
    PROVE  /\ manifest'[a].stage = "reserved" /\ manifest'[a].retirement = None
           /\ a \in staged => manifest[a].stage = "absent"
           /\ a \notin staged => /\ manifest[a].stage = "finalized"
                                 /\ manifest'[a].revision = manifest[a].revision + 1
           /\ \A b \in Arena : b # a => Settled(b)
<1>1. Promoted[a] \in Manifest /\ manifest'[a] = Begin(Promoted[a])
    BY PromotedType
<1>2. ASSUME NEW b \in Arena, b # a PROVE Settled(b)
  <2>1. manifest'[b] = Promoted[b]
      BY <1>2, PromotedType
  <2> QED
      BY <2>1, PromotedValues, CreatedFields DEF Settled, StagedIsAbsent, Exists
<1>3. manifest'[a].stage = "reserved" /\ manifest'[a].retirement = None
      /\ manifest'[a].revision = Promoted[a].revision + 1
    BY <1>1, ManifestStages
<1>4. a \in staged => manifest[a].stage = "absent"
    BY DEF StagedIsAbsent, Exists
<1>5. a \notin staged => Promoted[a] = manifest[a]
    BY PromotedValues
<1> QED
    BY <1>2, <1>3, <1>4, <1>5

\* The creation of an arena, seen from every arena.
LEMMA CreateEffect ==
    ASSUME TypeOK, StagedIsAbsent, NEW a \in Arena, Promoted[a].stage = "absent",
           manifest' = [Promoted EXCEPT ![a] = Created]
    PROVE  /\ manifest'[a].stage = "reserved" /\ manifest'[a].retirement = None
           /\ a \notin staged /\ manifest[a].stage = "absent"
           /\ \A b \in Arena : b # a => Settled(b)
<1>1. manifest'[a] = Created
    BY PromotedType
<1>2. ASSUME NEW b \in Arena, b # a PROVE Settled(b)
  <2>1. manifest'[b] = Promoted[b]
      BY <1>2, PromotedType
  <2> QED
      BY <2>1, PromotedValues, CreatedFields DEF Settled, StagedIsAbsent, Exists
<1> QED
    BY <1>1, <1>2, CreatedFields, PromotedValues

-----------------------------------------------------------------------------
(* The same, for each step that writes a manifest.                         *)

\* Spawning is recorded over Reserved, in the arena of the lease.
LEMMA MarkSpawningEffect ==
    ASSUME TypeOK, PlaceOK, LeaseFollowsPlace, NEW p \in Process, MarkSpawning(p)
    PROVE  /\ arena[p] \in Arena /\ lease[p] = "reserved" /\ manifest[arena[p]].stage = "reserved"
           /\ Advanced(arena[p], "spawning") \/ manifest' = manifest
<1>1. /\ arena[p] \in Arena /\ lease[p] = "reserved" /\ manifest[arena[p]].stage = "reserved"
      /\ Write(arena[p], Advance(manifest[arena[p]], "spawning")) \/ manifest' = manifest
    BY DEF MarkSpawning, Transition, PlaceOK, LeaseFollowsPlace
<1> QED
    BY <1>1, WriteEffect

\* Spawned is recorded over Spawning, in the arena of the lease.
LEMMA MarkSpawnedEffect ==
    ASSUME TypeOK, PlaceOK, LeaseFollowsPlace, NEW p \in Process, MarkSpawned(p)
    PROVE  /\ arena[p] \in Arena /\ lease[p] = "spawning" /\ manifest[arena[p]].stage = "spawning"
           /\ Advanced(arena[p], "spawned") \/ manifest' = manifest
<1>1. /\ arena[p] \in Arena /\ lease[p] = "spawning" /\ manifest[arena[p]].stage = "spawning"
      /\ Write(arena[p], Advance(manifest[arena[p]], "spawned")) \/ manifest' = manifest
    BY DEF MarkSpawned, Transition, PlaceOK, LeaseFollowsPlace
<1> QED
    BY <1>1, WriteEffect

\* An outcome is recorded over an unfinished stage, in the arena of the lease.
LEMMA FinishEffect ==
    ASSUME TypeOK, PlaceOK, LeaseFollowsPlace, NEW p \in Process, Finish(p)
    PROVE  /\ arena[p] \in Arena /\ lease[p] # "none" /\ Unfinished(manifest[arena[p]])
           /\ Advanced(arena[p], "finalized")
<1>1. /\ arena[p] \in Arena /\ lease[p] # "none" /\ Unfinished(manifest[arena[p]])
      /\ Write(arena[p], Finished(manifest[arena[p]]))
    BY DEF Finish, PlaceOK, LeaseFollowsPlace, FinishAllowed, Unfinished
<1> QED
    BY <1>1, WriteEffect

\* A lease that is dropped finalizes its own arena or writes nothing.
LEMMA DropLeaseEffect ==
    ASSUME TypeOK, PlaceOK, LeaseFollowsPlace, NEW p \in Process, DropLease(p)
    PROVE  /\ arena[p] \in Arena /\ lease[p] # "none"
           /\ \/ /\ Unfinished(manifest[arena[p]]) /\ lease[p] = "reserved"
                 /\ Advanced(arena[p], "finalized")
              \/ manifest' = manifest
<1>1. /\ arena[p] \in Arena /\ lease[p] # "none"
      /\ \/ /\ Unfinished(manifest[arena[p]]) /\ lease[p] = "reserved"
            /\ Write(arena[p], Finished(manifest[arena[p]]))
         \/ manifest' = manifest
    BY DEF DropLease, PlaceOK, LeaseFollowsPlace, FinishAllowed, Unfinished
<1> QED
    BY <1>1, WriteEffect

\* The rollback of an orphaned intent clears that intent.
LEMMA RepairIntentEffect ==
    ASSUME TypeOK, NEW p \in Process, RepairIntent(p)
    PROVE  \/ manifest' = manifest
           \/ \E a \in Arena : /\ Free(a) /\ manifest[a].retirement # None
                              /\ JournalOf(manifest[a].retirement) = {}
                              /\ Intended(a, None)
<1>1. SUFFICES ASSUME NEW a \in Arena, Free(a), OrphanedIntent(a),
                      Write(a, ClearRetirement(manifest[a]))
               PROVE  Free(a) /\ OrphanedIntent(a) /\ Intended(a, None)
    BY DEF RepairIntent, OrphanedIntent, TypeOK, PassType
<1> QED
    BY <1>1, WriteEffect

\* A rollback that is reported as failed has cleared the intent or done nothing.
LEMMA RepairFailsEffect ==
    ASSUME TypeOK, NEW p \in Process, RepairFails(p)
    PROVE  \/ manifest' = manifest
           \/ \E a \in Arena : /\ Free(a) /\ manifest[a].retirement # None
                              /\ JournalOf(manifest[a].retirement) = {}
                              /\ Intended(a, None)
<1>1. SUFFICES ASSUME NEW a \in Arena, Free(a), OrphanedIntent(a),
                      Write(a, ClearRetirement(manifest[a]))
               PROVE  Free(a) /\ OrphanedIntent(a) /\ Intended(a, None)
    BY DEF RepairFails, OrphanedIntent, TypeOK, PassType
<1> QED
    BY <1>1, WriteEffect

\* An intent is written into the manifest of the victim, under a fresh id.
LEMMA RetireEffect ==
    ASSUME TypeOK, NEW p \in Process, Retire(p)
    PROVE  \E e \in plan, id \in RetirementId :
               /\ e.arena \in Arena /\ StillEvictable(e) /\ Fresh(id) /\ Intended(e.arena, id)
               /\ plan' = plan \ {e} /\ ~Fresh(id)'
               /\ \A i \in RetirementId : i # id => basis'[i] = basis[i]
               /\ \/ TakeVictim(p, e.arena, id, "journal")
                  \/ UNCHANGED <<lockVars, pc, records, victim, nonce>>
<1>1. PICK e \in plan, id \in RetirementId :
          /\ StillEvictable(e) /\ Fresh(id)
          /\ Write(e.arena, PrepareRetirement(manifest[e.arena], id))
          /\ plan' = plan \ {e}
          /\ basis' = [basis EXCEPT ![id] = IF e.orphan THEN "orphan" ELSE "idle"]
          /\ \/ TakeVictim(p, e.arena, id, "journal")
             \/ UNCHANGED <<lockVars, pc, records, victim, nonce>>
    BY DEF Retire
<1>2. e.arena \in Arena
    BY DEF TypeOK, PassType, Eviction
<1>3. Intended(e.arena, id)
    BY <1>1, <1>2, WriteEffect
<1>4. ~Fresh(id)' /\ \A i \in RetirementId : i # id => basis'[i] = basis[i]
    BY <1>1 DEF Fresh, TypeOK, DiskType
<1> QED
    BY <1>1, <1>2, <1>3, <1>4

\* A rename of a retirement removes the victim.
LEMMA RenameArenaEffect ==
    ASSUME TypeOK, PlaceOK, NEW p \in Process, RenameArena(p)
    PROVE  /\ victim \in Arena /\ nonce \in RetirementId
           /\ \/ Removed(victim) /\ trash' = trash \cup {nonce} /\ journal' = journal
              \/ manifest' = manifest /\ trash' = trash /\ journal' \in {journal, journal \ JournalOf(nonce)}
<1>1. /\ victim \in Arena /\ nonce \in RetirementId
      /\ \/ Write(victim, Absent) /\ trash' = trash \cup {nonce} /\ journal' = journal
         \/ manifest' = manifest /\ trash' = trash /\ journal' \in {journal, journal \ JournalOf(nonce)}
    BY DEF RenameArena, PlaceOK, Retiring
<1> QED
    BY <1>1, WriteEffect

\* Reconciliation removes only an arena that its journal still matches.
LEMMA ReconcileRecordEffect ==
    ASSUME TypeOK, NEW p \in Process, ReconcileRecord(p)
    PROVE  \E rec \in journal :
               /\ rec.arena \in Arena /\ rec.id \in RetirementId /\ rec.id \in records
               /\ \/ CompleteRecord(rec) /\ manifest' = manifest
                  \/ ResumeRetirement(p, rec) /\ Removed(rec.arena)
                  \/ DeleteRetired(p, rec) /\ manifest' = manifest
                  \/ RecordFails(rec) /\ manifest' = manifest
<1>1. PICK rec \in journal :
          /\ rec.id \in records
          /\ \/ CompleteRecord(rec)
             \/ ResumeRetirement(p, rec)
             \/ DeleteRetired(p, rec)
             \/ RecordFails(rec)
    BY DEF ReconcileRecord
<1>2. rec.arena \in Arena /\ rec.id \in RetirementId
    BY DEF TypeOK, DiskType, RetirementRecord
<1>3. ResumeRetirement(p, rec) => Removed(rec.arena)
    BY <1>2, WriteEffect DEF ResumeRetirement
<1> QED
    BY <1>1, <1>2, <1>3 DEF CompleteRecord, DeleteRetired, RecordFails, SkipRecord

\* A recovery finalizes a free, unfinished arena without a Cargo tree.
LEMMA RecoverEffect ==
    ASSUME TypeOK, NEW a \in Arena, Recover(a)
    PROVE  Free(a) /\ Unfinished(manifest[a]) /\ ~cargo[a] /\ Advanced(a, "finalized")
BY WriteEffect DEF Recover

\* An expiring pin unpins one arena.
LEMMA PinExpiresEffect ==
    ASSUME TypeOK, NEW a \in Arena, PinExpires(a)
    PROVE  manifest[a].pinned /\ Expired(a)
BY WriteEffect DEF PinExpires

\* A change of pin gives one arena a new revision.
LEMMA UpdatePinEffect ==
    ASSUME TypeOK, NEW a \in Arena, NEW pin \in BOOLEAN, UpdatePin(a, pin)
    PROVE  Exists(a) /\ MetadataFree(a) /\ Repinned(a)
BY WriteEffect DEF UpdatePin

\* The reuse of an arena takes a finished manifest to Reserved.
LEMMA LeaseExistingEffect ==
    ASSUME TypeOK, PlaceOK, StagedIsAbsent, NEW p \in Process, LeaseExisting(p)
    PROVE  /\ arena[p] \in Arena
           /\ manifest'[arena[p]].stage = "reserved" /\ manifest'[arena[p]].retirement = None
           /\ arena[p] \in staged => manifest[arena[p]].stage = "absent"
           /\ arena[p] \notin staged => /\ manifest[arena[p]].stage = "finalized"
                                      /\ manifest'[arena[p]].revision = manifest[arena[p]].revision + 1
           /\ \A b \in Arena : b # arena[p] => Settled(b)
<1>1. /\ arena[p] \in Arena /\ Promoted[arena[p]].stage = "finalized"
      /\ manifest' = [Promoted EXCEPT ![arena[p]] = Begin(@)]
    BY DEF LeaseExisting, PlaceOK, Admitting
<1> QED
    BY <1>1, LeaseEffect

\* The creation of an arena takes a missing one to Reserved.
LEMMA LeaseNewEffect ==
    ASSUME TypeOK, PlaceOK, StagedIsAbsent, NEW p \in Process, LeaseNew(p)
    PROVE  /\ arena[p] \in Arena
           /\ manifest'[arena[p]].stage = "reserved" /\ manifest'[arena[p]].retirement = None
           /\ manifest[arena[p]].stage = "absent"
           /\ \A b \in Arena : b # arena[p] => Settled(b)
<1>1. /\ arena[p] \in Arena /\ Promoted[arena[p]].stage = "absent"
      /\ manifest' = [Promoted EXCEPT ![arena[p]] = Created]
    BY DEF LeaseNew, PlaceOK, Admitting
<1> QED
    BY <1>1, CreateEffect

\* Opening the store settles interrupted initializations and nothing else.
LEMMA OpenStoreEffect ==
    ASSUME TypeOK, StagedIsAbsent, NEW p \in Process, OpenStore(p)
    PROVE  \A b \in Arena : Settled(b)
BY SettleEffect DEF OpenStore

\* An interrupted creation leaves its arena missing and staged.
LEMMA LeaseNewInterruptedEffect ==
    ASSUME TypeOK, PlaceOK, StagedIsAbsent, NEW p \in Process, LeaseNewInterrupted(p)
    PROVE  /\ \A b \in Arena : Settled(b)
           /\ arena[p] \in Arena /\ manifest'[arena[p]].stage = "absent" /\ staged' = {arena[p]}
BY SettleEffect DEF LeaseNewInterrupted, PlaceOK, Admitting

\* A refused lease settles interrupted initializations at most.
LEMMA LeaseRefusedEffect ==
    ASSUME TypeOK, StagedIsAbsent, NEW p \in Process, LeaseRefused(p)
    PROVE  (\A b \in Arena : Settled(b)) \/ manifest' = manifest
BY SettleEffect DEF LeaseRefused

-----------------------------------------------------------------------------
(* Type correctness.                                                       *)

\* The initial states are well typed.
LEMMA InitType == Init => TypeOK
<1> SUFFICES ASSUME Init PROVE TypeOK
    OBVIOUS
<1>1. manifest \in [Arena -> Manifest]
    BY FixedManifests DEF Init
<1> QED
    BY <1>1, FixedManifests DEF Init, TypeOK, DiskType, ProcessType, PassType, Place

\* The manifests after a process has rewritten one of them.
LEMMA WriteType ==
    ASSUME DiskType, NEW a, NEW m \in Manifest, Write(a, m)
    PROVE  manifest' \in [Arena -> Manifest]
BY DEF DiskType, Write

\* Only the process at work names an arena, and only one process collects.
LEMMA PlaceStep ==
    ASSUME TypeOK, PlaceOK, LeaseFollowsPlace, Next
    PROVE  PlaceOK'
<1> USE DEF PlaceOK, LeaseFollowsPlace, TypeOK, DiskType, ProcessType, PassType, Place, RetirementRecord, Eviction, Admitting, Collecting, Retiring
<1>1. ASSUME NEW p \in Process, StartCollection(p) PROVE PlaceOK'
    BY <1>1, ArenaStoreAssumption DEF StartCollection
<1>2. ASSUME NEW p \in Process, OpenStore(p) PROVE PlaceOK'
    BY <1>2, ArenaStoreAssumption DEF OpenStore
<1>3. ASSUME NEW p \in Process, NEW a \in Arena, StartBuild(p, a) PROVE PlaceOK'
    BY <1>3, ArenaStoreAssumption DEF StartBuild
<1>4. ASSUME NEW p \in Process, AcquireCollection(p) PROVE PlaceOK'
    BY <1>4, ArenaStoreAssumption DEF AcquireCollection
<1>5. ASSUME NEW p \in Process, TryArena(p) PROVE PlaceOK'
    BY <1>5, ArenaStoreAssumption DEF TryArena
<1>6. ASSUME NEW p \in Process, WaitArena(p) PROVE PlaceOK'
    BY <1>6, ArenaStoreAssumption DEF WaitArena
<1>7. ASSUME NEW p \in Process, LeaseExisting(p) PROVE PlaceOK'
    BY <1>7, ArenaStoreAssumption DEF LeaseExisting, StartReconciliation
<1>8. ASSUME NEW p \in Process, LeaseNew(p) PROVE PlaceOK'
    BY <1>8, ArenaStoreAssumption DEF LeaseNew, StartReconciliation
<1>9. ASSUME NEW p \in Process, LeaseNewInterrupted(p) PROVE PlaceOK'
    BY <1>9, ArenaStoreAssumption DEF LeaseNewInterrupted, Leave, Unlock
<1>10. ASSUME NEW p \in Process, LeaseRefused(p) PROVE PlaceOK'
    BY <1>10, ArenaStoreAssumption DEF LeaseRefused, Leave, Unlock
<1>11. ASSUME NEW p \in Process, ReconcileRecord(p) PROVE PlaceOK'
    BY <1>11, ArenaStoreAssumption DEF ReconcileRecord, CompleteRecord, ResumeRetirement,
       DeleteRetired, RecordFails, SkipRecord, TakeVictim
<1>12. ASSUME NEW p \in Process, EndReconcile(p) PROVE PlaceOK'
    BY <1>12, ArenaStoreAssumption DEF EndReconcile
<1>13. ASSUME NEW p \in Process, RepairIntent(p) PROVE PlaceOK'
    BY <1>13, ArenaStoreAssumption DEF RepairIntent
<1>14. ASSUME NEW p \in Process, RepairFails(p) PROVE PlaceOK'
    BY <1>14, ArenaStoreAssumption DEF RepairFails, AbortCollection, ForgetPass, Leave, Unlock
<1>15. ASSUME NEW p \in Process, CollectionFails(p) PROVE PlaceOK'
    BY <1>15, ArenaStoreAssumption DEF CollectionFails, AbortCollection, ForgetPass, Leave, Unlock
<1>16. ASSUME NEW p \in Process, EndRepair(p) PROVE PlaceOK'
    BY <1>16, ArenaStoreAssumption DEF EndRepair, ForgetPass, Leave, Unlock
<1>17. ASSUME NEW p \in Process, ReadManifest(p) PROVE PlaceOK'
    BY <1>17, ArenaStoreAssumption DEF ReadManifest
<1>18. ASSUME NEW p \in Process, ProbeLock(p) PROVE PlaceOK'
    BY <1>18, ArenaStoreAssumption DEF ProbeLock
<1>19. ASSUME NEW p \in Process, EndScan(p) PROVE PlaceOK'
    BY <1>19, ArenaStoreAssumption DEF EndScan, AbortCollection, ForgetPass, Leave, Unlock
<1>20. ASSUME NEW p \in Process, Retire(p) PROVE PlaceOK'
    BY <1>20, ArenaStoreAssumption DEF Retire, TakeVictim
<1>21. ASSUME NEW p \in Process, SkipEviction(p) PROVE PlaceOK'
    BY <1>21, ArenaStoreAssumption DEF SkipEviction
<1>22. ASSUME NEW p \in Process, EndRetire(p) PROVE PlaceOK'
    BY <1>22, ArenaStoreAssumption DEF EndRetire, ForgetPass, Leave, Unlock
<1>23. ASSUME NEW p \in Process, CreateJournal(p) PROVE PlaceOK'
    BY <1>23, ArenaStoreAssumption DEF CreateJournal, Step, Return
<1>24. ASSUME NEW p \in Process, RenameArena(p) PROVE PlaceOK'
    BY <1>24, ArenaStoreAssumption DEF RenameArena, Step, Return
<1>25. ASSUME NEW p \in Process, PurgeTrash(p) PROVE PlaceOK'
    BY <1>25, ArenaStoreAssumption DEF PurgeTrash, Step, Return
<1>26. ASSUME NEW p \in Process, RemoveJournal(p) PROVE PlaceOK'
    BY <1>26, ArenaStoreAssumption DEF RemoveJournal, Return
<1>27. ASSUME NEW p \in Process, AbortAdmitted(p) PROVE PlaceOK'
    BY <1>27, ArenaStoreAssumption DEF AbortAdmitted
<1>28. ASSUME NEW p \in Process, MarkSpawning(p) PROVE PlaceOK'
    BY <1>28, ArenaStoreAssumption DEF MarkSpawning, Transition
<1>29. ASSUME NEW p \in Process, Fork(p) PROVE PlaceOK'
    BY <1>29, ArenaStoreAssumption DEF Fork
<1>30. ASSUME NEW p \in Process, MarkSpawned(p) PROVE PlaceOK'
    BY <1>30, ArenaStoreAssumption DEF MarkSpawned, Transition
<1>31. ASSUME NEW p \in Process, SupervisionFails(p) PROVE PlaceOK'
    BY <1>31, ArenaStoreAssumption DEF SupervisionFails
<1>32. ASSUME NEW p \in Process, TreeExits(p) PROVE PlaceOK'
    BY <1>32, ArenaStoreAssumption DEF TreeExits
<1>33. ASSUME NEW p \in Process, LeaveSuspect(p) PROVE PlaceOK'
    BY <1>33, ArenaStoreAssumption DEF LeaveSuspect, Leave, Unlock
<1>34. ASSUME NEW p \in Process, Finish(p) PROVE PlaceOK'
    BY <1>34, ArenaStoreAssumption DEF Finish, Unlock
<1>35. ASSUME NEW p \in Process, FinishFails(p) PROVE PlaceOK'
    BY <1>35, ArenaStoreAssumption DEF FinishFails
<1>36. ASSUME NEW p \in Process, DropLease(p) PROVE PlaceOK'
    BY <1>36, ArenaStoreAssumption DEF DropLease, Leave, Unlock
<1>37. ASSUME NEW p \in Process, Crash(p) PROVE PlaceOK'
    BY <1>37, ArenaStoreAssumption DEF Crash, ForgetPass, Leave, Unlock
<1>38. ASSUME NEW a \in Arena, CargoExits(a) PROVE PlaceOK'
    BY <1>38, ArenaStoreAssumption DEF CargoExits
<1>39. ASSUME NEW a \in Arena, Recover(a) PROVE PlaceOK'
    BY <1>39, ArenaStoreAssumption DEF Recover
<1>40. ASSUME NEW a \in Arena, NEW pin \in BOOLEAN, UpdatePin(a, pin) PROVE PlaceOK'
    BY <1>40, ArenaStoreAssumption DEF UpdatePin
<1>41. ASSUME NEW a \in Arena, PinExpires(a) PROVE PlaceOK'
    BY <1>41, ArenaStoreAssumption DEF PinExpires
<1>42. ASSUME NEW a \in Arena, WorktreeChanges(a) PROVE PlaceOK'
    BY <1>42, ArenaStoreAssumption DEF WorktreeChanges
<1> QED
    BY <1>1, <1>2, <1>3, <1>4, <1>5, <1>6, <1>7, <1>8, <1>9, <1>10, <1>11, <1>12, <1>13,
       <1>14, <1>15, <1>16, <1>17, <1>18, <1>19, <1>20, <1>21, <1>22, <1>23, <1>24, <1>25,
       <1>26, <1>27, <1>28, <1>29, <1>30, <1>31, <1>32, <1>33, <1>34, <1>35, <1>36, <1>37,
       <1>38, <1>39, <1>40, <1>41, <1>42 DEF Next, Admit, Collect, Build, Start, Environment

\* A process takes a lease when it is admitted and has none when it is done.
LEMMA LeaseFollowsPlaceStep ==
    ASSUME TypeOK, PlaceOK, LeaseFollowsPlace, Next
    PROVE  LeaseFollowsPlace'
<1> USE DEF PlaceOK, LeaseFollowsPlace, TypeOK, DiskType, ProcessType, PassType, Place, RetirementRecord, Eviction, Admitting, Collecting, Retiring
<1>1. ASSUME NEW p \in Process, StartCollection(p) PROVE LeaseFollowsPlace'
    BY <1>1 DEF StartCollection
<1>2. ASSUME NEW p \in Process, OpenStore(p) PROVE LeaseFollowsPlace'
    BY <1>2 DEF OpenStore
<1>3. ASSUME NEW p \in Process, NEW a \in Arena, StartBuild(p, a) PROVE LeaseFollowsPlace'
    BY <1>3 DEF StartBuild
<1>4. ASSUME NEW p \in Process, AcquireCollection(p) PROVE LeaseFollowsPlace'
    BY <1>4 DEF AcquireCollection
<1>5. ASSUME NEW p \in Process, TryArena(p) PROVE LeaseFollowsPlace'
    BY <1>5 DEF TryArena
<1>6. ASSUME NEW p \in Process, WaitArena(p) PROVE LeaseFollowsPlace'
    BY <1>6 DEF WaitArena
<1>7. ASSUME NEW p \in Process, LeaseExisting(p) PROVE LeaseFollowsPlace'
    BY <1>7 DEF LeaseExisting, StartReconciliation
<1>8. ASSUME NEW p \in Process, LeaseNew(p) PROVE LeaseFollowsPlace'
    BY <1>8 DEF LeaseNew, StartReconciliation
<1>9. ASSUME NEW p \in Process, LeaseNewInterrupted(p) PROVE LeaseFollowsPlace'
    BY <1>9 DEF LeaseNewInterrupted, Leave, Unlock
<1>10. ASSUME NEW p \in Process, LeaseRefused(p) PROVE LeaseFollowsPlace'
    BY <1>10 DEF LeaseRefused, Leave, Unlock
<1>11. ASSUME NEW p \in Process, ReconcileRecord(p) PROVE LeaseFollowsPlace'
    BY <1>11 DEF ReconcileRecord, CompleteRecord, ResumeRetirement, DeleteRetired,
       RecordFails, SkipRecord, TakeVictim
<1>12. ASSUME NEW p \in Process, EndReconcile(p) PROVE LeaseFollowsPlace'
    BY <1>12 DEF EndReconcile
<1>13. ASSUME NEW p \in Process, RepairIntent(p) PROVE LeaseFollowsPlace'
    BY <1>13 DEF RepairIntent
<1>14. ASSUME NEW p \in Process, RepairFails(p) PROVE LeaseFollowsPlace'
    BY <1>14 DEF RepairFails, AbortCollection, ForgetPass, Leave, Unlock
<1>15. ASSUME NEW p \in Process, CollectionFails(p) PROVE LeaseFollowsPlace'
    BY <1>15 DEF CollectionFails, AbortCollection, ForgetPass, Leave, Unlock
<1>16. ASSUME NEW p \in Process, EndRepair(p) PROVE LeaseFollowsPlace'
    BY <1>16 DEF EndRepair, ForgetPass, Leave, Unlock
<1>17. ASSUME NEW p \in Process, ReadManifest(p) PROVE LeaseFollowsPlace'
    BY <1>17 DEF ReadManifest
<1>18. ASSUME NEW p \in Process, ProbeLock(p) PROVE LeaseFollowsPlace'
    BY <1>18 DEF ProbeLock
<1>19. ASSUME NEW p \in Process, EndScan(p) PROVE LeaseFollowsPlace'
    BY <1>19 DEF EndScan, AbortCollection, ForgetPass, Leave, Unlock
<1>20. ASSUME NEW p \in Process, Retire(p) PROVE LeaseFollowsPlace'
    BY <1>20 DEF Retire, TakeVictim
<1>21. ASSUME NEW p \in Process, SkipEviction(p) PROVE LeaseFollowsPlace'
    BY <1>21 DEF SkipEviction
<1>22. ASSUME NEW p \in Process, EndRetire(p) PROVE LeaseFollowsPlace'
    BY <1>22 DEF EndRetire, ForgetPass, Leave, Unlock
<1>23. ASSUME NEW p \in Process, CreateJournal(p) PROVE LeaseFollowsPlace'
    BY <1>23 DEF CreateJournal, Step, Return
<1>24. ASSUME NEW p \in Process, RenameArena(p) PROVE LeaseFollowsPlace'
    BY <1>24 DEF RenameArena, Step, Return
<1>25. ASSUME NEW p \in Process, PurgeTrash(p) PROVE LeaseFollowsPlace'
    BY <1>25 DEF PurgeTrash, Step, Return
<1>26. ASSUME NEW p \in Process, RemoveJournal(p) PROVE LeaseFollowsPlace'
    BY <1>26 DEF RemoveJournal, Return
<1>27. ASSUME NEW p \in Process, AbortAdmitted(p) PROVE LeaseFollowsPlace'
    BY <1>27 DEF AbortAdmitted
<1>28. ASSUME NEW p \in Process, MarkSpawning(p) PROVE LeaseFollowsPlace'
    BY <1>28 DEF MarkSpawning, Transition
<1>29. ASSUME NEW p \in Process, Fork(p) PROVE LeaseFollowsPlace'
    BY <1>29 DEF Fork
<1>30. ASSUME NEW p \in Process, MarkSpawned(p) PROVE LeaseFollowsPlace'
    BY <1>30 DEF MarkSpawned, Transition
<1>31. ASSUME NEW p \in Process, SupervisionFails(p) PROVE LeaseFollowsPlace'
    BY <1>31 DEF SupervisionFails
<1>32. ASSUME NEW p \in Process, TreeExits(p) PROVE LeaseFollowsPlace'
    BY <1>32 DEF TreeExits
<1>33. ASSUME NEW p \in Process, LeaveSuspect(p) PROVE LeaseFollowsPlace'
    BY <1>33 DEF LeaveSuspect, Leave, Unlock
<1>34. ASSUME NEW p \in Process, Finish(p) PROVE LeaseFollowsPlace'
    BY <1>34 DEF Finish, Unlock
<1>35. ASSUME NEW p \in Process, FinishFails(p) PROVE LeaseFollowsPlace'
    BY <1>35 DEF FinishFails
<1>36. ASSUME NEW p \in Process, DropLease(p) PROVE LeaseFollowsPlace'
    BY <1>36 DEF DropLease, Leave, Unlock
<1>37. ASSUME NEW p \in Process, Crash(p) PROVE LeaseFollowsPlace'
    BY <1>37 DEF Crash, ForgetPass, Leave, Unlock
<1>38. ASSUME NEW a \in Arena, CargoExits(a) PROVE LeaseFollowsPlace'
    BY <1>38 DEF CargoExits
<1>39. ASSUME NEW a \in Arena, Recover(a) PROVE LeaseFollowsPlace'
    BY <1>39 DEF Recover
<1>40. ASSUME NEW a \in Arena, NEW pin \in BOOLEAN, UpdatePin(a, pin) PROVE LeaseFollowsPlace'
    BY <1>40 DEF UpdatePin
<1>41. ASSUME NEW a \in Arena, PinExpires(a) PROVE LeaseFollowsPlace'
    BY <1>41 DEF PinExpires
<1>42. ASSUME NEW a \in Arena, WorktreeChanges(a) PROVE LeaseFollowsPlace'
    BY <1>42 DEF WorktreeChanges
<1> QED
    BY <1>1, <1>2, <1>3, <1>4, <1>5, <1>6, <1>7, <1>8, <1>9, <1>10, <1>11, <1>12, <1>13,
       <1>14, <1>15, <1>16, <1>17, <1>18, <1>19, <1>20, <1>21, <1>22, <1>23, <1>24, <1>25,
       <1>26, <1>27, <1>28, <1>29, <1>30, <1>31, <1>32, <1>33, <1>34, <1>35, <1>36, <1>37,
       <1>38, <1>39, <1>40, <1>41, <1>42 DEF Next, Admit, Collect, Build, Start, Environment

\* What is on disk stays well formed.
LEMMA DiskTypeStep ==
    ASSUME TypeOK, PlaceOK, LeaseFollowsPlace, Next
    PROVE  DiskType'
<1> USE DEF TypeOK, DiskType
<1>1. ASSUME NEW p \in Process, StartCollection(p) PROVE DiskType'
    BY <1>1 DEF StartCollection
<1>2. ASSUME NEW p \in Process, OpenStore(p) PROVE DiskType'
    BY <1>2, PromotedType DEF OpenStore
<1>3. ASSUME NEW p \in Process, NEW a \in Arena, StartBuild(p, a) PROVE DiskType'
    BY <1>3 DEF StartBuild
<1>4. ASSUME NEW p \in Process, AcquireCollection(p) PROVE DiskType'
    BY <1>4 DEF AcquireCollection
<1>5. ASSUME NEW p \in Process, TryArena(p) PROVE DiskType'
    BY <1>5 DEF TryArena
<1>6. ASSUME NEW p \in Process, WaitArena(p) PROVE DiskType'
    BY <1>6 DEF WaitArena
<1>7. ASSUME NEW p \in Process, LeaseExisting(p) PROVE DiskType'
    BY <1>7, ManifestOperators, PromotedType DEF LeaseExisting, PlaceOK, Admitting,
       Collecting, Retiring
<1>8. ASSUME NEW p \in Process, LeaseNew(p) PROVE DiskType'
    BY <1>8, FixedManifests, PromotedType DEF LeaseNew, PlaceOK, Admitting, Collecting, Retiring
<1>9. ASSUME NEW p \in Process, LeaseNewInterrupted(p) PROVE DiskType'
    BY <1>9, PromotedType DEF LeaseNewInterrupted, PlaceOK, Admitting, Collecting, Retiring
<1>10. ASSUME NEW p \in Process, LeaseRefused(p) PROVE DiskType'
    BY <1>10, PromotedType DEF LeaseRefused
<1>11. ASSUME NEW p \in Process, ReconcileRecord(p) PROVE DiskType'
    BY <1>11, WriteType, FixedManifests DEF ReconcileRecord, CompleteRecord,
       ResumeRetirement, DeleteRetired, RecordFails, SkipRecord, TakeVictim,
       RetirementRecord
<1>12. ASSUME NEW p \in Process, EndReconcile(p) PROVE DiskType'
    BY <1>12 DEF EndReconcile
<1>13. ASSUME NEW p \in Process, RepairIntent(p) PROVE DiskType'
    BY <1>13, WriteType, ManifestOperators DEF RepairIntent, PassType
<1>14. ASSUME NEW p \in Process, RepairFails(p) PROVE DiskType'
    BY <1>14, WriteType, ManifestOperators DEF RepairFails, PassType
<1>15. ASSUME NEW p \in Process, CollectionFails(p) PROVE DiskType'
    BY <1>15 DEF CollectionFails
<1>16. ASSUME NEW p \in Process, EndRepair(p) PROVE DiskType'
    BY <1>16 DEF EndRepair
<1>17. ASSUME NEW p \in Process, ReadManifest(p) PROVE DiskType'
    BY <1>17 DEF ReadManifest
<1>18. ASSUME NEW p \in Process, ProbeLock(p) PROVE DiskType'
    BY <1>18 DEF ProbeLock
<1>19. ASSUME NEW p \in Process, EndScan(p) PROVE DiskType'
    BY <1>19 DEF EndScan
<1>20. ASSUME NEW p \in Process, Retire(p) PROVE DiskType'
    BY <1>20, WriteType, ManifestOperators DEF Retire, TakeVictim, Eviction, PassType, ProcessType
<1>21. ASSUME NEW p \in Process, SkipEviction(p) PROVE DiskType'
    BY <1>21 DEF SkipEviction
<1>22. ASSUME NEW p \in Process, EndRetire(p) PROVE DiskType'
    BY <1>22 DEF EndRetire
<1>23. ASSUME NEW p \in Process, CreateJournal(p) PROVE DiskType'
    BY <1>23, ManifestFields DEF CreateJournal, Step, Return, PlaceOK, Admitting,
       Collecting, Retiring, RetirementRecord, ProcessType, PassType
<1>24. ASSUME NEW p \in Process, RenameArena(p) PROVE DiskType'
    BY <1>24, WriteType, FixedManifests DEF RenameArena, Step, Return, PlaceOK, Admitting,
       Collecting, Retiring
<1>25. ASSUME NEW p \in Process, PurgeTrash(p) PROVE DiskType'
    BY <1>25 DEF PurgeTrash, Step, Return
<1>26. ASSUME NEW p \in Process, RemoveJournal(p) PROVE DiskType'
    BY <1>26 DEF RemoveJournal, Return
<1>27. ASSUME NEW p \in Process, AbortAdmitted(p) PROVE DiskType'
    BY <1>27 DEF AbortAdmitted
<1>28. ASSUME NEW p \in Process, MarkSpawning(p) PROVE DiskType'
    BY <1>28, WriteType, ManifestOperators DEF MarkSpawning, Transition, Stage, PlaceOK,
       LeaseFollowsPlace, ProcessType
<1>29. ASSUME NEW p \in Process, Fork(p) PROVE DiskType'
    BY <1>29 DEF Fork
<1>30. ASSUME NEW p \in Process, MarkSpawned(p) PROVE DiskType'
    BY <1>30, WriteType, ManifestOperators DEF MarkSpawned, Transition, Stage, PlaceOK,
       LeaseFollowsPlace, ProcessType
<1>31. ASSUME NEW p \in Process, SupervisionFails(p) PROVE DiskType'
    BY <1>31 DEF SupervisionFails
<1>32. ASSUME NEW p \in Process, TreeExits(p) PROVE DiskType'
    BY <1>32 DEF TreeExits
<1>33. ASSUME NEW p \in Process, LeaveSuspect(p) PROVE DiskType'
    BY <1>33 DEF LeaveSuspect
<1>34. ASSUME NEW p \in Process, Finish(p) PROVE DiskType'
    BY <1>34, WriteType, ManifestOperators DEF Finish, PlaceOK, LeaseFollowsPlace, ProcessType
<1>35. ASSUME NEW p \in Process, FinishFails(p) PROVE DiskType'
    BY <1>35 DEF FinishFails
<1>36. ASSUME NEW p \in Process, DropLease(p) PROVE DiskType'
    BY <1>36, WriteType, ManifestOperators DEF DropLease, PlaceOK, LeaseFollowsPlace, ProcessType
<1>37. ASSUME NEW p \in Process, Crash(p) PROVE DiskType'
    BY <1>37 DEF Crash
<1>38. ASSUME NEW a \in Arena, CargoExits(a) PROVE DiskType'
    BY <1>38 DEF CargoExits
<1>39. ASSUME NEW a \in Arena, Recover(a) PROVE DiskType'
    BY <1>39, WriteType, ManifestOperators DEF Recover
<1>40. ASSUME NEW a \in Arena, NEW pin \in BOOLEAN, UpdatePin(a, pin) PROVE DiskType'
    BY <1>40, WriteType, ManifestOperators DEF UpdatePin
<1>41. ASSUME NEW a \in Arena, PinExpires(a) PROVE DiskType'
    BY <1>41, WriteType, ManifestOperators DEF PinExpires
<1>42. ASSUME NEW a \in Arena, WorktreeChanges(a) PROVE DiskType'
    BY <1>42 DEF WorktreeChanges
<1> QED
    BY <1>1, <1>2, <1>3, <1>4, <1>5, <1>6, <1>7, <1>8, <1>9, <1>10, <1>11, <1>12, <1>13,
       <1>14, <1>15, <1>16, <1>17, <1>18, <1>19, <1>20, <1>21, <1>22, <1>23, <1>24, <1>25,
       <1>26, <1>27, <1>28, <1>29, <1>30, <1>31, <1>32, <1>33, <1>34, <1>35, <1>36, <1>37,
       <1>38, <1>39, <1>40, <1>41, <1>42 DEF Next, Admit, Collect, Build, Start, Environment

\* Processes and locks stay well formed.
LEMMA ProcessTypeStep ==
    ASSUME TypeOK, PlaceOK, LeaseFollowsPlace, Next
    PROVE  ProcessType'
<1> USE DEF TypeOK, ProcessType, Place
<1>1. ASSUME NEW p \in Process, StartCollection(p) PROVE ProcessType'
    BY <1>1 DEF StartCollection, DiskType, PassType, RetirementRecord, Eviction, Held
<1>2. ASSUME NEW p \in Process, OpenStore(p) PROVE ProcessType'
    BY <1>2 DEF OpenStore, DiskType, PassType, RetirementRecord, Eviction, Held
<1>3. ASSUME NEW p \in Process, NEW a \in Arena, StartBuild(p, a) PROVE ProcessType'
    BY <1>3 DEF StartBuild, DiskType, PassType, RetirementRecord, Eviction, Held
<1>4. ASSUME NEW p \in Process, AcquireCollection(p) PROVE ProcessType'
    BY <1>4 DEF AcquireCollection, DiskType, PassType, RetirementRecord, Eviction, Held
<1>5. ASSUME NEW p \in Process, TryArena(p) PROVE ProcessType'
    BY <1>5 DEF TryArena, DiskType, PassType, RetirementRecord, Eviction, Held
<1>6. ASSUME NEW p \in Process, WaitArena(p) PROVE ProcessType'
    BY <1>6 DEF WaitArena, DiskType, PassType, RetirementRecord, Eviction, Held
<1>7. ASSUME NEW p \in Process, LeaseExisting(p) PROVE ProcessType'
    BY <1>7 DEF LeaseExisting, StartReconciliation, DiskType, PassType, RetirementRecord,
       Eviction, Held
<1>8. ASSUME NEW p \in Process, LeaseNew(p) PROVE ProcessType'
    BY <1>8 DEF LeaseNew, StartReconciliation, DiskType, PassType, RetirementRecord, Eviction, Held
<1>9. ASSUME NEW p \in Process, LeaseNewInterrupted(p) PROVE ProcessType'
    BY <1>9 DEF LeaseNewInterrupted, Leave, Unlock, DiskType, PassType, RetirementRecord,
       Eviction, Held
<1>10. ASSUME NEW p \in Process, LeaseRefused(p) PROVE ProcessType'
    BY <1>10 DEF LeaseRefused, Leave, Unlock, DiskType, PassType, RetirementRecord, Eviction, Held
<1>11. ASSUME NEW p \in Process, ReconcileRecord(p) PROVE ProcessType'
    BY <1>11 DEF ReconcileRecord, CompleteRecord, ResumeRetirement, DeleteRetired,
       RecordFails, SkipRecord, TakeVictim, DiskType, PassType, RetirementRecord, Eviction,
       Held
<1>12. ASSUME NEW p \in Process, EndReconcile(p) PROVE ProcessType'
    BY <1>12 DEF EndReconcile, DiskType, PassType, RetirementRecord, Eviction, Held
<1>13. ASSUME NEW p \in Process, RepairIntent(p) PROVE ProcessType'
    BY <1>13 DEF RepairIntent, DiskType, PassType, RetirementRecord, Eviction, Held
<1>14. ASSUME NEW p \in Process, RepairFails(p) PROVE ProcessType'
    BY <1>14 DEF RepairFails, AbortCollection, Leave, Unlock, DiskType, PassType,
       RetirementRecord, Eviction, Held
<1>15. ASSUME NEW p \in Process, CollectionFails(p) PROVE ProcessType'
    BY <1>15 DEF CollectionFails, AbortCollection, Leave, Unlock, DiskType, PassType,
       RetirementRecord, Eviction, Held
<1>16. ASSUME NEW p \in Process, EndRepair(p) PROVE ProcessType'
    BY <1>16 DEF EndRepair, Leave, Unlock, DiskType, PassType, RetirementRecord, Eviction, Held
<1>17. ASSUME NEW p \in Process, ReadManifest(p) PROVE ProcessType'
    BY <1>17 DEF ReadManifest, DiskType, PassType, RetirementRecord, Eviction, Held
<1>18. ASSUME NEW p \in Process, ProbeLock(p) PROVE ProcessType'
    BY <1>18 DEF ProbeLock, DiskType, PassType, RetirementRecord, Eviction, Held
<1>19. ASSUME NEW p \in Process, EndScan(p) PROVE ProcessType'
    BY <1>19 DEF EndScan, AbortCollection, Leave, Unlock, DiskType, PassType,
       RetirementRecord, Eviction, Held
<1>20. ASSUME NEW p \in Process, Retire(p) PROVE ProcessType'
    BY <1>20 DEF Retire, TakeVictim, DiskType, PassType, RetirementRecord, Eviction, Held
<1>21. ASSUME NEW p \in Process, SkipEviction(p) PROVE ProcessType'
    BY <1>21 DEF SkipEviction, DiskType, PassType, RetirementRecord, Eviction, Held
<1>22. ASSUME NEW p \in Process, EndRetire(p) PROVE ProcessType'
    BY <1>22 DEF EndRetire, Leave, Unlock, DiskType, PassType, RetirementRecord, Eviction, Held
<1>23. ASSUME NEW p \in Process, CreateJournal(p) PROVE ProcessType'
    BY <1>23 DEF CreateJournal, Step, Return, DiskType, PassType, RetirementRecord, Eviction, Held
<1>24. ASSUME NEW p \in Process, RenameArena(p) PROVE ProcessType'
    BY <1>24 DEF RenameArena, Step, Return, DiskType, PassType, RetirementRecord, Eviction, Held
<1>25. ASSUME NEW p \in Process, PurgeTrash(p) PROVE ProcessType'
    BY <1>25 DEF PurgeTrash, Step, Return, DiskType, PassType, RetirementRecord, Eviction, Held
<1>26. ASSUME NEW p \in Process, RemoveJournal(p) PROVE ProcessType'
  <2>1. pc' \in [Process -> Place]
      BY <1>26 DEF RemoveJournal, Return
  <2>2. arenaLock' \in [Arena -> Process \cup {Nobody}]
      BY <1>26 DEF RemoveJournal, Return
  <2>3. UNCHANGED <<collection, arena, lease>>
      BY <1>26 DEF RemoveJournal, Return
  <2>4. faults' \in Nat
      BY <1>26 DEF RemoveJournal
  <2> QED
      BY <2>1, <2>2, <2>3, <2>4
<1>27. ASSUME NEW p \in Process, AbortAdmitted(p) PROVE ProcessType'
    BY <1>27 DEF AbortAdmitted, DiskType, PassType, RetirementRecord, Eviction, Held
<1>28. ASSUME NEW p \in Process, MarkSpawning(p) PROVE ProcessType'
    BY <1>28 DEF MarkSpawning, Transition, DiskType, PassType, RetirementRecord, Eviction, Held
<1>29. ASSUME NEW p \in Process, Fork(p) PROVE ProcessType'
    BY <1>29 DEF Fork, DiskType, PassType, RetirementRecord, Eviction, Held
<1>30. ASSUME NEW p \in Process, MarkSpawned(p) PROVE ProcessType'
    BY <1>30 DEF MarkSpawned, Transition, DiskType, PassType, RetirementRecord, Eviction, Held
<1>31. ASSUME NEW p \in Process, SupervisionFails(p) PROVE ProcessType'
    BY <1>31 DEF SupervisionFails, DiskType, PassType, RetirementRecord, Eviction, Held
<1>32. ASSUME NEW p \in Process, TreeExits(p) PROVE ProcessType'
    BY <1>32 DEF TreeExits, DiskType, PassType, RetirementRecord, Eviction, Held
<1>33. ASSUME NEW p \in Process, LeaveSuspect(p) PROVE ProcessType'
    BY <1>33 DEF LeaveSuspect, Leave, Unlock, DiskType, PassType, RetirementRecord, Eviction, Held
<1>34. ASSUME NEW p \in Process, Finish(p) PROVE ProcessType'
    BY <1>34 DEF Finish, Unlock, DiskType, PassType, RetirementRecord, Eviction, Held
<1>35. ASSUME NEW p \in Process, FinishFails(p) PROVE ProcessType'
    BY <1>35 DEF FinishFails, DiskType, PassType, RetirementRecord, Eviction, Held
<1>36. ASSUME NEW p \in Process, DropLease(p) PROVE ProcessType'
    BY <1>36 DEF DropLease, Leave, Unlock, DiskType, PassType, RetirementRecord, Eviction, Held
<1>37. ASSUME NEW p \in Process, Crash(p) PROVE ProcessType'
    BY <1>37 DEF Crash, Leave, Unlock, DiskType, PassType, RetirementRecord, Eviction, Held
<1>38. ASSUME NEW a \in Arena, CargoExits(a) PROVE ProcessType'
    BY <1>38 DEF CargoExits, DiskType, PassType, RetirementRecord, Eviction, Held
<1>39. ASSUME NEW a \in Arena, Recover(a) PROVE ProcessType'
    BY <1>39 DEF Recover, DiskType, PassType, RetirementRecord, Eviction, Held
<1>40. ASSUME NEW a \in Arena, NEW pin \in BOOLEAN, UpdatePin(a, pin) PROVE ProcessType'
    BY <1>40 DEF UpdatePin, DiskType, PassType, RetirementRecord, Eviction, Held
<1>41. ASSUME NEW a \in Arena, PinExpires(a) PROVE ProcessType'
    BY <1>41 DEF PinExpires, DiskType, PassType, RetirementRecord, Eviction, Held
<1>42. ASSUME NEW a \in Arena, WorktreeChanges(a) PROVE ProcessType'
    BY <1>42 DEF WorktreeChanges, DiskType, PassType, RetirementRecord, Eviction, Held
<1> QED
    BY <1>1, <1>2, <1>3, <1>4, <1>5, <1>6, <1>7, <1>8, <1>9, <1>10, <1>11, <1>12, <1>13,
       <1>14, <1>15, <1>16, <1>17, <1>18, <1>19, <1>20, <1>21, <1>22, <1>23, <1>24, <1>25,
       <1>26, <1>27, <1>28, <1>29, <1>30, <1>31, <1>32, <1>33, <1>34, <1>35, <1>36, <1>37,
       <1>38, <1>39, <1>40, <1>41, <1>42 DEF Next, Admit, Collect, Build, Start, Environment

\* What a collection remembers stays well formed.
LEMMA PassTypeStep ==
    ASSUME TypeOK, PlaceOK, LeaseFollowsPlace, Next
    PROVE  PassType'
<1> USE DEF TypeOK, PassType
<1>1. ASSUME NEW p \in Process, StartCollection(p) PROVE PassType'
    BY <1>1, FixedManifests DEF StartCollection, DiskType, RetirementRecord, Eviction
<1>2. ASSUME NEW p \in Process, OpenStore(p) PROVE PassType'
    BY <1>2, FixedManifests DEF OpenStore, DiskType, RetirementRecord, Eviction
<1>3. ASSUME NEW p \in Process, NEW a \in Arena, StartBuild(p, a) PROVE PassType'
    BY <1>3, FixedManifests DEF StartBuild, DiskType, RetirementRecord, Eviction
<1>4. ASSUME NEW p \in Process, AcquireCollection(p) PROVE PassType'
    BY <1>4, FixedManifests DEF AcquireCollection, DiskType, RetirementRecord, Eviction
<1>5. ASSUME NEW p \in Process, TryArena(p) PROVE PassType'
    BY <1>5, FixedManifests DEF TryArena, DiskType, RetirementRecord, Eviction
<1>6. ASSUME NEW p \in Process, WaitArena(p) PROVE PassType'
    BY <1>6, FixedManifests DEF WaitArena, DiskType, RetirementRecord, Eviction
<1>7. ASSUME NEW p \in Process, LeaseExisting(p) PROVE PassType'
    BY <1>7, FixedManifests DEF LeaseExisting, StartReconciliation, DiskType,
       RetirementRecord, Eviction
<1>8. ASSUME NEW p \in Process, LeaseNew(p) PROVE PassType'
    BY <1>8, FixedManifests DEF LeaseNew, StartReconciliation, DiskType, RetirementRecord, Eviction
<1>9. ASSUME NEW p \in Process, LeaseNewInterrupted(p) PROVE PassType'
    BY <1>9, FixedManifests DEF LeaseNewInterrupted, DiskType, RetirementRecord, Eviction
<1>10. ASSUME NEW p \in Process, LeaseRefused(p) PROVE PassType'
    BY <1>10, FixedManifests DEF LeaseRefused, DiskType, RetirementRecord, Eviction
<1>11. ASSUME NEW p \in Process, ReconcileRecord(p) PROVE PassType'
    BY <1>11, FixedManifests DEF ReconcileRecord, CompleteRecord, ResumeRetirement,
       DeleteRetired, RecordFails, SkipRecord, TakeVictim, DiskType, RetirementRecord,
       Eviction
<1>12. ASSUME NEW p \in Process, EndReconcile(p) PROVE PassType'
    BY <1>12, FixedManifests DEF EndReconcile, DiskType, RetirementRecord, Eviction
<1>13. ASSUME NEW p \in Process, RepairIntent(p) PROVE PassType'
    BY <1>13, FixedManifests DEF RepairIntent, DiskType, RetirementRecord, Eviction
<1>14. ASSUME NEW p \in Process, RepairFails(p) PROVE PassType'
    BY <1>14, FixedManifests DEF RepairFails, AbortCollection, ForgetPass, DiskType,
       RetirementRecord, Eviction
<1>15. ASSUME NEW p \in Process, CollectionFails(p) PROVE PassType'
    BY <1>15, FixedManifests DEF CollectionFails, AbortCollection, ForgetPass, DiskType,
       RetirementRecord, Eviction
<1>16. ASSUME NEW p \in Process, EndRepair(p) PROVE PassType'
    BY <1>16, FixedManifests DEF EndRepair, ForgetPass, DiskType, RetirementRecord, Eviction
<1>17. ASSUME NEW p \in Process, ReadManifest(p) PROVE PassType'
    BY <1>17, FixedManifests DEF ReadManifest, DiskType, RetirementRecord, Eviction
<1>18. ASSUME NEW p \in Process, ProbeLock(p) PROVE PassType'
  <2>1. [arena |-> victim, revision |-> view.revision, orphan |-> ~worktree[victim]] \in Eviction
    <3>1. victim \in Arena
        BY <1>18 DEF ProbeLock, PlaceOK, Retiring
    <3>2. view.revision \in Nat
        BY ManifestFields
    <3>3. (~worktree[victim]) \in BOOLEAN
        OBVIOUS
    <3> QED
        BY <3>1, <3>2, <3>3 DEF Eviction
  <2>2. view' = Absent /\ victim' = None /\ UNCHANGED <<records, pending, nonce>>
      BY <1>18 DEF ProbeLock
  <2>3. plan' \in SUBSET Eviction
      BY <1>18, <2>1 DEF ProbeLock
  <2>4. uncertain' \in BOOLEAN
      BY <1>18 DEF ProbeLock
  <2> QED
      BY <2>2, <2>3, <2>4, FixedManifests
<1>19. ASSUME NEW p \in Process, EndScan(p) PROVE PassType'
    BY <1>19, FixedManifests DEF EndScan, AbortCollection, ForgetPass, DiskType,
       RetirementRecord, Eviction
<1>20. ASSUME NEW p \in Process, Retire(p) PROVE PassType'
    BY <1>20, FixedManifests DEF Retire, TakeVictim, DiskType, RetirementRecord, Eviction
<1>21. ASSUME NEW p \in Process, SkipEviction(p) PROVE PassType'
    BY <1>21, FixedManifests DEF SkipEviction, DiskType, RetirementRecord, Eviction
<1>22. ASSUME NEW p \in Process, EndRetire(p) PROVE PassType'
    BY <1>22, FixedManifests DEF EndRetire, ForgetPass, DiskType, RetirementRecord, Eviction
<1>23. ASSUME NEW p \in Process, CreateJournal(p) PROVE PassType'
    BY <1>23, FixedManifests DEF CreateJournal, Step, Return, DiskType, RetirementRecord, Eviction
<1>24. ASSUME NEW p \in Process, RenameArena(p) PROVE PassType'
    BY <1>24, FixedManifests DEF RenameArena, Step, Return, DiskType, RetirementRecord, Eviction
<1>25. ASSUME NEW p \in Process, PurgeTrash(p) PROVE PassType'
    BY <1>25, FixedManifests DEF PurgeTrash, Step, Return, DiskType, RetirementRecord, Eviction
<1>26. ASSUME NEW p \in Process, RemoveJournal(p) PROVE PassType'
    BY <1>26, FixedManifests DEF RemoveJournal, Return, DiskType, RetirementRecord, Eviction
<1>27. ASSUME NEW p \in Process, AbortAdmitted(p) PROVE PassType'
    BY <1>27, FixedManifests DEF AbortAdmitted, DiskType, RetirementRecord, Eviction
<1>28. ASSUME NEW p \in Process, MarkSpawning(p) PROVE PassType'
    BY <1>28, FixedManifests DEF MarkSpawning, Transition, DiskType, RetirementRecord, Eviction
<1>29. ASSUME NEW p \in Process, Fork(p) PROVE PassType'
    BY <1>29, FixedManifests DEF Fork, DiskType, RetirementRecord, Eviction
<1>30. ASSUME NEW p \in Process, MarkSpawned(p) PROVE PassType'
    BY <1>30, FixedManifests DEF MarkSpawned, Transition, DiskType, RetirementRecord, Eviction
<1>31. ASSUME NEW p \in Process, SupervisionFails(p) PROVE PassType'
    BY <1>31, FixedManifests DEF SupervisionFails, DiskType, RetirementRecord, Eviction
<1>32. ASSUME NEW p \in Process, TreeExits(p) PROVE PassType'
    BY <1>32, FixedManifests DEF TreeExits, DiskType, RetirementRecord, Eviction
<1>33. ASSUME NEW p \in Process, LeaveSuspect(p) PROVE PassType'
    BY <1>33, FixedManifests DEF LeaveSuspect, DiskType, RetirementRecord, Eviction
<1>34. ASSUME NEW p \in Process, Finish(p) PROVE PassType'
    BY <1>34, FixedManifests DEF Finish, DiskType, RetirementRecord, Eviction
<1>35. ASSUME NEW p \in Process, FinishFails(p) PROVE PassType'
    BY <1>35, FixedManifests DEF FinishFails, DiskType, RetirementRecord, Eviction
<1>36. ASSUME NEW p \in Process, DropLease(p) PROVE PassType'
    BY <1>36, FixedManifests DEF DropLease, DiskType, RetirementRecord, Eviction
<1>37. ASSUME NEW p \in Process, Crash(p) PROVE PassType'
    BY <1>37, FixedManifests DEF Crash, ForgetPass, DiskType, RetirementRecord, Eviction
<1>38. ASSUME NEW a \in Arena, CargoExits(a) PROVE PassType'
    BY <1>38, FixedManifests DEF CargoExits, DiskType, RetirementRecord, Eviction
<1>39. ASSUME NEW a \in Arena, Recover(a) PROVE PassType'
    BY <1>39, FixedManifests DEF Recover, DiskType, RetirementRecord, Eviction
<1>40. ASSUME NEW a \in Arena, NEW pin \in BOOLEAN, UpdatePin(a, pin) PROVE PassType'
    BY <1>40, FixedManifests DEF UpdatePin, DiskType, RetirementRecord, Eviction
<1>41. ASSUME NEW a \in Arena, PinExpires(a) PROVE PassType'
    BY <1>41, FixedManifests DEF PinExpires, DiskType, RetirementRecord, Eviction
<1>42. ASSUME NEW a \in Arena, WorktreeChanges(a) PROVE PassType'
    BY <1>42, FixedManifests DEF WorktreeChanges, DiskType, RetirementRecord, Eviction
<1> QED
    BY <1>1, <1>2, <1>3, <1>4, <1>5, <1>6, <1>7, <1>8, <1>9, <1>10, <1>11, <1>12, <1>13,
       <1>14, <1>15, <1>16, <1>17, <1>18, <1>19, <1>20, <1>21, <1>22, <1>23, <1>24, <1>25,
       <1>26, <1>27, <1>28, <1>29, <1>30, <1>31, <1>32, <1>33, <1>34, <1>35, <1>36, <1>37,
       <1>38, <1>39, <1>40, <1>41, <1>42 DEF Next, Admit, Collect, Build, Start, Environment

\* The locks a process needs stay its own.
LEMMA LocksFollowPlaceStep ==
    ASSUME Inv, Next
    PROVE  LocksFollowPlace'
<1> USE DEF Inv, LeaseInv, LocksFollowPlace, LeaseDiskAgree, PlaceOK, LeaseFollowsPlace, TypeOK, DiskType, ProcessType, PassType, Place, RetirementRecord, Eviction, Admitting, Collecting, Retiring
<1>1. ASSUME NEW p \in Process, StartCollection(p) PROVE LocksFollowPlace'
    BY <1>1, ArenaStoreAssumption DEF StartCollection, Held, Free
<1>2. ASSUME NEW p \in Process, OpenStore(p) PROVE LocksFollowPlace'
    BY <1>2, ArenaStoreAssumption DEF OpenStore, Held, Free
<1>3. ASSUME NEW p \in Process, NEW a \in Arena, StartBuild(p, a) PROVE LocksFollowPlace'
    BY <1>3, ArenaStoreAssumption DEF StartBuild, Held, Free
<1>4. ASSUME NEW p \in Process, AcquireCollection(p) PROVE LocksFollowPlace'
    BY <1>4, ArenaStoreAssumption DEF AcquireCollection, Held, Free
<1>5. ASSUME NEW p \in Process, TryArena(p) PROVE LocksFollowPlace'
    BY <1>5, ArenaStoreAssumption DEF TryArena, Held, Free
<1>6. ASSUME NEW p \in Process, WaitArena(p) PROVE LocksFollowPlace'
    BY <1>6, ArenaStoreAssumption DEF WaitArena, Held, Free
<1>7. ASSUME NEW p \in Process, LeaseExisting(p) PROVE LocksFollowPlace'
    BY <1>7, ArenaStoreAssumption DEF LeaseExisting, StartReconciliation, Held, Free
<1>8. ASSUME NEW p \in Process, LeaseNew(p) PROVE LocksFollowPlace'
    BY <1>8, ArenaStoreAssumption DEF LeaseNew, StartReconciliation, Held, Free
<1>9. ASSUME NEW p \in Process, LeaseNewInterrupted(p) PROVE LocksFollowPlace'
    BY <1>9, ArenaStoreAssumption DEF LeaseNewInterrupted, Leave, Unlock, Held, Free
<1>10. ASSUME NEW p \in Process, LeaseRefused(p) PROVE LocksFollowPlace'
    BY <1>10, ArenaStoreAssumption DEF LeaseRefused, Leave, Unlock, Held, Free
<1>11. ASSUME NEW p \in Process, ReconcileRecord(p) PROVE LocksFollowPlace'
    BY <1>11, ArenaStoreAssumption DEF ReconcileRecord, CompleteRecord, ResumeRetirement,
       DeleteRetired, RecordFails, SkipRecord, TakeVictim, Held, Free
<1>12. ASSUME NEW p \in Process, EndReconcile(p) PROVE LocksFollowPlace'
    BY <1>12, ArenaStoreAssumption DEF EndReconcile, Held, Free
<1>13. ASSUME NEW p \in Process, RepairIntent(p) PROVE LocksFollowPlace'
    BY <1>13, ArenaStoreAssumption DEF RepairIntent, Held, Free
<1>14. ASSUME NEW p \in Process, RepairFails(p) PROVE LocksFollowPlace'
    BY <1>14, ArenaStoreAssumption DEF RepairFails, AbortCollection, ForgetPass, Leave,
       Unlock, Held, Free
<1>15. ASSUME NEW p \in Process, CollectionFails(p) PROVE LocksFollowPlace'
    BY <1>15, ArenaStoreAssumption DEF CollectionFails, AbortCollection, ForgetPass, Leave,
       Unlock, Held, Free
<1>16. ASSUME NEW p \in Process, EndRepair(p) PROVE LocksFollowPlace'
    BY <1>16, ArenaStoreAssumption DEF EndRepair, ForgetPass, Leave, Unlock, Held, Free
<1>17. ASSUME NEW p \in Process, ReadManifest(p) PROVE LocksFollowPlace'
    BY <1>17, ArenaStoreAssumption DEF ReadManifest, Held, Free
<1>18. ASSUME NEW p \in Process, ProbeLock(p) PROVE LocksFollowPlace'
    BY <1>18, ArenaStoreAssumption DEF ProbeLock, Held, Free
<1>19. ASSUME NEW p \in Process, EndScan(p) PROVE LocksFollowPlace'
    BY <1>19, ArenaStoreAssumption DEF EndScan, AbortCollection, ForgetPass, Leave, Unlock,
       Held, Free
<1>20. ASSUME NEW p \in Process, Retire(p) PROVE LocksFollowPlace'
    BY <1>20, ArenaStoreAssumption DEF Retire, TakeVictim, StillEvictable, Free, Held
<1>21. ASSUME NEW p \in Process, SkipEviction(p) PROVE LocksFollowPlace'
    BY <1>21, ArenaStoreAssumption DEF SkipEviction, Held, Free
<1>22. ASSUME NEW p \in Process, EndRetire(p) PROVE LocksFollowPlace'
    BY <1>22, ArenaStoreAssumption DEF EndRetire, ForgetPass, Leave, Unlock, Held, Free
<1>23. ASSUME NEW p \in Process, CreateJournal(p) PROVE LocksFollowPlace'
    BY <1>23, ArenaStoreAssumption DEF CreateJournal, Step, Return, Held, Free
<1>24. ASSUME NEW p \in Process, RenameArena(p) PROVE LocksFollowPlace'
    BY <1>24, ArenaStoreAssumption DEF RenameArena, Step, Return, Held, Free
<1>25. ASSUME NEW p \in Process, PurgeTrash(p) PROVE LocksFollowPlace'
    BY <1>25, ArenaStoreAssumption DEF PurgeTrash, Step, Return, Held, Free
<1>26. ASSUME NEW p \in Process, RemoveJournal(p) PROVE LocksFollowPlace'
    BY <1>26, ArenaStoreAssumption DEF RemoveJournal, Return, Held, Free
<1>27. ASSUME NEW p \in Process, AbortAdmitted(p) PROVE LocksFollowPlace'
    BY <1>27, ArenaStoreAssumption DEF AbortAdmitted, Held, Free
<1>28. ASSUME NEW p \in Process, MarkSpawning(p) PROVE LocksFollowPlace'
    BY <1>28, ArenaStoreAssumption DEF MarkSpawning, Transition, Held, Free
<1>29. ASSUME NEW p \in Process, Fork(p) PROVE LocksFollowPlace'
    BY <1>29, ArenaStoreAssumption DEF Fork, Held, Free
<1>30. ASSUME NEW p \in Process, MarkSpawned(p) PROVE LocksFollowPlace'
    BY <1>30, ArenaStoreAssumption DEF MarkSpawned, Transition, Held, Free
<1>31. ASSUME NEW p \in Process, SupervisionFails(p) PROVE LocksFollowPlace'
    BY <1>31, ArenaStoreAssumption DEF SupervisionFails, Held, Free
<1>32. ASSUME NEW p \in Process, TreeExits(p) PROVE LocksFollowPlace'
    BY <1>32, ArenaStoreAssumption DEF TreeExits, Held, Free
<1>33. ASSUME NEW p \in Process, LeaveSuspect(p) PROVE LocksFollowPlace'
    BY <1>33, ArenaStoreAssumption DEF LeaveSuspect, Leave, Unlock, Held, Free
<1>34. ASSUME NEW p \in Process, Finish(p) PROVE LocksFollowPlace'
    BY <1>34, ArenaStoreAssumption DEF Finish, Unlock, Held, Free
<1>35. ASSUME NEW p \in Process, FinishFails(p) PROVE LocksFollowPlace'
    BY <1>35, ArenaStoreAssumption DEF FinishFails, Held, Free
<1>36. ASSUME NEW p \in Process, DropLease(p) PROVE LocksFollowPlace'
    BY <1>36, ArenaStoreAssumption DEF DropLease, Leave, Unlock, Held, Free
<1>37. ASSUME NEW p \in Process, Crash(p) PROVE LocksFollowPlace'
    BY <1>37, ArenaStoreAssumption DEF Crash, ForgetPass, Leave, Unlock, Held, Free
<1>38. ASSUME NEW a \in Arena, CargoExits(a) PROVE LocksFollowPlace'
    BY <1>38, ArenaStoreAssumption DEF CargoExits, Held, Free
<1>39. ASSUME NEW a \in Arena, Recover(a) PROVE LocksFollowPlace'
    BY <1>39, ArenaStoreAssumption DEF Recover, Held, Free
<1>40. ASSUME NEW a \in Arena, NEW pin \in BOOLEAN, UpdatePin(a, pin) PROVE LocksFollowPlace'
    BY <1>40, ArenaStoreAssumption DEF UpdatePin, Held, Free
<1>41. ASSUME NEW a \in Arena, PinExpires(a) PROVE LocksFollowPlace'
    BY <1>41, ArenaStoreAssumption DEF PinExpires, Held, Free
<1>42. ASSUME NEW a \in Arena, WorktreeChanges(a) PROVE LocksFollowPlace'
    BY <1>42, ArenaStoreAssumption DEF WorktreeChanges, Held, Free
<1> QED
    BY <1>1, <1>2, <1>3, <1>4, <1>5, <1>6, <1>7, <1>8, <1>9, <1>10, <1>11, <1>12, <1>13,
       <1>14, <1>15, <1>16, <1>17, <1>18, <1>19, <1>20, <1>21, <1>22, <1>23, <1>24, <1>25,
       <1>26, <1>27, <1>28, <1>29, <1>30, <1>31, <1>32, <1>33, <1>34, <1>35, <1>36, <1>37,
       <1>38, <1>39, <1>40, <1>41, <1>42 DEF Next, Admit, Collect, Build, Start, Environment

\* What waits in a staging directory has no place among the arenas yet.
LEMMA StagedIsAbsentStep ==
    ASSUME Inv, Next
    PROVE  StagedIsAbsent'
<1> USE DEF Inv, LeaseInv, StagedIsAbsent, Exists, TypeOK, DiskType
<1> SUFFICES ASSUME NEW b \in staged' PROVE manifest'[b].stage = "absent"
    OBVIOUS
<1>1. ASSUME NEW p \in Process,
           \/ StartCollection(p) \/ (\E a \in Arena : StartBuild(p, a))
           \/ AcquireCollection(p) \/ TryArena(p) \/ WaitArena(p)
           \/ EndReconcile(p) \/ CollectionFails(p) \/ EndRepair(p)
           \/ ReadManifest(p) \/ ProbeLock(p) \/ EndScan(p) \/ SkipEviction(p)
           \/ EndRetire(p) \/ CreateJournal(p) \/ PurgeTrash(p)
           \/ RemoveJournal(p) \/ AbortAdmitted(p) \/ Fork(p)
           \/ SupervisionFails(p) \/ TreeExits(p) \/ LeaveSuspect(p)
           \/ FinishFails(p) \/ Crash(p)
    PROVE  manifest'[b].stage = "absent"
  <2>1. UNCHANGED <<manifest, staged>>
    BY <1>1 DEF StartCollection, StartBuild, AcquireCollection, TryArena, WaitArena,
       EndReconcile, CollectionFails, EndRepair, ReadManifest, ProbeLock, EndScan,
       SkipEviction, EndRetire, CreateJournal, PurgeTrash, RemoveJournal,
       AbortAdmitted, Fork, SupervisionFails, TreeExits, LeaveSuspect, FinishFails,
       Crash, AbortCollection, ForgetPass, Leave, Unlock, Step, Return
  <2> QED
    BY <2>1
<1>2. ASSUME NEW a \in Arena,
           \/ CargoExits(a) \/ WorktreeChanges(a)
    PROVE  manifest'[b].stage = "absent"
  <2>1. UNCHANGED <<manifest, staged>>
    BY <1>2 DEF CargoExits, WorktreeChanges
  <2> QED
    BY <2>1
<1>3. ASSUME NEW p \in Process, OpenStore(p)
    PROVE  manifest'[b].stage = "absent"
    BY <1>3, OpenStoreEffect DEF OpenStore, Settled
<1>4. ASSUME NEW p \in Process, LeaseExisting(p)
    PROVE  manifest'[b].stage = "absent"
    BY <1>4, LeaseExistingEffect DEF LeaseExisting, Settled
<1>5. ASSUME NEW p \in Process, LeaseNew(p)
    PROVE  manifest'[b].stage = "absent"
    BY <1>5, LeaseNewEffect DEF LeaseNew, Settled
<1>6. ASSUME NEW p \in Process, LeaseNewInterrupted(p)
    PROVE  manifest'[b].stage = "absent"
    BY <1>6, LeaseNewInterruptedEffect DEF LeaseNewInterrupted, Settled
<1>7. ASSUME NEW p \in Process, LeaseRefused(p)
    PROVE  manifest'[b].stage = "absent"
    BY <1>7, LeaseRefusedEffect DEF LeaseRefused, Settled
<1>8. ASSUME NEW p \in Process, ReconcileRecord(p)
    PROVE  manifest'[b].stage = "absent"
    BY <1>8, ReconcileRecordEffect DEF ReconcileRecord, CompleteRecord,
       ResumeRetirement, DeleteRetired, RecordFails, SkipRecord, TakeVictim, Removed,
       Others
<1>9. ASSUME NEW p \in Process, RepairIntent(p)
    PROVE  manifest'[b].stage = "absent"
    BY <1>9, RepairIntentEffect DEF RepairIntent, Intended, Others
<1>10. ASSUME NEW p \in Process, RepairFails(p)
    PROVE  manifest'[b].stage = "absent"
    BY <1>10, RepairFailsEffect DEF RepairFails, Intended, Others
<1>11. ASSUME NEW p \in Process, Retire(p)
    PROVE  manifest'[b].stage = "absent"
  <2>1. PICK e \in plan, id \in RetirementId :
            e.arena \in Arena /\ StillEvictable(e) /\ Fresh(id) /\ ~Fresh(id)' /\ Intended(e.arena, id)
      BY <1>11, RetireEffect
  <2>2. staged' = staged
      BY <1>11 DEF Retire
  <2> QED
      BY <2>1, <2>2 DEF Intended, Others, StillEvictable
<1>12. ASSUME NEW p \in Process, RenameArena(p)
    PROVE  manifest'[b].stage = "absent"
    BY <1>12, RenameArenaEffect DEF RenameArena, Step, Return, Removed, Others
<1>13. ASSUME NEW p \in Process, MarkSpawning(p)
    PROVE  manifest'[b].stage = "absent"
    BY <1>13, MarkSpawningEffect DEF MarkSpawning, Transition, Advanced, Others,
       Unfinished
<1>14. ASSUME NEW p \in Process, MarkSpawned(p)
    PROVE  manifest'[b].stage = "absent"
    BY <1>14, MarkSpawnedEffect DEF MarkSpawned, Transition, Advanced, Others,
       Unfinished
<1>15. ASSUME NEW p \in Process, Finish(p)
    PROVE  manifest'[b].stage = "absent"
  <2>1. Unfinished(manifest[arena[p]]) /\ Advanced(arena[p], "finalized") /\ arena[p] \in Arena
      BY <1>15, FinishEffect
  <2>2. staged' = staged
      BY <1>15 DEF Finish
  <2> QED
      BY <2>1, <2>2 DEF Advanced, Others, Unfinished
<1>16. ASSUME NEW p \in Process, DropLease(p)
    PROVE  manifest'[b].stage = "absent"
    BY <1>16, DropLeaseEffect DEF DropLease, Advanced, Others, Unfinished
<1>17. ASSUME NEW a \in Arena, Recover(a)
    PROVE  manifest'[b].stage = "absent"
    BY <1>17, RecoverEffect DEF Recover, Advanced, Others, Unfinished
<1>18. ASSUME NEW a \in Arena, NEW pin \in BOOLEAN, UpdatePin(a, pin)
    PROVE  manifest'[b].stage = "absent"
    BY <1>18, UpdatePinEffect DEF UpdatePin, Repinned, Advanced, Others
<1>19. ASSUME NEW a \in Arena, PinExpires(a)
    PROVE  manifest'[b].stage = "absent"
    BY <1>19, PinExpiresEffect DEF PinExpires, Expired, Others
<1> QED
    BY <1>1, <1>2, <1>3, <1>4, <1>5, <1>6, <1>7, <1>8, <1>9, <1>10, <1>11, <1>12,
       <1>13, <1>14, <1>15, <1>16, <1>17, <1>18, <1>19
       DEF Next, Admit, Collect, Build, Start, Environment

\* How the manifest of one arena can change in a step, seen from outside.
Moved(b) ==
    \/ manifest'[b] = manifest[b]
    \/ manifest'[b].stage = "absent" /\ manifest'[b].retirement = None
    \/ /\ manifest[b].stage = "absent" /\ manifest'[b].retirement = None
       /\ collection = Nobody \/ \E p \in Process : pc[p] = "lease"
    \/ /\ manifest[b].stage # "absent" /\ manifest'[b].revision = manifest[b].revision + 1
       /\ manifest'[b].retirement # None => manifest'[b].stage = "finalized"
       /\ \/ manifest'[b].retirement \in {None, manifest[b].retirement}
          \/ Fresh(manifest'[b].retirement) /\ ~Fresh(manifest[b].retirement)'
    \/ /\ manifest'[b].revision = manifest[b].revision /\ manifest'[b].stage = manifest[b].stage
       /\ manifest'[b].retirement = manifest[b].retirement /\ ~manifest'[b].pinned

\* Revisions only grow, and an intent is only written into a finished manifest, under a fresh id.
LEMMA ManifestMoves ==
    ASSUME Inv, Next, NEW b \in Arena
    PROVE  Moved(b)
<1> USE DEF Inv, LeaseInv, RetirementInv, IntentIsFinished, Exists
<1>1. ASSUME NEW p \in Process,
           \/ StartCollection(p) \/ (\E a \in Arena : StartBuild(p, a))
           \/ AcquireCollection(p) \/ TryArena(p) \/ WaitArena(p)
           \/ EndReconcile(p) \/ CollectionFails(p) \/ EndRepair(p)
           \/ ReadManifest(p) \/ ProbeLock(p) \/ EndScan(p) \/ SkipEviction(p)
           \/ EndRetire(p) \/ CreateJournal(p) \/ PurgeTrash(p)
           \/ RemoveJournal(p) \/ AbortAdmitted(p) \/ Fork(p)
           \/ SupervisionFails(p) \/ TreeExits(p) \/ LeaveSuspect(p)
           \/ FinishFails(p) \/ Crash(p)
    PROVE  Moved(b)
  <2>1. manifest' = manifest
    BY <1>1 DEF StartCollection, StartBuild, AcquireCollection, TryArena, WaitArena,
       EndReconcile, CollectionFails, EndRepair, ReadManifest, ProbeLock, EndScan,
       SkipEviction, EndRetire, CreateJournal, PurgeTrash, RemoveJournal,
       AbortAdmitted, Fork, SupervisionFails, TreeExits, LeaveSuspect, FinishFails,
       Crash, AbortCollection, ForgetPass, Leave, Unlock, Step, Return
  <2> QED
    BY <2>1 DEF Moved
<1>2. ASSUME NEW a \in Arena,
           \/ CargoExits(a) \/ WorktreeChanges(a)
    PROVE  Moved(b)
  <2>1. manifest' = manifest
    BY <1>2 DEF CargoExits, WorktreeChanges
  <2> QED
    BY <2>1 DEF Moved
<1>3. ASSUME NEW p \in Process, OpenStore(p)
    PROVE  Moved(b)
    BY <1>3, OpenStoreEffect DEF OpenStore, Settled, Moved
<1>4. ASSUME NEW p \in Process, LeaseExisting(p)
    PROVE  Moved(b)
    BY ZenonT(60), <1>4, LeaseExistingEffect DEF LeaseExisting, Settled, Moved
<1>5. ASSUME NEW p \in Process, LeaseNew(p)
    PROVE  Moved(b)
    BY ZenonT(60), <1>5, LeaseNewEffect DEF LeaseNew, Settled, Moved
<1>6. ASSUME NEW p \in Process, LeaseNewInterrupted(p)
    PROVE  Moved(b)
    BY <1>6, LeaseNewInterruptedEffect DEF LeaseNewInterrupted, Settled, Moved
<1>7. ASSUME NEW p \in Process, LeaseRefused(p)
    PROVE  Moved(b)
    BY <1>7, LeaseRefusedEffect DEF LeaseRefused, Settled, Moved
<1>8. ASSUME NEW p \in Process, ReconcileRecord(p)
    PROVE  Moved(b)
    BY <1>8, ReconcileRecordEffect DEF Removed, Others, Moved
<1>9. ASSUME NEW p \in Process, RepairIntent(p)
    PROVE  Moved(b)
    BY <1>9, RepairIntentEffect DEF Intended, Others, Moved
<1>10. ASSUME NEW p \in Process, RepairFails(p)
    PROVE  Moved(b)
    BY <1>10, RepairFailsEffect DEF Intended, Others, Moved
<1>11. ASSUME NEW p \in Process, Retire(p)
    PROVE  Moved(b)
  <2>1. PICK e \in plan, id \in RetirementId :
            e.arena \in Arena /\ StillEvictable(e) /\ Fresh(id) /\ ~Fresh(id)' /\ Intended(e.arena, id)
      BY <1>11, RetireEffect
  <2>2. manifest[e.arena].stage = "finalized"
      BY <2>1 DEF StillEvictable, RetirementInv, PlanIsOld
  <2> QED
      BY <2>1, <2>2 DEF Intended, Others, Moved
<1>12. ASSUME NEW p \in Process, RenameArena(p)
    PROVE  Moved(b)
    BY <1>12, RenameArenaEffect DEF Removed, Others, Moved
<1>13. ASSUME NEW p \in Process, MarkSpawning(p)
    PROVE  Moved(b)
    BY <1>13, MarkSpawningEffect DEF Advanced, Others, Unfinished, Moved,
       LeaseDiskAgree
<1>14. ASSUME NEW p \in Process, MarkSpawned(p)
    PROVE  Moved(b)
    BY <1>14, MarkSpawnedEffect DEF Advanced, Others, Unfinished, Moved, LeaseDiskAgree
<1>15. ASSUME NEW p \in Process, Finish(p)
    PROVE  Moved(b)
    BY <1>15, FinishEffect DEF Advanced, Others, Unfinished, Moved, LeaseDiskAgree
<1>16. ASSUME NEW p \in Process, DropLease(p)
    PROVE  Moved(b)
    BY <1>16, DropLeaseEffect DEF Advanced, Others, Unfinished, Moved, LeaseDiskAgree
<1>17. ASSUME NEW a \in Arena, Recover(a)
    PROVE  Moved(b)
    BY <1>17, RecoverEffect DEF Advanced, Others, Unfinished, Moved, LeaseDiskAgree
<1>18. ASSUME NEW a \in Arena, NEW pin \in BOOLEAN, UpdatePin(a, pin)
    PROVE  Moved(b)
    BY <1>18, UpdatePinEffect DEF Repinned, Advanced, Others, Moved
<1>19. ASSUME NEW a \in Arena, PinExpires(a)
    PROVE  Moved(b)
    BY <1>19, PinExpiresEffect DEF Expired, Others, Moved
<1> QED
    BY <1>1, <1>2, <1>3, <1>4, <1>5, <1>6, <1>7, <1>8, <1>9, <1>10, <1>11, <1>12,
       <1>13, <1>14, <1>15, <1>16, <1>17, <1>18, <1>19
       DEF Next, Admit, Collect, Build, Start, Environment

\* Only a finished manifest carries an intent, after any step.
LEMMA IntentIsFinishedStep ==
    ASSUME Inv, Next
    PROVE  IntentIsFinished'
BY ManifestMoves DEF Inv, RetirementInv, IntentIsFinished, Moved

-----------------------------------------------------------------------------
(* Leases and Cargo trees.                                                 *)

LeaseOnDisk(q) ==
    /\ lease[q] # "none" => arenaLock[arena[q]] = q
    /\ lease[q] = "reserved" => manifest[arena[q]].stage \in {"reserved", "spawning"}
    /\ lease[q] = "spawning" => manifest[arena[q]].stage \in {"spawning", "spawned"}
    /\ lease[q] = "spawned" => manifest[arena[q]].stage = "spawned"

\* Two leases are of two arenas, and an arena that is locked for a lease is not free.
LEMMA LeasesDiffer ==
    ASSUME Inv, NEW q \in Process, lease[q] # "none"
    PROVE  /\ arena[q] \in Arena /\ arenaLock[arena[q]] = q /\ ~Free(arena[q])
           /\ Unfinished(manifest[arena[q]])
           /\ \A p \in Process \ {q} : lease[p] # "none" => arena[p] # arena[q]
           /\ \A p \in Process \ {q} : pc[p] = "lease" => arena[p] # arena[q]
           /\ \A p \in Process : pc[p] \in Retiring => victim # arena[q]
BY ArenaStoreAssumption
   DEF Inv, LeaseInv, LeaseDiskAgree, LocksFollowPlace, PlaceOK, TypeOK, ProcessType, Free, Unfinished

\* A lease and the manifest of its arena change together.
LEMMA LeaseDiskAgreeStep ==
    ASSUME Inv, Next
    PROVE  LeaseDiskAgree'
<1> SUFFICES ASSUME NEW q \in Process, LeaseOnDisk(q) PROVE LeaseOnDisk(q)'
    BY DEF LeaseDiskAgree, LeaseOnDisk, Inv, LeaseInv
<1>1. ASSUME NEW p \in Process,
           \/ StartCollection(p) \/ AcquireCollection(p) \/ WaitArena(p)
           \/ EndReconcile(p) \/ ReadManifest(p) \/ ProbeLock(p)
           \/ SkipEviction(p) \/ AbortAdmitted(p) \/ Fork(p)
           \/ SupervisionFails(p) \/ TreeExits(p) \/ FinishFails(p)
    PROVE  LeaseOnDisk(q)'
  <2>1. UNCHANGED <<manifest, arenaLock, lease, arena>>
    BY <1>1 DEF StartCollection, AcquireCollection, WaitArena, EndReconcile,
       ReadManifest, ProbeLock, SkipEviction, AbortAdmitted, Fork, SupervisionFails,
       TreeExits, FinishFails
  <2> QED
    BY <2>1 DEF LeaseOnDisk
<1>2. ASSUME NEW a \in Arena,
           \/ CargoExits(a) \/ WorktreeChanges(a)
    PROVE  LeaseOnDisk(q)'
  <2>1. UNCHANGED <<manifest, arenaLock, lease, arena>>
    BY <1>2 DEF CargoExits, WorktreeChanges
  <2> QED
    BY <2>1 DEF LeaseOnDisk
<1>3. ASSUME NEW p \in Process, OpenStore(p)
    PROVE  LeaseOnDisk(q)'
    BY <1>3, OpenStoreEffect, ArenaStoreAssumption DEF OpenStore, Settled, Held, Free,
       Inv, TypeOK, ProcessType, PassType, LeaseInv, LeaseOnDisk, LeaseDiskAgree,
       LocksFollowPlace, PlaceOK, LeaseFollowsPlace, Admitting, Collecting, Retiring
<1>4. ASSUME NEW p \in Process, NEW a \in Arena, StartBuild(p, a)
    PROVE  LeaseOnDisk(q)'
    BY <1>4, ArenaStoreAssumption DEF StartBuild, Held, Free, Inv, TypeOK, ProcessType,
       PassType, LeaseInv, LeaseOnDisk, LeaseDiskAgree, LocksFollowPlace, PlaceOK,
       LeaseFollowsPlace, Admitting, Collecting, Retiring
<1>5. ASSUME NEW p \in Process, TryArena(p)
    PROVE  LeaseOnDisk(q)'
    BY <1>5, ArenaStoreAssumption DEF TryArena, Held, Free, Inv, TypeOK, ProcessType,
       PassType, LeaseInv, LeaseOnDisk, LeaseDiskAgree, LocksFollowPlace, PlaceOK,
       LeaseFollowsPlace, Admitting, Collecting, Retiring
<1>6. ASSUME NEW p \in Process, LeaseExisting(p)
    PROVE  LeaseOnDisk(q)'
  <2>1. q # p => lease'[q] = lease[q] /\ arena'[q] = arena[q]
      BY <1>6 DEF LeaseExisting, StartReconciliation, Inv, TypeOK, ProcessType
  <2>2. ASSUME q # p, lease[q] # "none"
        PROVE  manifest'[arena[q]].stage = manifest[arena[q]].stage
      BY <1>6, <2>2, LeasesDiffer, LeaseExistingEffect DEF Settled, Unfinished, Inv, LeaseInv
  <2>3. ASSUME q # p, lease[q] # "none"
        PROVE  arenaLock'[arena[q]] = q
    BY <1>6, <2>3, LeasesDiffer DEF LeaseExisting, StartReconciliation, Held, Inv, TypeOK,
       ProcessType
  <2>4. q = p => LeaseOnDisk(q)'
    BY ZenonT(60), <1>6, LeaseExistingEffect DEF LeaseExisting, LeaseOnDisk, Inv, TypeOK, ProcessType,
       LeaseInv, LocksFollowPlace
  <2> QED
      BY <2>1, <2>2, <2>3, <2>4 DEF LeaseOnDisk
<1>7. ASSUME NEW p \in Process, LeaseNew(p)
    PROVE  LeaseOnDisk(q)'
  <2>1. q # p => lease'[q] = lease[q] /\ arena'[q] = arena[q]
      BY <1>7 DEF LeaseNew, StartReconciliation, Inv, TypeOK, ProcessType
  <2>2. ASSUME q # p, lease[q] # "none"
        PROVE  manifest'[arena[q]].stage = manifest[arena[q]].stage
      BY <1>7, <2>2, LeasesDiffer, LeaseNewEffect DEF Settled, Unfinished, Inv, LeaseInv
  <2>3. ASSUME q # p, lease[q] # "none"
        PROVE  arenaLock'[arena[q]] = q
      BY <1>7, <2>3, LeasesDiffer DEF LeaseNew, StartReconciliation, Held, Inv, TypeOK, ProcessType
  <2>4. q = p => LeaseOnDisk(q)'
    BY ZenonT(60), <1>7, LeaseNewEffect DEF LeaseNew, LeaseOnDisk, Inv, TypeOK, ProcessType, LeaseInv,
       LocksFollowPlace
  <2> QED
      BY <2>1, <2>2, <2>3, <2>4 DEF LeaseOnDisk
<1>8. ASSUME NEW p \in Process, LeaseNewInterrupted(p)
    PROVE  LeaseOnDisk(q)'
  <2>1. q # p => lease'[q] = lease[q] /\ arena'[q] = arena[q]
      BY <1>8 DEF LeaseNewInterrupted, Leave, Unlock, Inv, TypeOK, ProcessType
  <2>2. ASSUME q # p, lease[q] # "none"
        PROVE  manifest'[arena[q]].stage = manifest[arena[q]].stage
      BY <1>8, <2>2, LeasesDiffer, LeaseNewInterruptedEffect DEF Settled, Unfinished, Inv, LeaseInv
  <2>3. ASSUME q # p, lease[q] # "none"
        PROVE  arenaLock'[arena[q]] = q
    BY <1>8, <2>3, LeasesDiffer DEF LeaseNewInterrupted, Leave, Unlock, Held, Inv, TypeOK,
       ProcessType
  <2>4. q = p => LeaseOnDisk(q)'
      BY <1>8 DEF LeaseNewInterrupted, Leave, Unlock, LeaseOnDisk, Inv, TypeOK, ProcessType
  <2> QED
      BY <2>1, <2>2, <2>3, <2>4 DEF LeaseOnDisk
<1>9. ASSUME NEW p \in Process, LeaseRefused(p)
    PROVE  LeaseOnDisk(q)'
  <2>1. q # p => lease'[q] = lease[q] /\ arena'[q] = arena[q]
      BY <1>9 DEF LeaseRefused, Leave, Unlock, Inv, TypeOK, ProcessType
  <2>2. ASSUME q # p, lease[q] # "none"
        PROVE  manifest'[arena[q]].stage = manifest[arena[q]].stage
      BY <1>9, <2>2, LeasesDiffer, LeaseRefusedEffect DEF Settled, Unfinished, Inv, LeaseInv
  <2>3. ASSUME q # p, lease[q] # "none"
        PROVE  arenaLock'[arena[q]] = q
      BY <1>9, <2>3, LeasesDiffer DEF LeaseRefused, Leave, Unlock, Held, Inv, TypeOK, ProcessType
  <2>4. q = p => LeaseOnDisk(q)'
      BY <1>9 DEF LeaseRefused, Leave, Unlock, LeaseOnDisk, Inv, TypeOK, ProcessType
  <2> QED
      BY <2>1, <2>2, <2>3, <2>4 DEF LeaseOnDisk
<1>10. ASSUME NEW p \in Process, ReconcileRecord(p)
    PROVE  LeaseOnDisk(q)'
    BY <1>10, ReconcileRecordEffect, ArenaStoreAssumption DEF ReconcileRecord,
       CompleteRecord, ResumeRetirement, DeleteRetired, RecordFails, SkipRecord,
       TakeVictim, Removed, Others, Held, Free, Inv, TypeOK, ProcessType, PassType,
       LeaseInv, LeaseOnDisk, LeaseDiskAgree, LocksFollowPlace, PlaceOK,
       LeaseFollowsPlace, Admitting, Collecting, Retiring
<1>11. ASSUME NEW p \in Process, RepairIntent(p)
    PROVE  LeaseOnDisk(q)'
    BY <1>11, RepairIntentEffect, ArenaStoreAssumption DEF RepairIntent, Intended,
       Others, Held, Free, Inv, TypeOK, ProcessType, PassType, LeaseInv, LeaseOnDisk,
       LeaseDiskAgree, LocksFollowPlace, PlaceOK, LeaseFollowsPlace, Admitting,
       Collecting, Retiring
<1>12. ASSUME NEW p \in Process, RepairFails(p)
    PROVE  LeaseOnDisk(q)'
  <2>1. q # p => lease'[q] = lease[q] /\ arena'[q] = arena[q]
      BY <1>12 DEF RepairFails, AbortCollection, ForgetPass, Leave, Unlock, Inv, TypeOK, ProcessType
  <2>2. ASSUME q # p, lease[q] # "none"
        PROVE  manifest'[arena[q]].stage = manifest[arena[q]].stage
    BY <1>12, <2>2, LeasesDiffer, RepairFailsEffect DEF Intended, Others, Unfinished, Inv,
       LeaseInv
  <2>3. ASSUME q # p, lease[q] # "none"
        PROVE  arenaLock'[arena[q]] = q
    BY <1>12, <2>3, LeasesDiffer DEF RepairFails, AbortCollection, ForgetPass, Leave,
       Unlock, Held, Inv, TypeOK, ProcessType
  <2>4. q = p => LeaseOnDisk(q)'
    <3>1. CASE lease[p] = "none"
    BY <1>12, <3>1 DEF RepairFails, AbortCollection, ForgetPass, Leave, Unlock, LeaseOnDisk,
       Inv, TypeOK, ProcessType
    <3>2. CASE lease[p] # "none"
      <4>1. q = p => UNCHANGED <<lease, arena, arenaLock>>
          BY <1>12, <3>2 DEF RepairFails, AbortCollection
      <4>2. q = p => manifest'[arena[q]].stage = manifest[arena[q]].stage
          BY <1>12, <3>2, RepairFailsEffect, LeasesDiffer DEF Intended, Others, Inv
      <4> QED
          BY <3>2, <4>1, <4>2 DEF LeaseOnDisk
    <3> QED
        BY <3>1, <3>2
  <2> QED
      BY <2>1, <2>2, <2>3, <2>4 DEF LeaseOnDisk
<1>13. ASSUME NEW p \in Process, CollectionFails(p)
    PROVE  LeaseOnDisk(q)'
    BY <1>13, ArenaStoreAssumption DEF CollectionFails, AbortCollection, ForgetPass,
       Leave, Unlock, Held, Free, Inv, TypeOK, ProcessType, PassType, LeaseInv,
       LeaseOnDisk, LeaseDiskAgree, LocksFollowPlace, PlaceOK, LeaseFollowsPlace,
       Admitting, Collecting, Retiring
<1>14. ASSUME NEW p \in Process, EndRepair(p)
    PROVE  LeaseOnDisk(q)'
    BY <1>14, ArenaStoreAssumption DEF EndRepair, ForgetPass, Leave, Unlock, Held,
       Free, Inv, TypeOK, ProcessType, PassType, LeaseInv, LeaseOnDisk, LeaseDiskAgree,
       LocksFollowPlace, PlaceOK, LeaseFollowsPlace, Admitting, Collecting, Retiring
<1>15. ASSUME NEW p \in Process, EndScan(p)
    PROVE  LeaseOnDisk(q)'
    BY <1>15, ArenaStoreAssumption DEF EndScan, AbortCollection, ForgetPass, Leave,
       Unlock, Held, Free, Inv, TypeOK, ProcessType, PassType, LeaseInv, LeaseOnDisk,
       LeaseDiskAgree, LocksFollowPlace, PlaceOK, LeaseFollowsPlace, Admitting,
       Collecting, Retiring
<1>16. ASSUME NEW p \in Process, Retire(p)
    PROVE  LeaseOnDisk(q)'
  <2>1. PICK e \in plan, id \in RetirementId :
            e.arena \in Arena /\ StillEvictable(e) /\ Fresh(id) /\ ~Fresh(id)' /\ Intended(e.arena, id)
      BY <1>16, RetireEffect DEF Inv
  <2>2. UNCHANGED <<lease, arena>> /\ \A b \in Arena : arenaLock'[b] = arenaLock[b] \/ Free(b)
      BY <1>16 DEF Retire, TakeVictim, StillEvictable, Inv, TypeOK, ProcessType
  <2>3. ASSUME lease[q] # "none"
        PROVE  manifest'[arena[q]].stage = manifest[arena[q]].stage /\ arenaLock'[arena[q]] = q
      BY <2>1, <2>2, <2>3, LeasesDiffer DEF Intended, Others, StillEvictable
  <2> QED
      BY <2>2, <2>3 DEF LeaseOnDisk
<1>17. ASSUME NEW p \in Process, EndRetire(p)
    PROVE  LeaseOnDisk(q)'
    BY <1>17, ArenaStoreAssumption DEF EndRetire, ForgetPass, Leave, Unlock, Held,
       Free, Inv, TypeOK, ProcessType, PassType, LeaseInv, LeaseOnDisk, LeaseDiskAgree,
       LocksFollowPlace, PlaceOK, LeaseFollowsPlace, Admitting, Collecting, Retiring
<1>18. ASSUME NEW p \in Process, CreateJournal(p)
    PROVE  LeaseOnDisk(q)'
    BY <1>18, ArenaStoreAssumption DEF CreateJournal, Step, Return, Held, Free, Inv,
       TypeOK, ProcessType, PassType, LeaseInv, LeaseOnDisk, LeaseDiskAgree,
       LocksFollowPlace, PlaceOK, LeaseFollowsPlace, Admitting, Collecting, Retiring
<1>19. ASSUME NEW p \in Process, RenameArena(p)
    PROVE  LeaseOnDisk(q)'
    BY <1>19, RenameArenaEffect, ArenaStoreAssumption DEF RenameArena, Step, Return,
       Removed, Others, Held, Free, Inv, TypeOK, ProcessType, PassType, LeaseInv,
       LeaseOnDisk, LeaseDiskAgree, LocksFollowPlace, PlaceOK, LeaseFollowsPlace,
       Admitting, Collecting, Retiring
<1>20. ASSUME NEW p \in Process, PurgeTrash(p)
    PROVE  LeaseOnDisk(q)'
    BY <1>20, ArenaStoreAssumption DEF PurgeTrash, Step, Return, Held, Free, Inv,
       TypeOK, ProcessType, PassType, LeaseInv, LeaseOnDisk, LeaseDiskAgree,
       LocksFollowPlace, PlaceOK, LeaseFollowsPlace, Admitting, Collecting, Retiring
<1>21. ASSUME NEW p \in Process, RemoveJournal(p)
    PROVE  LeaseOnDisk(q)'
    BY <1>21, ArenaStoreAssumption DEF RemoveJournal, Return, Held, Free, Inv, TypeOK,
       ProcessType, PassType, LeaseInv, LeaseOnDisk, LeaseDiskAgree, LocksFollowPlace,
       PlaceOK, LeaseFollowsPlace, Admitting, Collecting, Retiring
<1>22. ASSUME NEW p \in Process, MarkSpawning(p)
    PROVE  LeaseOnDisk(q)'
  <2>1. q # p => lease'[q] = lease[q] /\ arena'[q] = arena[q]
      BY <1>22 DEF MarkSpawning, Transition, Inv, TypeOK, ProcessType
  <2>2. ASSUME q # p, lease[q] # "none"
        PROVE  manifest'[arena[q]].stage = manifest[arena[q]].stage
    BY <1>22, <2>2, LeasesDiffer, MarkSpawningEffect DEF Advanced, Others, Unfinished, Inv,
       LeaseInv
  <2>3. ASSUME q # p, lease[q] # "none"
        PROVE  arenaLock'[arena[q]] = q
      BY <1>22, <2>3, LeasesDiffer DEF MarkSpawning, Transition, Held, Inv, TypeOK, ProcessType
  <2>4. q = p => LeaseOnDisk(q)'
    <3>1. arena[p] \in Arena /\ lease[p] = "reserved" /\ manifest[arena[p]].stage = "reserved"
        BY <1>22, MarkSpawningEffect DEF Inv
    <3>2. /\ UNCHANGED <<arena, arenaLock>>
          /\ \/ lease'[p] = "spawning" /\ Write(arena[p], Advance(manifest[arena[p]], "spawning"))
             \/ lease' = lease /\ Write(arena[p], Advance(manifest[arena[p]], "spawning"))
             \/ lease' = lease /\ manifest' = manifest
        BY <1>22 DEF MarkSpawning, Transition, Inv, TypeOK, ProcessType
    <3>3. Write(arena[p], Advance(manifest[arena[p]], "spawning")) => manifest'[arena[p]].stage = "spawning"
        BY <3>1, WriteEffect DEF Inv, Advanced
    <3> QED
        BY <3>1, <3>2, <3>3 DEF LeaseOnDisk
  <2> QED
      BY <2>1, <2>2, <2>3, <2>4 DEF LeaseOnDisk
<1>23. ASSUME NEW p \in Process, MarkSpawned(p)
    PROVE  LeaseOnDisk(q)'
  <2>1. q # p => lease'[q] = lease[q] /\ arena'[q] = arena[q]
      BY <1>23 DEF MarkSpawned, Transition, Inv, TypeOK, ProcessType
  <2>2. ASSUME q # p, lease[q] # "none"
        PROVE  manifest'[arena[q]].stage = manifest[arena[q]].stage
    BY <1>23, <2>2, LeasesDiffer, MarkSpawnedEffect DEF Advanced, Others, Unfinished, Inv,
       LeaseInv
  <2>3. ASSUME q # p, lease[q] # "none"
        PROVE  arenaLock'[arena[q]] = q
      BY <1>23, <2>3, LeasesDiffer DEF MarkSpawned, Transition, Held, Inv, TypeOK, ProcessType
  <2>4. q = p => LeaseOnDisk(q)'
    <3>1. arena[p] \in Arena /\ lease[p] = "spawning" /\ manifest[arena[p]].stage = "spawning"
        BY <1>23, MarkSpawnedEffect DEF Inv
    <3>2. /\ UNCHANGED <<arena, arenaLock>>
          /\ \/ lease'[p] = "spawned" /\ Write(arena[p], Advance(manifest[arena[p]], "spawned"))
             \/ lease' = lease /\ Write(arena[p], Advance(manifest[arena[p]], "spawned"))
             \/ lease' = lease /\ manifest' = manifest
        BY <1>23 DEF MarkSpawned, Transition, Inv, TypeOK, ProcessType
    <3>3. Write(arena[p], Advance(manifest[arena[p]], "spawned")) => manifest'[arena[p]].stage = "spawned"
        BY <3>1, WriteEffect DEF Inv, Advanced
    <3> QED
        BY <3>1, <3>2, <3>3 DEF LeaseOnDisk
  <2> QED
      BY <2>1, <2>2, <2>3, <2>4 DEF LeaseOnDisk
<1>24. ASSUME NEW p \in Process, LeaveSuspect(p)
    PROVE  LeaseOnDisk(q)'
    BY <1>24, ArenaStoreAssumption DEF LeaveSuspect, Leave, Unlock, Held, Free, Inv,
       TypeOK, ProcessType, PassType, LeaseInv, LeaseOnDisk, LeaseDiskAgree,
       LocksFollowPlace, PlaceOK, LeaseFollowsPlace, Admitting, Collecting, Retiring
<1>25. ASSUME NEW p \in Process, Finish(p)
    PROVE  LeaseOnDisk(q)'
  <2>1. q # p => lease'[q] = lease[q] /\ arena'[q] = arena[q]
      BY <1>25 DEF Finish, Unlock, Inv, TypeOK, ProcessType
  <2>2. ASSUME q # p, lease[q] # "none"
        PROVE  manifest'[arena[q]].stage = manifest[arena[q]].stage
      BY <1>25, <2>2, LeasesDiffer, FinishEffect DEF Advanced, Others, Unfinished, Inv, LeaseInv
  <2>3. ASSUME q # p, lease[q] # "none"
        PROVE  arenaLock'[arena[q]] = q
      BY <1>25, <2>3, LeasesDiffer DEF Finish, Unlock, Held, Inv, TypeOK, ProcessType
  <2>4. q = p => LeaseOnDisk(q)'
      BY <1>25 DEF Finish, Unlock, LeaseOnDisk, Inv, TypeOK, ProcessType
  <2> QED
      BY <2>1, <2>2, <2>3, <2>4 DEF LeaseOnDisk
<1>26. ASSUME NEW p \in Process, DropLease(p)
    PROVE  LeaseOnDisk(q)'
  <2>1. q # p => lease'[q] = lease[q] /\ arena'[q] = arena[q]
      BY <1>26 DEF DropLease, Leave, Unlock, Inv, TypeOK, ProcessType
  <2>2. ASSUME q # p, lease[q] # "none"
        PROVE  manifest'[arena[q]].stage = manifest[arena[q]].stage
      BY <1>26, <2>2, LeasesDiffer, DropLeaseEffect DEF Advanced, Others, Unfinished, Inv, LeaseInv
  <2>3. ASSUME q # p, lease[q] # "none"
        PROVE  arenaLock'[arena[q]] = q
      BY <1>26, <2>3, LeasesDiffer DEF DropLease, Leave, Unlock, Held, Inv, TypeOK, ProcessType
  <2>4. q = p => LeaseOnDisk(q)'
      BY <1>26 DEF DropLease, Leave, Unlock, LeaseOnDisk, Inv, TypeOK, ProcessType
  <2> QED
      BY <2>1, <2>2, <2>3, <2>4 DEF LeaseOnDisk
<1>27. ASSUME NEW p \in Process, Crash(p)
    PROVE  LeaseOnDisk(q)'
    BY <1>27, ArenaStoreAssumption DEF Crash, ForgetPass, Leave, Unlock, Held, Free,
       Inv, TypeOK, ProcessType, PassType, LeaseInv, LeaseOnDisk, LeaseDiskAgree,
       LocksFollowPlace, PlaceOK, LeaseFollowsPlace, Admitting, Collecting, Retiring
<1>28. ASSUME NEW a \in Arena, Recover(a)
    PROVE  LeaseOnDisk(q)'
    BY <1>28, RecoverEffect, ArenaStoreAssumption DEF Recover, Advanced, Others,
       Unfinished, Held, Free, Inv, TypeOK, ProcessType, PassType, LeaseInv,
       LeaseOnDisk, LeaseDiskAgree, LocksFollowPlace, PlaceOK, LeaseFollowsPlace,
       Admitting, Collecting, Retiring
<1>29. ASSUME NEW a \in Arena, NEW pin \in BOOLEAN, UpdatePin(a, pin)
    PROVE  LeaseOnDisk(q)'
    BY <1>29, UpdatePinEffect, ArenaStoreAssumption DEF UpdatePin, Repinned, Advanced,
       Others, Inv, TypeOK, ProcessType, PassType, LeaseInv, LeaseOnDisk,
       LeaseDiskAgree, LocksFollowPlace, PlaceOK, LeaseFollowsPlace, Admitting,
       Collecting, Retiring
<1>30. ASSUME NEW a \in Arena, PinExpires(a)
    PROVE  LeaseOnDisk(q)'
    BY <1>30, PinExpiresEffect, ArenaStoreAssumption DEF PinExpires, Expired, Others,
       Inv, TypeOK, ProcessType, PassType, LeaseInv, LeaseOnDisk, LeaseDiskAgree,
       LocksFollowPlace, PlaceOK, LeaseFollowsPlace, Admitting, Collecting, Retiring
<1> QED
    BY <1>1, <1>2, <1>3, <1>4, <1>5, <1>6, <1>7, <1>8, <1>9, <1>10, <1>11, <1>12,
       <1>13, <1>14, <1>15, <1>16, <1>17, <1>18, <1>19, <1>20, <1>21, <1>22, <1>23,
       <1>24, <1>25, <1>26, <1>27, <1>28, <1>29, <1>30
       DEF Next, Admit, Collect, Build, Start, Environment

\* The processes that know that no Cargo runs in their arena.
Guarded(q) == lease[q] = "reserved" \/ pc[q] \in {"spawning", "finish", "exited"}

\* Cargo is forked by the lease that spawns it, and by no other step.
LEMMA NoCargoYetStep ==
    ASSUME Inv, Next
    PROVE  NoCargoYet'
<1> SUFFICES ASSUME NEW q \in Process, Guarded(q) => ~cargo[arena[q]]
           PROVE  Guarded(q)' => ~cargo'[arena'[q]]
    BY DEF NoCargoYet, Guarded, Inv, LeaseInv
<1>1. ASSUME NEW p \in Process,
           \/ StartCollection(p) \/ OpenStore(p)
           \/ (\E a \in Arena : StartBuild(p, a)) \/ AcquireCollection(p)
           \/ TryArena(p) \/ WaitArena(p) \/ LeaseNewInterrupted(p)
           \/ LeaseRefused(p)
    PROVE  Guarded(q)' => ~cargo'[arena'[q]]
  <2>1. UNCHANGED cargo /\ (Guarded(q)' => Guarded(q) /\ arena'[q] = arena[q])
    BY <1>1 DEF Guarded, Inv, TypeOK, ProcessType, LeaseFollowsPlace, StartCollection,
       OpenStore, StartBuild, AcquireCollection, TryArena, WaitArena,
       LeaseNewInterrupted, LeaseRefused, Leave, Unlock
  <2> QED
    BY <2>1
<1>2. ASSUME NEW p \in Process,
           \/ ReconcileRecord(p) \/ EndReconcile(p) \/ RepairIntent(p)
           \/ RepairFails(p) \/ CollectionFails(p) \/ EndRepair(p)
           \/ ReadManifest(p) \/ ProbeLock(p)
    PROVE  Guarded(q)' => ~cargo'[arena'[q]]
  <2>1. UNCHANGED cargo /\ (Guarded(q)' => Guarded(q) /\ arena'[q] = arena[q])
    BY <1>2 DEF Guarded, Inv, TypeOK, ProcessType, LeaseFollowsPlace, ReconcileRecord,
       EndReconcile, RepairIntent, RepairFails, CollectionFails, EndRepair,
       ReadManifest, ProbeLock, CompleteRecord, ResumeRetirement, DeleteRetired,
       RecordFails, SkipRecord, TakeVictim, AbortCollection, ForgetPass, Leave, Unlock
  <2> QED
    BY <2>1
<1>3. ASSUME NEW p \in Process,
           \/ EndScan(p) \/ Retire(p) \/ SkipEviction(p) \/ EndRetire(p)
           \/ CreateJournal(p) \/ RenameArena(p) \/ PurgeTrash(p)
           \/ RemoveJournal(p)
    PROVE  Guarded(q)' => ~cargo'[arena'[q]]
  <2>1. UNCHANGED cargo /\ (Guarded(q)' => Guarded(q) /\ arena'[q] = arena[q])
    BY <1>3 DEF Guarded, Inv, TypeOK, ProcessType, LeaseFollowsPlace, EndScan, Retire,
       SkipEviction, EndRetire, CreateJournal, RenameArena, PurgeTrash, RemoveJournal,
       AbortCollection, ForgetPass, Leave, Unlock, TakeVictim, Step, Return
  <2> QED
    BY <2>1
<1>4. ASSUME NEW p \in Process,
           \/ MarkSpawned(p) \/ SupervisionFails(p) \/ LeaveSuspect(p)
           \/ FinishFails(p) \/ DropLease(p) \/ Crash(p)
    PROVE  Guarded(q)' => ~cargo'[arena'[q]]
  <2>1. UNCHANGED cargo /\ (Guarded(q)' => Guarded(q) /\ arena'[q] = arena[q])
    BY <1>4 DEF Guarded, Inv, TypeOK, ProcessType, LeaseFollowsPlace, MarkSpawned,
       SupervisionFails, LeaveSuspect, FinishFails, DropLease, Crash, Transition,
       Leave, Unlock, ForgetPass
  <2> QED
    BY <2>1
<1>5. ASSUME NEW a \in Arena,
           \/ Recover(a) \/ (\E pin \in BOOLEAN : UpdatePin(a, pin))
           \/ PinExpires(a) \/ WorktreeChanges(a)
    PROVE  Guarded(q)' => ~cargo'[arena'[q]]
  <2>1. UNCHANGED cargo /\ (Guarded(q)' => Guarded(q) /\ arena'[q] = arena[q])
    BY <1>5 DEF Guarded, Inv, TypeOK, ProcessType, LeaseFollowsPlace, Recover,
       UpdatePin, PinExpires, WorktreeChanges
  <2> QED
    BY <2>1
<1>6. ASSUME NEW p \in Process, LeaseExisting(p)
    PROVE  Guarded(q)' => ~cargo'[arena'[q]]
  <2>1. q # p => (Guarded(q)' => Guarded(q) /\ arena'[q] = arena[q])
      BY <1>6 DEF LeaseExisting, Guarded, Inv, TypeOK, ProcessType
  <2>2. cargo' = cargo /\ arena' = arena
      BY <1>6 DEF LeaseExisting
  <2>3. ~cargo[arena[p]]
      BY <1>6, LeaseExistingEffect DEF Inv, LeaseInv, CargoTreeProtected, StagedIsAbsent, Exists
  <2> QED
      BY <2>1, <2>2, <2>3
<1>7. ASSUME NEW p \in Process, LeaseNew(p)
    PROVE  Guarded(q)' => ~cargo'[arena'[q]]
  <2>1. q # p => (Guarded(q)' => Guarded(q) /\ arena'[q] = arena[q])
      BY <1>7 DEF LeaseNew, Guarded, Inv, TypeOK, ProcessType
  <2>2. cargo' = cargo /\ arena' = arena
      BY <1>7 DEF LeaseNew
  <2>3. ~cargo[arena[p]]
      BY <1>7, LeaseNewEffect DEF Inv, LeaseInv, CargoTreeProtected, StagedIsAbsent, Exists
  <2> QED
      BY <2>1, <2>2, <2>3
<1>8. ASSUME NEW p \in Process, AbortAdmitted(p)
    PROVE  Guarded(q)' => ~cargo'[arena'[q]]
    BY <1>8 DEF AbortAdmitted, Guarded, Inv, TypeOK, ProcessType, LeaseFollowsPlace
<1>9. ASSUME NEW p \in Process, MarkSpawning(p)
    PROVE  Guarded(q)' => ~cargo'[arena'[q]]
    BY <1>9 DEF MarkSpawning, Transition, Guarded, Inv, TypeOK, ProcessType,
       LeaseFollowsPlace
<1>10. ASSUME NEW p \in Process, Fork(p)
    PROVE  Guarded(q)' => ~cargo'[arena'[q]]
  <2>1. Guarded(q)' => Guarded(q) /\ arena'[q] = arena[q] /\ lease[q] # "none"
      BY <1>10 DEF Fork, Guarded, Inv, TypeOK, ProcessType, LeaseFollowsPlace
  <2>2. lease[p] # "none"
      BY <1>10 DEF Fork, Inv, LeaseFollowsPlace
  <2>3. CASE q = p
      BY <1>10, <2>1, <2>3 DEF Fork, Guarded, Inv, TypeOK, ProcessType, LeaseFollowsPlace
  <2>4. CASE q # p
    <3>1. lease[q] # "none" => arena[p] # arena[q] /\ arena[q] \in Arena
        BY <2>2, <2>4, LeasesDiffer
    <3>2. cargo' = cargo \/ cargo' = [cargo EXCEPT ![arena[p]] = TRUE]
        BY <1>10 DEF Fork
    <3> QED
        BY <2>1, <3>1, <3>2 DEF Inv, TypeOK, DiskType
  <2> QED
      BY <2>3, <2>4
<1>11. ASSUME NEW p \in Process, TreeExits(p)
    PROVE  Guarded(q)' => ~cargo'[arena'[q]]
    BY <1>11 DEF TreeExits, Guarded, Inv, TypeOK, ProcessType
<1>12. ASSUME NEW p \in Process, Finish(p)
    PROVE  Guarded(q)' => ~cargo'[arena'[q]]
    BY <1>12 DEF Finish, Unlock, Guarded, Inv, TypeOK, ProcessType
<1>13. ASSUME NEW a \in Arena, CargoExits(a)
    PROVE  Guarded(q)' => ~cargo'[arena'[q]]
    BY <1>13 DEF CargoExits, Guarded, Inv, TypeOK, ProcessType, DiskType
<1> QED
    BY <1>1, <1>2, <1>3, <1>4, <1>5, <1>6, <1>7, <1>8, <1>9, <1>10, <1>11, <1>12, <1>13
       DEF Next, Admit, Collect, Build, Start, Environment

\* A manifest leaves Spawning and Spawned only when its Cargo tree is gone.
LEMMA CargoTreeProtectedStep ==
    ASSUME Inv, Next
    PROVE  CargoTreeProtected'
<1> USE DEF Inv
<1> SUFFICES ASSUME NEW b \in Arena, cargo'[b]
           PROVE  manifest'[b].stage \in {"spawning", "spawned"}
    BY DEF CargoTreeProtected
<1>1. ASSUME NEW p \in Process,
           \/ StartCollection(p) \/ (\E a \in Arena : StartBuild(p, a))
           \/ AcquireCollection(p) \/ TryArena(p) \/ WaitArena(p)
           \/ EndReconcile(p) \/ CollectionFails(p) \/ EndRepair(p)
           \/ ReadManifest(p) \/ ProbeLock(p) \/ EndScan(p) \/ SkipEviction(p)
           \/ EndRetire(p) \/ CreateJournal(p) \/ PurgeTrash(p)
           \/ RemoveJournal(p) \/ AbortAdmitted(p) \/ SupervisionFails(p)
           \/ TreeExits(p) \/ LeaveSuspect(p) \/ FinishFails(p) \/ Crash(p)
    PROVE  manifest'[b].stage \in {"spawning", "spawned"}
  <2>1. UNCHANGED <<manifest, cargo>>
    BY <1>1 DEF StartCollection, StartBuild, AcquireCollection, TryArena, WaitArena,
       EndReconcile, CollectionFails, EndRepair, ReadManifest, ProbeLock, EndScan,
       SkipEviction, EndRetire, CreateJournal, PurgeTrash, RemoveJournal,
       AbortAdmitted, SupervisionFails, TreeExits, LeaveSuspect, FinishFails, Crash,
       AbortCollection, ForgetPass, Leave, Unlock, Step, Return
  <2> QED
    BY <2>1 DEF LeaseInv, CargoTreeProtected
<1>2. ASSUME NEW a \in Arena,
           \/ WorktreeChanges(a)
    PROVE  manifest'[b].stage \in {"spawning", "spawned"}
  <2>1. UNCHANGED <<manifest, cargo>>
    BY <1>2 DEF WorktreeChanges
  <2> QED
    BY <2>1 DEF LeaseInv, CargoTreeProtected
<1>3. ASSUME NEW p \in Process, OpenStore(p)
    PROVE  manifest'[b].stage \in {"spawning", "spawned"}
    BY <1>3, OpenStoreEffect DEF OpenStore, LeaseInv, CargoTreeProtected, NoCargoYet,
       Settled
<1>4. ASSUME NEW p \in Process, LeaseExisting(p)
    PROVE  manifest'[b].stage \in {"spawning", "spawned"}
    BY <1>4, LeaseExistingEffect DEF LeaseExisting, LeaseInv, CargoTreeProtected,
       NoCargoYet, Settled
<1>5. ASSUME NEW p \in Process, LeaseNew(p)
    PROVE  manifest'[b].stage \in {"spawning", "spawned"}
    BY <1>5, LeaseNewEffect DEF LeaseNew, LeaseInv, CargoTreeProtected, NoCargoYet,
       Settled
<1>6. ASSUME NEW p \in Process, LeaseNewInterrupted(p)
    PROVE  manifest'[b].stage \in {"spawning", "spawned"}
    BY <1>6, LeaseNewInterruptedEffect DEF LeaseNewInterrupted, LeaseInv,
       CargoTreeProtected, NoCargoYet, Settled
<1>7. ASSUME NEW p \in Process, LeaseRefused(p)
    PROVE  manifest'[b].stage \in {"spawning", "spawned"}
    BY <1>7, LeaseRefusedEffect DEF LeaseRefused, LeaseInv, CargoTreeProtected,
       NoCargoYet, Settled
<1>8. ASSUME NEW p \in Process, ReconcileRecord(p)
    PROVE  manifest'[b].stage \in {"spawning", "spawned"}
  <2>1. cargo' = cargo
      BY <1>8 DEF ReconcileRecord
  <2>2. \/ manifest' = manifest
        \/ \E rec \in journal : /\ rec.arena \in Arena /\ Removed(rec.arena)
                                /\ manifest[rec.arena].retirement # None
      BY <1>8, ReconcileRecordEffect, ArenaStoreAssumption DEF Inv, ResumeRetirement, Matches
  <2> QED
    BY <2>1, <2>2 DEF Removed, Others, Inv, LeaseInv, CargoTreeProtected, RetirementInv,
       IntentIsFinished
<1>9. ASSUME NEW p \in Process, RepairIntent(p)
    PROVE  manifest'[b].stage \in {"spawning", "spawned"}
    BY <1>9, RepairIntentEffect DEF RepairIntent, LeaseInv, CargoTreeProtected,
       NoCargoYet, Intended, Others
<1>10. ASSUME NEW p \in Process, RepairFails(p)
    PROVE  manifest'[b].stage \in {"spawning", "spawned"}
    BY <1>10, RepairFailsEffect DEF RepairFails, LeaseInv, CargoTreeProtected,
       NoCargoYet, Intended, Others
<1>11. ASSUME NEW p \in Process, Retire(p)
    PROVE  manifest'[b].stage \in {"spawning", "spawned"}
  <2>1. PICK e \in plan, id \in RetirementId :
            e.arena \in Arena /\ StillEvictable(e) /\ Fresh(id) /\ ~Fresh(id)' /\ Intended(e.arena, id)
      BY <1>11, RetireEffect DEF Inv
  <2>2. cargo' = cargo
      BY <1>11 DEF Retire
  <2> QED
      BY <2>1, <2>2 DEF Intended, Others, Inv, LeaseInv, CargoTreeProtected
<1>12. ASSUME NEW p \in Process, RenameArena(p)
    PROVE  manifest'[b].stage \in {"spawning", "spawned"}
  <2>1. cargo' = cargo
      BY <1>12 DEF RenameArena, Step, Return
  <2>2. victim \in Arena /\ manifest[victim].stage = "finalized"
      BY <1>12, RenameArenaEffect DEF RenameArena, Inv, RetirementInv, VictimIsRetirable
  <2> QED
      BY <1>12, <2>1, <2>2, RenameArenaEffect DEF Removed, Others, Inv, LeaseInv, CargoTreeProtected
<1>13. ASSUME NEW p \in Process, MarkSpawning(p)
    PROVE  manifest'[b].stage \in {"spawning", "spawned"}
    BY <1>13, MarkSpawningEffect DEF MarkSpawning, Transition, LeaseInv,
       CargoTreeProtected, NoCargoYet, Advanced, Others
<1>14. ASSUME NEW p \in Process, Fork(p)
    PROVE  manifest'[b].stage \in {"spawning", "spawned"}
  <2>1. manifest' = manifest /\ (cargo'[b] => cargo[b] \/ b = arena[p])
      BY <1>14 DEF Fork, TypeOK, DiskType
  <2>2. manifest[arena[p]].stage \in {"spawning", "spawned"}
      BY <1>14 DEF Fork, Inv, LeaseInv, LeaseDiskAgree, LeaseFollowsPlace
  <2> QED
      BY <2>1, <2>2 DEF Inv, LeaseInv, CargoTreeProtected
<1>15. ASSUME NEW p \in Process, MarkSpawned(p)
    PROVE  manifest'[b].stage \in {"spawning", "spawned"}
    BY <1>15, MarkSpawnedEffect DEF MarkSpawned, Transition, LeaseInv,
       CargoTreeProtected, NoCargoYet, Advanced, Others
<1>16. ASSUME NEW p \in Process, Finish(p)
    PROVE  manifest'[b].stage \in {"spawning", "spawned"}
    BY <1>16, FinishEffect DEF Finish, LeaseInv, CargoTreeProtected, NoCargoYet,
       Advanced, Others
<1>17. ASSUME NEW p \in Process, DropLease(p)
    PROVE  manifest'[b].stage \in {"spawning", "spawned"}
    BY <1>17, DropLeaseEffect DEF DropLease, LeaseInv, CargoTreeProtected, NoCargoYet,
       Advanced, Others
<1>18. ASSUME NEW a \in Arena, CargoExits(a)
    PROVE  manifest'[b].stage \in {"spawning", "spawned"}
    BY <1>18 DEF CargoExits, LeaseInv, CargoTreeProtected, NoCargoYet, TypeOK, DiskType
<1>19. ASSUME NEW a \in Arena, Recover(a)
    PROVE  manifest'[b].stage \in {"spawning", "spawned"}
    BY <1>19, RecoverEffect DEF Recover, LeaseInv, CargoTreeProtected, NoCargoYet,
       Advanced, Others
<1>20. ASSUME NEW a \in Arena, NEW pin \in BOOLEAN, UpdatePin(a, pin)
    PROVE  manifest'[b].stage \in {"spawning", "spawned"}
    BY <1>20, UpdatePinEffect DEF UpdatePin, LeaseInv, CargoTreeProtected, NoCargoYet,
       Repinned, Advanced, Others
<1>21. ASSUME NEW a \in Arena, PinExpires(a)
    PROVE  manifest'[b].stage \in {"spawning", "spawned"}
    BY <1>21, PinExpiresEffect DEF PinExpires, LeaseInv, CargoTreeProtected,
       NoCargoYet, Expired, Others
<1> QED
    BY <1>1, <1>2, <1>3, <1>4, <1>5, <1>6, <1>7, <1>8, <1>9, <1>10, <1>11, <1>12,
       <1>13, <1>14, <1>15, <1>16, <1>17, <1>18, <1>19, <1>20, <1>21
       DEF Next, Admit, Collect, Build, Start, Environment

-----------------------------------------------------------------------------
(* Retirements.                                                            *)

\* A retirement id is drawn once.
LEMMA FreshOnce ==
    ASSUME Inv, Next, NEW id \in RetirementId, ~Fresh(id)
    PROVE  ~Fresh(id)'
<1>1. ASSUME NEW p \in Process,
           \/ StartCollection(p) \/ OpenStore(p)
           \/ (\E a \in Arena : StartBuild(p, a)) \/ AcquireCollection(p)
           \/ TryArena(p) \/ WaitArena(p) \/ LeaseExisting(p) \/ LeaseNew(p)
           \/ LeaseNewInterrupted(p) \/ LeaseRefused(p) \/ ReconcileRecord(p)
           \/ EndReconcile(p) \/ RepairIntent(p) \/ RepairFails(p)
           \/ CollectionFails(p) \/ EndRepair(p) \/ ReadManifest(p)
           \/ ProbeLock(p) \/ EndScan(p) \/ SkipEviction(p) \/ EndRetire(p)
           \/ CreateJournal(p) \/ RenameArena(p) \/ PurgeTrash(p)
           \/ RemoveJournal(p) \/ AbortAdmitted(p) \/ MarkSpawning(p) \/ Fork(p)
           \/ MarkSpawned(p) \/ SupervisionFails(p) \/ TreeExits(p)
           \/ LeaveSuspect(p) \/ Finish(p) \/ FinishFails(p) \/ DropLease(p)
           \/ Crash(p)
    PROVE  ~Fresh(id)'
  <2>1. UNCHANGED basis
    BY <1>1 DEF CompleteRecord, ResumeRetirement, DeleteRetired, RecordFails, SkipRecord,
       StartCollection, OpenStore, StartBuild, AcquireCollection, TryArena,
       WaitArena, LeaseExisting, LeaseNew, LeaseNewInterrupted, LeaseRefused,
       ReconcileRecord, EndReconcile, RepairIntent, RepairFails, CollectionFails,
       EndRepair, ReadManifest, ProbeLock, EndScan, SkipEviction, EndRetire,
       CreateJournal, RenameArena, PurgeTrash, RemoveJournal, AbortAdmitted,
       MarkSpawning, Fork, MarkSpawned, SupervisionFails, TreeExits, LeaveSuspect,
       Finish, FinishFails, DropLease, Crash, Step, Return, Transition
  <2> QED
    BY <2>1 DEF Fresh
<1>2. ASSUME NEW a \in Arena,
           \/ CargoExits(a) \/ Recover(a)
           \/ (\E pin \in BOOLEAN : UpdatePin(a, pin)) \/ PinExpires(a)
           \/ WorktreeChanges(a)
    PROVE  ~Fresh(id)'
  <2>1. UNCHANGED basis
    BY <1>2 DEF CargoExits, Recover, UpdatePin, PinExpires, WorktreeChanges
  <2> QED
    BY <2>1 DEF Fresh
<1>3. ASSUME NEW p \in Process, Retire(p)
    PROVE  ~Fresh(id)'
    BY <1>3 DEF Retire, Fresh, Inv, TypeOK, DiskType
<1> QED
    BY <1>1, <1>2, <1>3
       DEF Next, Admit, Collect, Build, Start, Environment

\* Nobody but the collection itself touches what it has read.
LEMMA ViewKept ==
    ASSUME Inv, Next, NEW q \in Process, pc'[q] = "probe", ~ReadManifest(q)
    PROVE  pc[q] = "probe" /\ UNCHANGED <<victim, view>>
<1>1. ASSUME NEW p \in Process,
           \/ StartCollection(p) \/ OpenStore(p)
           \/ (\E a \in Arena : StartBuild(p, a)) \/ AcquireCollection(p)
           \/ TryArena(p) \/ WaitArena(p) \/ LeaseExisting(p) \/ LeaseNew(p)
           \/ LeaseNewInterrupted(p)
    PROVE  pc[q] = "probe" /\ UNCHANGED <<victim, view>>
  <2>1. pc[q] = "probe" /\ UNCHANGED <<victim, view>>
    BY <1>1 DEF Inv, TypeOK, ProcessType, PlaceOK, LeaseFollowsPlace, Admitting,
       Collecting, Retiring, StartCollection, OpenStore, StartBuild, AcquireCollection,
       TryArena, WaitArena, LeaseExisting, LeaseNew, LeaseNewInterrupted,
       StartReconciliation, Leave, Unlock
  <2> QED
    BY <2>1
<1>2. ASSUME NEW p \in Process,
           \/ LeaseRefused(p) \/ ReconcileRecord(p) \/ EndReconcile(p)
           \/ RepairIntent(p) \/ RepairFails(p) \/ CollectionFails(p)
           \/ EndRepair(p) \/ ProbeLock(p) \/ EndScan(p)
    PROVE  pc[q] = "probe" /\ UNCHANGED <<victim, view>>
  <2>1. pc[q] = "probe" /\ UNCHANGED <<victim, view>>
    BY <1>2 DEF Inv, TypeOK, ProcessType, PlaceOK, LeaseFollowsPlace, Admitting,
       Collecting, Retiring, LeaseRefused, ReconcileRecord, EndReconcile, RepairIntent,
       RepairFails, CollectionFails, EndRepair, ProbeLock, EndScan, Leave, Unlock,
       CompleteRecord, ResumeRetirement, DeleteRetired, RecordFails, SkipRecord,
       TakeVictim, AbortCollection, ForgetPass
  <2> QED
    BY <2>1
<1>3. ASSUME NEW p \in Process,
           \/ Retire(p) \/ SkipEviction(p) \/ EndRetire(p) \/ CreateJournal(p)
           \/ RenameArena(p) \/ PurgeTrash(p) \/ RemoveJournal(p)
           \/ AbortAdmitted(p) \/ MarkSpawning(p)
    PROVE  pc[q] = "probe" /\ UNCHANGED <<victim, view>>
  <2>1. pc[q] = "probe" /\ UNCHANGED <<victim, view>>
    BY <1>3 DEF Inv, TypeOK, ProcessType, PlaceOK, LeaseFollowsPlace, Admitting,
       Collecting, Retiring, Retire, SkipEviction, EndRetire, CreateJournal,
       RenameArena, PurgeTrash, RemoveJournal, AbortAdmitted, MarkSpawning, TakeVictim,
       ForgetPass, Leave, Unlock, Step, Return, Transition
  <2> QED
    BY <2>1
<1>4. ASSUME NEW p \in Process,
           \/ Fork(p) \/ MarkSpawned(p) \/ SupervisionFails(p) \/ TreeExits(p)
           \/ LeaveSuspect(p) \/ Finish(p) \/ FinishFails(p) \/ DropLease(p)
           \/ Crash(p)
    PROVE  pc[q] = "probe" /\ UNCHANGED <<victim, view>>
  <2>1. pc[q] = "probe" /\ UNCHANGED <<victim, view>>
    BY <1>4 DEF Inv, TypeOK, ProcessType, PlaceOK, LeaseFollowsPlace, Admitting,
       Collecting, Retiring, Fork, MarkSpawned, SupervisionFails, TreeExits,
       LeaveSuspect, Finish, FinishFails, DropLease, Crash, Transition, Leave, Unlock,
       ForgetPass
  <2> QED
    BY <2>1
<1>5. ASSUME NEW a \in Arena,
           \/ CargoExits(a) \/ Recover(a)
           \/ (\E pin \in BOOLEAN : UpdatePin(a, pin)) \/ PinExpires(a)
           \/ WorktreeChanges(a)
    PROVE  pc[q] = "probe" /\ UNCHANGED <<victim, view>>
  <2>1. pc[q] = "probe" /\ UNCHANGED <<victim, view>>
    BY <1>5 DEF Inv, TypeOK, ProcessType, PlaceOK, LeaseFollowsPlace, Admitting,
       Collecting, Retiring, CargoExits, Recover, UpdatePin, PinExpires,
       WorktreeChanges
  <2> QED
    BY <2>1
<1>6. ASSUME NEW p \in Process, ReadManifest(p)
    PROVE  pc[q] = "probe" /\ UNCHANGED <<victim, view>>
    BY <1>6 DEF ReadManifest, Inv, TypeOK, ProcessType, PlaceOK, LeaseFollowsPlace,
       Admitting, Collecting, Retiring
<1> QED
    BY <1>1, <1>2, <1>3, <1>4, <1>5, <1>6
       DEF Next, Admit, Collect, Build, Start, Environment

\* What the snapshot has read is a manifest of the past or of now.
LEMMA ViewIsOldStep ==
    ASSUME Inv, Next
    PROVE  ViewIsOld'
<1> SUFFICES ASSUME NEW q \in Process, pc'[q] = "probe", Exists(victim)'
             PROVE  /\ view'.revision <= manifest'[victim'].revision
                    /\ view'.revision = manifest'[victim'].revision
                           => view'.stage = manifest'[victim'].stage
    BY DEF ViewIsOld
<1>1. CASE ReadManifest(q)
  <2>1. view' = manifest'[victim'] /\ victim' \in Arena
      BY <1>1 DEF ReadManifest, Inv, TypeOK, PassType
  <2> QED
      BY <2>1, <1>1, ManifestFields DEF ReadManifest, Inv, TypeOK, DiskType
<1>2. CASE ~ReadManifest(q)
  <2>1. pc[q] = "probe" /\ UNCHANGED <<victim, view>>
      BY <1>2, ViewKept
  <2>2. victim \in Arena /\ collection = q
      BY <2>1 DEF Inv, PlaceOK, Collecting
  <2>3. collection # Nobody /\ \A p \in Process : pc[p] # "lease"
      BY <2>1, <2>2, ArenaStoreAssumption DEF Inv, PlaceOK
  <2>4. manifest[victim] \in Manifest /\ view \in Manifest
      BY <2>2 DEF Inv, TypeOK, DiskType, PassType
  <2>5. Moved(victim) /\ manifest'[victim].stage # "absent"
      BY <2>1, <2>2, ManifestMoves DEF Exists
  <2>6. Exists(victim) => /\ view.revision <= manifest[victim].revision
                          /\ view.revision = manifest[victim].revision => view.stage = manifest[victim].stage
      BY <2>1 DEF Inv, RetirementInv, ViewIsOld
  <2> QED
      BY <2>1, <2>3, <2>4, <2>5, <2>6, ManifestFields DEF Moved, Exists
<1> QED
    BY <1>1, <1>2

\* Only the probe of a lock adds to the plan.
LEMMA PlanOnlyShrinks ==
    ASSUME Inv, Next, \A p \in Process : ~ProbeLock(p)
    PROVE  plan' \subseteq plan
<1>1. ASSUME NEW p \in Process,
           \/ StartCollection(p) \/ OpenStore(p)
           \/ (\E a \in Arena : StartBuild(p, a)) \/ AcquireCollection(p)
           \/ TryArena(p) \/ WaitArena(p) \/ LeaseExisting(p) \/ LeaseNew(p)
           \/ LeaseNewInterrupted(p) \/ LeaseRefused(p) \/ ReconcileRecord(p)
           \/ EndReconcile(p) \/ RepairIntent(p) \/ RepairFails(p)
           \/ CollectionFails(p) \/ EndRepair(p) \/ ReadManifest(p)
           \/ EndScan(p)
    PROVE  plan' \subseteq plan
  <2>1. plan' \subseteq plan
    BY <1>1 DEF StartCollection, OpenStore, StartBuild, AcquireCollection, TryArena,
       WaitArena, LeaseExisting, LeaseNew, LeaseNewInterrupted, LeaseRefused,
       ReconcileRecord, EndReconcile, RepairIntent, RepairFails, CollectionFails,
       EndRepair, ReadManifest, EndScan, StartReconciliation, Leave, Unlock,
       CompleteRecord, ResumeRetirement, DeleteRetired, RecordFails, SkipRecord,
       TakeVictim, AbortCollection, ForgetPass
  <2> QED
    BY <2>1
<1>2. ASSUME NEW p \in Process,
           \/ Retire(p) \/ SkipEviction(p) \/ EndRetire(p) \/ CreateJournal(p)
           \/ RenameArena(p) \/ PurgeTrash(p) \/ RemoveJournal(p)
           \/ AbortAdmitted(p) \/ MarkSpawning(p) \/ Fork(p) \/ MarkSpawned(p)
           \/ SupervisionFails(p) \/ TreeExits(p) \/ LeaveSuspect(p)
           \/ Finish(p) \/ FinishFails(p) \/ DropLease(p) \/ Crash(p)
    PROVE  plan' \subseteq plan
  <2>1. plan' \subseteq plan
    BY <1>2 DEF Retire, SkipEviction, EndRetire, CreateJournal, RenameArena,
       PurgeTrash, RemoveJournal, AbortAdmitted, MarkSpawning, Fork, MarkSpawned,
       SupervisionFails, TreeExits, LeaveSuspect, Finish, FinishFails, DropLease,
       Crash, TakeVictim, ForgetPass, Leave, Unlock, Step, Return, Transition
  <2> QED
    BY <2>1
<1>3. ASSUME NEW a \in Arena,
           \/ CargoExits(a) \/ Recover(a)
           \/ (\E pin \in BOOLEAN : UpdatePin(a, pin)) \/ PinExpires(a)
           \/ WorktreeChanges(a)
    PROVE  plan' \subseteq plan
  <2>1. plan' \subseteq plan
    BY <1>3 DEF CargoExits, Recover, UpdatePin, PinExpires, WorktreeChanges
  <2> QED
    BY <2>1
<1>4. ASSUME NEW p \in Process, ProbeLock(p)
    PROVE  plan' \subseteq plan
    BY <1>4 DEF ProbeLock
<1> QED
    BY <1>1, <1>2, <1>3, <1>4
       DEF Next, Admit, Collect, Build, Start, Environment

\* A planned eviction was read from a quiescent manifest, which is the current one or
\* an older one.
LEMMA PlanIsOldStep ==
    ASSUME Inv, Next
    PROVE  PlanIsOld'
<1> SUFFICES ASSUME NEW e \in plan', Exists(e.arena)'
             PROVE  /\ e.revision <= manifest'[e.arena].revision
                    /\ e.revision = manifest'[e.arena].revision
                           => manifest'[e.arena].stage = "finalized"
    BY DEF PlanIsOld
<1>1. CASE e \in plan
  <2>1. e.arena \in Arena /\ e.revision \in Nat
      BY <1>1 DEF Inv, TypeOK, PassType, Eviction
  <2>2. manifest[e.arena] \in Manifest
      BY <2>1 DEF Inv, TypeOK, DiskType
  <2>3. collection # Nobody /\ \A p \in Process : pc[p] # "lease"
      BY <1>1 DEF Inv, RetirementInv, PlanFollowsPlace, PlaceOK, Collecting
  <2>4. Moved(e.arena) /\ manifest'[e.arena].stage # "absent"
      BY <2>1, ManifestMoves DEF Exists
  <2>5. Exists(e.arena) =>
            /\ e.revision <= manifest[e.arena].revision
            /\ e.revision = manifest[e.arena].revision => manifest[e.arena].stage = "finalized"
      BY <1>1 DEF Inv, RetirementInv, PlanIsOld
  <2> QED
      BY <2>1, <2>2, <2>3, <2>4, <2>5, ManifestFields DEF Moved, Exists
<1>2. ASSUME e \notin plan
      PROVE  \E p \in Process : ProbeLock(p)
    BY <1>2, PlanOnlyShrinks
<1>3. ASSUME NEW p \in Process, ProbeLock(p), e \notin plan
      PROVE  /\ e.revision <= manifest'[e.arena].revision
             /\ e.revision = manifest'[e.arena].revision
                    => manifest'[e.arena].stage = "finalized"
  <2>1. /\ e.arena = victim /\ e.revision = view.revision /\ ~Unfinished(view)
        /\ manifest' = manifest /\ pc[p] = "probe"
      BY <1>3 DEF ProbeLock
  <2>2. victim \in Arena
      BY <2>1 DEF Inv, PlaceOK
  <2>3. manifest[victim].stage \in Stage
      BY <2>1, <2>2, ManifestFields DEF Exists, Inv, TypeOK, DiskType
  <2> QED
      BY <2>1, <2>2, <2>3 DEF Exists, Unfinished, Stage, Inv, RetirementInv, ViewIsOld
<1> QED
    BY <1>1, <1>2, <1>3

\* A plan does not outlive its pass.
LEMMA PlanFollowsPlaceStep ==
    ASSUME Inv, Next
    PROVE  PlanFollowsPlace'
<1>1. ASSUME NEW p \in Process,
           \/ StartCollection(p) \/ OpenStore(p)
    PROVE  PlanFollowsPlace'
  <2>1. UNCHANGED <<plan, records, nonce, collection>> /\ \A q \in Process : pc'[q] \in Collecting \/ pc[q] \in Collecting => pc'[q] = pc[q]
    BY <1>1 DEF Inv, TypeOK, ProcessType, PlaceOK, LeaseFollowsPlace, Admitting,
       Collecting, Retiring, StartCollection, OpenStore
  <2> QED
    BY <2>1 DEF Inv, RetirementInv, PlanFollowsPlace, Collecting
<1>2. ASSUME NEW a \in Arena,
           \/ CargoExits(a) \/ Recover(a)
           \/ (\E pin \in BOOLEAN : UpdatePin(a, pin)) \/ PinExpires(a)
           \/ WorktreeChanges(a)
    PROVE  PlanFollowsPlace'
  <2>1. UNCHANGED <<plan, records, nonce, collection>> /\ \A q \in Process : pc'[q] \in Collecting \/ pc[q] \in Collecting => pc'[q] = pc[q]
    BY <1>2 DEF Inv, TypeOK, ProcessType, PlaceOK, LeaseFollowsPlace, Admitting,
       Collecting, Retiring, CargoExits, Recover, UpdatePin, PinExpires,
       WorktreeChanges
  <2> QED
    BY <2>1 DEF Inv, RetirementInv, PlanFollowsPlace, Collecting
<1>3. ASSUME NEW p \in Process, NEW a \in Arena, StartBuild(p, a)
    PROVE  PlanFollowsPlace'
    BY <1>3, ArenaStoreAssumption DEF StartBuild, Inv, TypeOK, ProcessType, PlaceOK,
       LeaseFollowsPlace, Admitting, Collecting, Retiring, RetirementInv,
       PlanFollowsPlace
<1>4. ASSUME NEW p \in Process, AcquireCollection(p)
    PROVE  PlanFollowsPlace'
    BY <1>4, ArenaStoreAssumption DEF AcquireCollection, Inv, TypeOK, ProcessType,
       PlaceOK, LeaseFollowsPlace, Admitting, Collecting, Retiring, RetirementInv,
       PlanFollowsPlace
<1>5. ASSUME NEW p \in Process, TryArena(p)
    PROVE  PlanFollowsPlace'
    BY <1>5, ArenaStoreAssumption DEF TryArena, Inv, TypeOK, ProcessType, PlaceOK,
       LeaseFollowsPlace, Admitting, Collecting, Retiring, RetirementInv,
       PlanFollowsPlace
<1>6. ASSUME NEW p \in Process, WaitArena(p)
    PROVE  PlanFollowsPlace'
    BY <1>6, ArenaStoreAssumption DEF WaitArena, Inv, TypeOK, ProcessType, PlaceOK,
       LeaseFollowsPlace, Admitting, Collecting, Retiring, RetirementInv,
       PlanFollowsPlace
<1>7. ASSUME NEW p \in Process, LeaseExisting(p)
    PROVE  PlanFollowsPlace'
    BY <1>7, ArenaStoreAssumption DEF LeaseExisting, StartReconciliation, Inv, TypeOK,
       ProcessType, PlaceOK, LeaseFollowsPlace, Admitting, Collecting, Retiring,
       RetirementInv, PlanFollowsPlace
<1>8. ASSUME NEW p \in Process, LeaseNew(p)
    PROVE  PlanFollowsPlace'
    BY <1>8, ArenaStoreAssumption DEF LeaseNew, StartReconciliation, Inv, TypeOK,
       ProcessType, PlaceOK, LeaseFollowsPlace, Admitting, Collecting, Retiring,
       RetirementInv, PlanFollowsPlace
<1>9. ASSUME NEW p \in Process, LeaseNewInterrupted(p)
    PROVE  PlanFollowsPlace'
    BY <1>9, ArenaStoreAssumption DEF LeaseNewInterrupted, Leave, Unlock, Inv, TypeOK,
       ProcessType, PlaceOK, LeaseFollowsPlace, Admitting, Collecting, Retiring,
       RetirementInv, PlanFollowsPlace
<1>10. ASSUME NEW p \in Process, LeaseRefused(p)
    PROVE  PlanFollowsPlace'
    BY <1>10, ArenaStoreAssumption DEF LeaseRefused, Leave, Unlock, Inv, TypeOK,
       ProcessType, PlaceOK, LeaseFollowsPlace, Admitting, Collecting, Retiring,
       RetirementInv, PlanFollowsPlace
<1>11. ASSUME NEW p \in Process, ReconcileRecord(p)
    PROVE  PlanFollowsPlace'
    BY <1>11, ArenaStoreAssumption DEF ReconcileRecord, CompleteRecord,
       ResumeRetirement, DeleteRetired, RecordFails, SkipRecord, TakeVictim, Inv,
       TypeOK, ProcessType, PlaceOK, LeaseFollowsPlace, Admitting, Collecting,
       Retiring, RetirementInv, PlanFollowsPlace
<1>12. ASSUME NEW p \in Process, EndReconcile(p)
    PROVE  PlanFollowsPlace'
    BY <1>12, ArenaStoreAssumption DEF EndReconcile, Inv, TypeOK, ProcessType, PlaceOK,
       LeaseFollowsPlace, Admitting, Collecting, Retiring, RetirementInv,
       PlanFollowsPlace
<1>13. ASSUME NEW p \in Process, RepairIntent(p)
    PROVE  PlanFollowsPlace'
    BY <1>13, ArenaStoreAssumption DEF RepairIntent, Inv, TypeOK, ProcessType, PlaceOK,
       LeaseFollowsPlace, Admitting, Collecting, Retiring, RetirementInv,
       PlanFollowsPlace
<1>14. ASSUME NEW p \in Process, RepairFails(p)
    PROVE  PlanFollowsPlace'
    BY <1>14, ArenaStoreAssumption DEF RepairFails, AbortCollection, ForgetPass, Leave,
       Unlock, Inv, TypeOK, ProcessType, PlaceOK, LeaseFollowsPlace, Admitting,
       Collecting, Retiring, RetirementInv, PlanFollowsPlace
<1>15. ASSUME NEW p \in Process, CollectionFails(p)
    PROVE  PlanFollowsPlace'
    BY <1>15, ArenaStoreAssumption DEF CollectionFails, AbortCollection, ForgetPass,
       Leave, Unlock, Inv, TypeOK, ProcessType, PlaceOK, LeaseFollowsPlace, Admitting,
       Collecting, Retiring, RetirementInv, PlanFollowsPlace
<1>16. ASSUME NEW p \in Process, EndRepair(p)
    PROVE  PlanFollowsPlace'
    BY <1>16, ArenaStoreAssumption DEF EndRepair, ForgetPass, Leave, Unlock, Inv,
       TypeOK, ProcessType, PlaceOK, LeaseFollowsPlace, Admitting, Collecting,
       Retiring, RetirementInv, PlanFollowsPlace
<1>17. ASSUME NEW p \in Process, ReadManifest(p)
    PROVE  PlanFollowsPlace'
    BY <1>17, ArenaStoreAssumption DEF ReadManifest, Inv, TypeOK, ProcessType, PlaceOK,
       LeaseFollowsPlace, Admitting, Collecting, Retiring, RetirementInv,
       PlanFollowsPlace
<1>18. ASSUME NEW p \in Process, ProbeLock(p)
    PROVE  PlanFollowsPlace'
    BY <1>18, ArenaStoreAssumption DEF ProbeLock, Inv, TypeOK, ProcessType, PlaceOK,
       LeaseFollowsPlace, Admitting, Collecting, Retiring, RetirementInv,
       PlanFollowsPlace
<1>19. ASSUME NEW p \in Process, EndScan(p)
    PROVE  PlanFollowsPlace'
    BY <1>19, ArenaStoreAssumption DEF EndScan, AbortCollection, ForgetPass, Leave,
       Unlock, Inv, TypeOK, ProcessType, PlaceOK, LeaseFollowsPlace, Admitting,
       Collecting, Retiring, RetirementInv, PlanFollowsPlace
<1>20. ASSUME NEW p \in Process, Retire(p)
    PROVE  PlanFollowsPlace'
    BY <1>20, ArenaStoreAssumption DEF Retire, TakeVictim, Inv, TypeOK, ProcessType,
       PlaceOK, LeaseFollowsPlace, Admitting, Collecting, Retiring, RetirementInv,
       PlanFollowsPlace
<1>21. ASSUME NEW p \in Process, SkipEviction(p)
    PROVE  PlanFollowsPlace'
    BY <1>21, ArenaStoreAssumption DEF SkipEviction, Inv, TypeOK, ProcessType, PlaceOK,
       LeaseFollowsPlace, Admitting, Collecting, Retiring, RetirementInv,
       PlanFollowsPlace
<1>22. ASSUME NEW p \in Process, EndRetire(p)
    PROVE  PlanFollowsPlace'
    BY <1>22, ArenaStoreAssumption DEF EndRetire, ForgetPass, Leave, Unlock, Inv,
       TypeOK, ProcessType, PlaceOK, LeaseFollowsPlace, Admitting, Collecting,
       Retiring, RetirementInv, PlanFollowsPlace
<1>23. ASSUME NEW p \in Process, CreateJournal(p)
    PROVE  PlanFollowsPlace'
    BY <1>23, ArenaStoreAssumption DEF CreateJournal, Step, Return, Inv, TypeOK,
       ProcessType, PlaceOK, LeaseFollowsPlace, Admitting, Collecting, Retiring,
       RetirementInv, PlanFollowsPlace
<1>24. ASSUME NEW p \in Process, RenameArena(p)
    PROVE  PlanFollowsPlace'
    BY <1>24, ArenaStoreAssumption DEF RenameArena, Step, Return, Inv, TypeOK,
       ProcessType, PlaceOK, LeaseFollowsPlace, Admitting, Collecting, Retiring,
       RetirementInv, PlanFollowsPlace
<1>25. ASSUME NEW p \in Process, PurgeTrash(p)
    PROVE  PlanFollowsPlace'
    BY <1>25, ArenaStoreAssumption DEF PurgeTrash, Step, Return, Inv, TypeOK,
       ProcessType, PlaceOK, LeaseFollowsPlace, Admitting, Collecting, Retiring,
       RetirementInv, PlanFollowsPlace
<1>26. ASSUME NEW p \in Process, RemoveJournal(p)
    PROVE  PlanFollowsPlace'
    BY <1>26, ArenaStoreAssumption DEF RemoveJournal, Return, Inv, TypeOK, ProcessType,
       PlaceOK, LeaseFollowsPlace, Admitting, Collecting, Retiring, RetirementInv,
       PlanFollowsPlace
<1>27. ASSUME NEW p \in Process, AbortAdmitted(p)
    PROVE  PlanFollowsPlace'
    BY <1>27, ArenaStoreAssumption DEF AbortAdmitted, Inv, TypeOK, ProcessType,
       PlaceOK, LeaseFollowsPlace, Admitting, Collecting, Retiring, RetirementInv,
       PlanFollowsPlace
<1>28. ASSUME NEW p \in Process, MarkSpawning(p)
    PROVE  PlanFollowsPlace'
    BY <1>28, ArenaStoreAssumption DEF MarkSpawning, Transition, Inv, TypeOK,
       ProcessType, PlaceOK, LeaseFollowsPlace, Admitting, Collecting, Retiring,
       RetirementInv, PlanFollowsPlace
<1>29. ASSUME NEW p \in Process, Fork(p)
    PROVE  PlanFollowsPlace'
    BY <1>29, ArenaStoreAssumption DEF Fork, Inv, TypeOK, ProcessType, PlaceOK,
       LeaseFollowsPlace, Admitting, Collecting, Retiring, RetirementInv,
       PlanFollowsPlace
<1>30. ASSUME NEW p \in Process, MarkSpawned(p)
    PROVE  PlanFollowsPlace'
    BY <1>30, ArenaStoreAssumption DEF MarkSpawned, Transition, Inv, TypeOK,
       ProcessType, PlaceOK, LeaseFollowsPlace, Admitting, Collecting, Retiring,
       RetirementInv, PlanFollowsPlace
<1>31. ASSUME NEW p \in Process, SupervisionFails(p)
    PROVE  PlanFollowsPlace'
    BY <1>31, ArenaStoreAssumption DEF SupervisionFails, Inv, TypeOK, ProcessType,
       PlaceOK, LeaseFollowsPlace, Admitting, Collecting, Retiring, RetirementInv,
       PlanFollowsPlace
<1>32. ASSUME NEW p \in Process, TreeExits(p)
    PROVE  PlanFollowsPlace'
    BY <1>32, ArenaStoreAssumption DEF TreeExits, Inv, TypeOK, ProcessType, PlaceOK,
       LeaseFollowsPlace, Admitting, Collecting, Retiring, RetirementInv,
       PlanFollowsPlace
<1>33. ASSUME NEW p \in Process, LeaveSuspect(p)
    PROVE  PlanFollowsPlace'
    BY <1>33, ArenaStoreAssumption DEF LeaveSuspect, Leave, Unlock, Inv, TypeOK,
       ProcessType, PlaceOK, LeaseFollowsPlace, Admitting, Collecting, Retiring,
       RetirementInv, PlanFollowsPlace
<1>34. ASSUME NEW p \in Process, Finish(p)
    PROVE  PlanFollowsPlace'
    BY <1>34, ArenaStoreAssumption DEF Finish, Unlock, Inv, TypeOK, ProcessType,
       PlaceOK, LeaseFollowsPlace, Admitting, Collecting, Retiring, RetirementInv,
       PlanFollowsPlace
<1>35. ASSUME NEW p \in Process, FinishFails(p)
    PROVE  PlanFollowsPlace'
    BY <1>35, ArenaStoreAssumption DEF FinishFails, Inv, TypeOK, ProcessType, PlaceOK,
       LeaseFollowsPlace, Admitting, Collecting, Retiring, RetirementInv,
       PlanFollowsPlace
<1>36. ASSUME NEW p \in Process, DropLease(p)
    PROVE  PlanFollowsPlace'
    BY <1>36, ArenaStoreAssumption DEF DropLease, Leave, Unlock, Inv, TypeOK,
       ProcessType, PlaceOK, LeaseFollowsPlace, Admitting, Collecting, Retiring,
       RetirementInv, PlanFollowsPlace
<1>37. ASSUME NEW p \in Process, Crash(p)
    PROVE  PlanFollowsPlace'
    BY <1>37, ArenaStoreAssumption DEF Crash, ForgetPass, Leave, Unlock, Inv, TypeOK,
       ProcessType, PlaceOK, LeaseFollowsPlace, Admitting, Collecting, Retiring,
       RetirementInv, PlanFollowsPlace
<1> QED
    BY <1>1, <1>2, <1>3, <1>4, <1>5, <1>6, <1>7, <1>8, <1>9, <1>10, <1>11, <1>12,
       <1>13, <1>14, <1>15, <1>16, <1>17, <1>18, <1>19, <1>20, <1>21, <1>22, <1>23,
       <1>24, <1>25, <1>26, <1>27, <1>28, <1>29, <1>30, <1>31, <1>32, <1>33, <1>34,
       <1>35, <1>36, <1>37
       DEF Next, Admit, Collect, Build, Start, Environment

\* From the intent to the end, a retirement is in the hands of one process.
LEMMA VictimKept ==
    ASSUME Inv, Next, NEW q \in Process, pc'[q] \in {"journal", "rename", "unjournal"},
           ~Retire(q), ~CreateJournal(q), ~PurgeTrash(q)
    PROVE  pc[q] = pc'[q] /\ UNCHANGED <<victim, nonce, journal, trash>>
<1>1. ASSUME NEW p \in Process,
           \/ StartCollection(p) \/ OpenStore(p)
           \/ (\E a \in Arena : StartBuild(p, a)) \/ AcquireCollection(p)
           \/ TryArena(p) \/ WaitArena(p) \/ LeaseExisting(p) \/ LeaseNew(p)
           \/ LeaseNewInterrupted(p)
    PROVE  pc[q] = pc'[q] /\ UNCHANGED <<victim, nonce, journal, trash>>
  <2>1. pc[q] = pc'[q] /\ UNCHANGED <<victim, nonce, journal, trash>>
    BY <1>1 DEF Inv, TypeOK, ProcessType, PlaceOK, LeaseFollowsPlace, Admitting,
       Collecting, Retiring, StartCollection, OpenStore, StartBuild, AcquireCollection,
       TryArena, WaitArena, LeaseExisting, LeaseNew, LeaseNewInterrupted,
       StartReconciliation, Leave, Unlock
  <2> QED
    BY <2>1
<1>2. ASSUME NEW p \in Process,
           \/ LeaseRefused(p) \/ ReconcileRecord(p) \/ EndReconcile(p)
           \/ RepairIntent(p) \/ RepairFails(p) \/ CollectionFails(p)
           \/ EndRepair(p) \/ ReadManifest(p) \/ ProbeLock(p)
    PROVE  pc[q] = pc'[q] /\ UNCHANGED <<victim, nonce, journal, trash>>
  <2>1. pc[q] = pc'[q] /\ UNCHANGED <<victim, nonce, journal, trash>>
    BY <1>2 DEF Inv, TypeOK, ProcessType, PlaceOK, LeaseFollowsPlace, Admitting,
       Collecting, Retiring, LeaseRefused, ReconcileRecord, EndReconcile, RepairIntent,
       RepairFails, CollectionFails, EndRepair, ReadManifest, ProbeLock, Leave, Unlock,
       CompleteRecord, ResumeRetirement, DeleteRetired, RecordFails, SkipRecord,
       TakeVictim, AbortCollection, ForgetPass
  <2> QED
    BY <2>1
<1>3. ASSUME NEW p \in Process,
           \/ EndScan(p) \/ SkipEviction(p) \/ EndRetire(p) \/ RenameArena(p)
           \/ RemoveJournal(p) \/ AbortAdmitted(p) \/ MarkSpawning(p) \/ Fork(p)
           \/ MarkSpawned(p)
    PROVE  pc[q] = pc'[q] /\ UNCHANGED <<victim, nonce, journal, trash>>
  <2>1. pc[q] = pc'[q] /\ UNCHANGED <<victim, nonce, journal, trash>>
    BY <1>3 DEF Inv, TypeOK, ProcessType, PlaceOK, LeaseFollowsPlace, Admitting,
       Collecting, Retiring, EndScan, SkipEviction, EndRetire, RenameArena,
       RemoveJournal, AbortAdmitted, MarkSpawning, Fork, MarkSpawned, AbortCollection,
       ForgetPass, Leave, Unlock, Step, Return, Transition
  <2> QED
    BY <2>1
<1>4. ASSUME NEW p \in Process,
           \/ SupervisionFails(p) \/ TreeExits(p) \/ LeaveSuspect(p)
           \/ Finish(p) \/ FinishFails(p) \/ DropLease(p) \/ Crash(p)
    PROVE  pc[q] = pc'[q] /\ UNCHANGED <<victim, nonce, journal, trash>>
  <2>1. pc[q] = pc'[q] /\ UNCHANGED <<victim, nonce, journal, trash>>
    BY <1>4 DEF Inv, TypeOK, ProcessType, PlaceOK, LeaseFollowsPlace, Admitting,
       Collecting, Retiring, SupervisionFails, TreeExits, LeaveSuspect, Finish,
       FinishFails, DropLease, Crash, Leave, Unlock, ForgetPass
  <2> QED
    BY <2>1
<1>5. ASSUME NEW a \in Arena,
           \/ CargoExits(a) \/ Recover(a)
           \/ (\E pin \in BOOLEAN : UpdatePin(a, pin)) \/ PinExpires(a)
           \/ WorktreeChanges(a)
    PROVE  pc[q] = pc'[q] /\ UNCHANGED <<victim, nonce, journal, trash>>
  <2>1. pc[q] = pc'[q] /\ UNCHANGED <<victim, nonce, journal, trash>>
    BY <1>5 DEF Inv, TypeOK, ProcessType, PlaceOK, LeaseFollowsPlace, Admitting,
       Collecting, Retiring, CargoExits, Recover, UpdatePin, PinExpires,
       WorktreeChanges
  <2> QED
    BY <2>1
<1>6. ASSUME NEW p \in Process, Retire(p)
    PROVE  pc[q] = pc'[q] /\ UNCHANGED <<victim, nonce, journal, trash>>
  <2>1. p # q /\ pc[p] = "retire"
      BY ZenonT(60), <1>6 DEF Retire
  <2>2. pc'[q] = pc[q]
      BY <1>6, <2>1 DEF Retire, TakeVictim, Inv, TypeOK, ProcessType
  <2> QED
      BY <2>1, <2>2 DEF Inv, PlaceOK, Collecting, Retiring
<1>7. ASSUME NEW p \in Process, CreateJournal(p)
    PROVE  pc[q] = pc'[q] /\ UNCHANGED <<victim, nonce, journal, trash>>
    BY <1>7 DEF CreateJournal, Step, Return, Inv, TypeOK, ProcessType, PlaceOK,
       LeaseFollowsPlace, Admitting, Collecting, Retiring
<1>8. ASSUME NEW p \in Process, PurgeTrash(p)
    PROVE  pc[q] = pc'[q] /\ UNCHANGED <<victim, nonce, journal, trash>>
    BY <1>8 DEF PurgeTrash, Step, Return, Inv, TypeOK, ProcessType, PlaceOK,
       LeaseFollowsPlace, Admitting, Collecting, Retiring
<1> QED
    BY <1>1, <1>2, <1>3, <1>4, <1>5, <1>6, <1>7, <1>8
       DEF Next, Admit, Collect, Build, Start, Environment

\* One process collects at a time, and admissions wait for it.
LEMMA CollectorAlone ==
    ASSUME Inv, NEW q \in Process, pc[q] \in Collecting
    PROVE  /\ collection = q /\ collection # Nobody
           /\ \A p \in Process : pc[p] \in {"tryArena", "lease"} \cup Collecting => p = q
BY ArenaStoreAssumption DEF Inv, PlaceOK

\* Nothing touches the manifest of the victim between the intent and the rename.
LEMMA VictimUntouched ==
    ASSUME Inv, Next, NEW q \in Process, pc[q] \in {"journal", "rename"}, pc'[q] = pc[q]
    PROVE  /\ manifest'[victim].stage = manifest[victim].stage
           /\ manifest'[victim].retirement = manifest[victim].retirement
           /\ manifest'[victim].pinned => manifest[victim].pinned
<1> DEFINE SameVictim ==
               /\ manifest'[victim].stage = manifest[victim].stage
               /\ manifest'[victim].retirement = manifest[victim].retirement
               /\ manifest'[victim].pinned => manifest[victim].pinned
<1>0. /\ victim \in Arena /\ pc[q] \in Collecting /\ manifest[victim].stage = "finalized"
      /\ ~manifest[victim].pinned /\ ~MetadataFree(victim)
    BY DEF Inv, PlaceOK, RetirementInv, VictimIsRetirable, Collecting, Retiring, MetadataFree
<1>1. ASSUME NEW p \in Process,
           \/ StartCollection(p) \/ (\E a \in Arena : StartBuild(p, a))
           \/ AcquireCollection(p) \/ TryArena(p) \/ WaitArena(p)
           \/ EndReconcile(p) \/ CollectionFails(p) \/ EndRepair(p)
           \/ ReadManifest(p) \/ ProbeLock(p) \/ EndScan(p) \/ SkipEviction(p)
           \/ EndRetire(p) \/ CreateJournal(p) \/ PurgeTrash(p)
           \/ RemoveJournal(p) \/ AbortAdmitted(p) \/ Fork(p)
           \/ SupervisionFails(p) \/ TreeExits(p) \/ LeaveSuspect(p)
           \/ FinishFails(p) \/ Crash(p)
    PROVE  SameVictim
  <2>1. manifest' = manifest
    BY <1>1 DEF StartCollection, StartBuild, AcquireCollection, TryArena, WaitArena,
       EndReconcile, CollectionFails, EndRepair, ReadManifest, ProbeLock, EndScan,
       SkipEviction, EndRetire, CreateJournal, PurgeTrash, RemoveJournal,
       AbortAdmitted, Fork, SupervisionFails, TreeExits, LeaveSuspect, FinishFails,
       Crash, AbortCollection, ForgetPass, Leave, Unlock, Step, Return
  <2> QED
    BY <2>1
<1>2. ASSUME NEW a \in Arena,
           \/ CargoExits(a) \/ WorktreeChanges(a)
    PROVE  SameVictim
  <2>1. manifest' = manifest
    BY <1>2 DEF CargoExits, WorktreeChanges
  <2> QED
    BY <2>1
<1>3. ASSUME NEW p \in Process, OpenStore(p)
    PROVE  SameVictim
    BY <1>3, CollectorAlone DEF OpenStore, Collecting
<1>4. ASSUME NEW p \in Process, LeaseExisting(p)
    PROVE  SameVictim
    BY <1>4, CollectorAlone DEF LeaseExisting, Collecting
<1>5. ASSUME NEW p \in Process, LeaseNew(p)
    PROVE  SameVictim
    BY <1>5, CollectorAlone DEF LeaseNew, Collecting
<1>6. ASSUME NEW p \in Process, LeaseNewInterrupted(p)
    PROVE  SameVictim
    BY <1>6, CollectorAlone DEF LeaseNewInterrupted, Collecting
<1>7. ASSUME NEW p \in Process, LeaseRefused(p)
    PROVE  SameVictim
    BY <1>7, CollectorAlone DEF LeaseRefused, Collecting
<1>8. ASSUME NEW p \in Process, ReconcileRecord(p)
    PROVE  SameVictim
    BY <1>8, CollectorAlone DEF ReconcileRecord, Collecting
<1>9. ASSUME NEW p \in Process, RepairIntent(p)
    PROVE  SameVictim
    BY <1>9, CollectorAlone DEF RepairIntent, Collecting
<1>10. ASSUME NEW p \in Process, RepairFails(p)
    PROVE  SameVictim
    BY <1>10, CollectorAlone DEF RepairFails, Collecting
<1>11. ASSUME NEW p \in Process, Retire(p)
    PROVE  SameVictim
    BY <1>11, CollectorAlone DEF Retire, Collecting
<1>12. ASSUME NEW p \in Process, RenameArena(p)
    PROVE  SameVictim
  <2>1. p = q
      BY <1>12, CollectorAlone DEF RenameArena, Collecting
  <2> QED
      BY <1>12, <2>1 DEF RenameArena, Step, Return, Inv, TypeOK, ProcessType
<1>13. ASSUME NEW p \in Process, MarkSpawning(p)
    PROVE  SameVictim
    BY <1>13, MarkSpawningEffect, <1>0 DEF Inv, Advanced, Others, Unfinished
<1>14. ASSUME NEW p \in Process, MarkSpawned(p)
    PROVE  SameVictim
    BY <1>14, MarkSpawnedEffect, <1>0 DEF Inv, Advanced, Others, Unfinished
<1>15. ASSUME NEW p \in Process, Finish(p)
    PROVE  SameVictim
    BY <1>15, FinishEffect, <1>0 DEF Inv, Advanced, Others, Unfinished
<1>16. ASSUME NEW p \in Process, DropLease(p)
    PROVE  SameVictim
    BY <1>16, DropLeaseEffect, <1>0 DEF Inv, Advanced, Others, Unfinished
<1>17. ASSUME NEW a \in Arena, Recover(a)
    PROVE  SameVictim
    BY <1>17, RecoverEffect, <1>0 DEF Inv, Advanced, Others, Unfinished
<1>18. ASSUME NEW a \in Arena, NEW pin \in BOOLEAN, UpdatePin(a, pin)
    PROVE  SameVictim
    BY <1>18, UpdatePinEffect, <1>0 DEF Inv, Repinned, Advanced, Others, MetadataFree
<1>19. ASSUME NEW a \in Arena, PinExpires(a)
    PROVE  SameVictim
    BY <1>19, PinExpiresEffect, <1>0 DEF Inv, Expired, Others
<1> QED
    BY <1>1, <1>2, <1>3, <1>4, <1>5, <1>6, <1>7, <1>8, <1>9, <1>10, <1>11, <1>12,
       <1>13, <1>14, <1>15, <1>16, <1>17, <1>18, <1>19
       DEF Next, Admit, Collect, Build, Start, Environment

\* From its re-checks to the rename, a retirement has an idle, unpinned arena in hand.
LEMMA VictimIsRetirableStep ==
    ASSUME Inv, Next
    PROVE  VictimIsRetirable'
<1> DEFINE Retirable(q) ==
               /\ pc[q] \in {"journal", "rename"} =>
                     /\ manifest[victim].stage = "finalized" /\ ~manifest[victim].pinned
                     /\ nonce \notin trash
               /\ pc[q] = "journal" => manifest[victim].retirement = nonce
               /\ pc[q] = "rename" => JournalOf(nonce) # {}
               /\ pc[q] = "unjournal" => nonce \notin trash
<1> SUFFICES ASSUME NEW q \in Process, Retirable(q), pc'[q] \in {"journal", "rename", "unjournal"}
             PROVE  Retirable(q)'
    BY DEF VictimIsRetirable, Inv, RetirementInv
<1>1. CASE Retire(q)
  <2>1. PICK e \in plan, id \in RetirementId :
            /\ e.arena \in Arena /\ StillEvictable(e) /\ Fresh(id) /\ Intended(e.arena, id)
            /\ \/ TakeVictim(q, e.arena, id, "journal")
               \/ UNCHANGED <<lockVars, pc, records, victim, nonce>>
      BY <1>1, RetireEffect DEF Inv
  <2>2. pc[q] = "retire" /\ trash' = trash
      BY <1>1 DEF Retire
  <2>3. TakeVictim(q, e.arena, id, "journal")
      BY <2>1, <2>2
  <2>4. victim' = e.arena /\ nonce' = id /\ pc'[q] = "journal"
      BY <2>3 DEF TakeVictim, Inv, TypeOK, ProcessType
  <2>5. manifest[e.arena].stage = "finalized" /\ ~manifest[e.arena].pinned
      BY <2>1 DEF StillEvictable, Inv, RetirementInv, PlanIsOld
  <2>6. id \notin trash
      BY <2>1 DEF Inv, RetirementInv, UsedIds
  <2> QED
      BY <2>1, <2>2, <2>4, <2>5, <2>6 DEF Intended
<1>2. CASE CreateJournal(q)
  <2>1. pc[q] = "journal" /\ UNCHANGED <<manifest, trash>>
      BY <1>2 DEF CreateJournal
  <2>2. /\ pc'[q] = "rename" /\ UNCHANGED <<victim, nonce>>
        /\ journal' = journal \cup {[id |-> nonce, arena |-> victim, revision |-> manifest[victim].revision]}
      BY <1>2 DEF CreateJournal, Step, Return, Inv, TypeOK, ProcessType
  <2> DEFINE rec == [id |-> nonce, arena |-> victim, revision |-> manifest[victim].revision]
  <2>3. rec \in journal' /\ rec.id = nonce'
      BY <2>2
  <2>4. JournalOf(nonce)' # {}
      BY <2>3 DEF JournalOf
  <2> QED
      BY <2>1, <2>2, <2>4
<1>3. CASE PurgeTrash(q)
  <2>1. pc'[q] = "unjournal" /\ nonce' = nonce /\ trash' = trash \ {nonce}
      BY <1>3 DEF PurgeTrash, Step, Return, Inv, TypeOK, ProcessType
  <2> QED
      BY <2>1
<1>4. CASE ~Retire(q) /\ ~CreateJournal(q) /\ ~PurgeTrash(q)
  <2>1. pc[q] = pc'[q] /\ UNCHANGED <<victim, nonce, journal, trash>>
      BY <1>4, VictimKept
  <2> QED
      BY <2>1, VictimUntouched DEF JournalOf
<1> QED
    BY <1>1, <1>2, <1>3, <1>4

\* Only CreateJournal adds a journal.
LEMMA JournalsAreOld ==
    ASSUME Inv, Next, \A p \in Process : ~CreateJournal(p)
    PROVE  journal' \subseteq journal
<1>1. ASSUME NEW p \in Process,
           \/ StartCollection(p) \/ OpenStore(p)
           \/ (\E a \in Arena : StartBuild(p, a)) \/ AcquireCollection(p)
           \/ TryArena(p) \/ WaitArena(p) \/ LeaseExisting(p) \/ LeaseNew(p)
           \/ LeaseNewInterrupted(p) \/ LeaseRefused(p) \/ ReconcileRecord(p)
           \/ EndReconcile(p) \/ RepairIntent(p) \/ RepairFails(p)
           \/ CollectionFails(p) \/ EndRepair(p) \/ ReadManifest(p)
           \/ ProbeLock(p) \/ EndScan(p) \/ Retire(p) \/ SkipEviction(p)
           \/ EndRetire(p) \/ RenameArena(p) \/ PurgeTrash(p)
           \/ RemoveJournal(p) \/ AbortAdmitted(p) \/ MarkSpawning(p) \/ Fork(p)
           \/ MarkSpawned(p) \/ SupervisionFails(p) \/ TreeExits(p)
           \/ LeaveSuspect(p) \/ Finish(p) \/ FinishFails(p) \/ DropLease(p)
           \/ Crash(p)
    PROVE  journal' \subseteq journal
  <2>1. journal' \subseteq journal
    BY <1>1 DEF StartCollection, OpenStore, StartBuild, AcquireCollection, TryArena,
       WaitArena, LeaseExisting, LeaseNew, LeaseNewInterrupted, LeaseRefused,
       ReconcileRecord, EndReconcile, RepairIntent, RepairFails, CollectionFails,
       EndRepair, ReadManifest, ProbeLock, EndScan, Retire, SkipEviction, EndRetire,
       RenameArena, PurgeTrash, RemoveJournal, AbortAdmitted, MarkSpawning, Fork,
       MarkSpawned, SupervisionFails, TreeExits, LeaveSuspect, Finish, FinishFails,
       DropLease, Crash, CompleteRecord, ResumeRetirement, DeleteRetired, RecordFails,
       SkipRecord, TakeVictim, Step, Return, Transition
  <2> QED
    BY <2>1
<1>2. ASSUME NEW a \in Arena,
           \/ CargoExits(a) \/ Recover(a)
           \/ (\E pin \in BOOLEAN : UpdatePin(a, pin)) \/ PinExpires(a)
           \/ WorktreeChanges(a)
    PROVE  journal' \subseteq journal
  <2>1. journal' \subseteq journal
    BY <1>2 DEF CargoExits, Recover, UpdatePin, PinExpires, WorktreeChanges
  <2> QED
    BY <2>1
<1>3. ASSUME NEW p \in Process, CreateJournal(p)
    PROVE  journal' \subseteq journal
    BY <1>3 DEF CreateJournal, Step, Return
<1> QED
    BY <1>1, <1>2, <1>3
       DEF Next, Admit, Collect, Build, Start, Environment

\* The journal that CreateJournal may write names the victim as it is.
LEMMA CreateJournalEffect ==
    ASSUME Inv, NEW p \in Process, CreateJournal(p), NEW rec \in journal', rec \notin journal
    PROVE  /\ victim \in Arena /\ rec.arena = victim /\ rec.id = nonce /\ nonce \in RetirementId
           /\ rec.revision = manifest[victim].revision /\ manifest[victim].retirement = nonce
           /\ ~manifest[victim].pinned /\ manifest' = manifest /\ basis' = basis
<1>1. victim \in Arena /\ nonce \in RetirementId /\ pc[p] = "journal"
    BY DEF CreateJournal, Inv, PlaceOK, Retiring
<1>2. manifest' = manifest /\ basis' = basis
    BY DEF CreateJournal
<1>3. rec = [id |-> nonce, arena |-> victim, revision |-> manifest[victim].revision]
    BY DEF CreateJournal
<1>4. manifest[victim].retirement = nonce /\ ~manifest[victim].pinned
    BY <1>1 DEF Inv, RetirementInv, VictimIsRetirable
<1> QED
    BY <1>1, <1>2, <1>3, <1>4

\* A journal was written for a quiescent manifest, which is the current one or an older
\* one.
LEMMA JournalIsOldStep ==
    ASSUME Inv, Next
    PROVE  JournalIsOld'
<1> SUFFICES ASSUME NEW rec \in journal', manifest'[rec.arena].retirement = rec.id
             PROVE  /\ rec.revision <= manifest'[rec.arena].revision
                    /\ rec.revision = manifest'[rec.arena].revision => ~manifest'[rec.arena].pinned
    BY DEF JournalIsOld
<1>1. CASE rec \in journal
  <2>1. /\ rec.arena \in Arena /\ rec.revision \in Nat /\ rec.id \in RetirementId /\ rec.id # None
        /\ ~Fresh(rec.id)
    BY <1>1, ArenaStoreAssumption DEF Inv, TypeOK, DiskType, RetirementRecord,
       RetirementInv, UsedIds
  <2>2. manifest[rec.arena] \in Manifest
      BY <2>1 DEF Inv, TypeOK, DiskType
  <2>3. Moved(rec.arena)
      BY <2>1, ManifestMoves
  <2>4. manifest[rec.arena].retirement = rec.id =>
            /\ rec.revision <= manifest[rec.arena].revision
            /\ rec.revision = manifest[rec.arena].revision => ~manifest[rec.arena].pinned
      BY <1>1 DEF Inv, RetirementInv, JournalIsOld
  <2> QED
      BY <2>1, <2>2, <2>3, <2>4, ManifestFields DEF Moved
<1>2. CASE rec \notin journal
  <2>1. PICK p \in Process : CreateJournal(p)
      BY <1>2, JournalsAreOld
  <2>2. /\ rec.arena = victim /\ rec.revision = manifest[victim].revision
        /\ ~manifest[victim].pinned /\ manifest' = manifest /\ manifest[victim] \in Manifest
      BY <1>2, <2>1, CreateJournalEffect DEF Inv, TypeOK, DiskType
  <2> QED
      BY <2>2, ManifestFields
<1> QED
    BY <1>1, <1>2

\* Only a rename adds to the trash, and it moves what a journal has named.
LEMMA TrashIsNamed ==
    ASSUME Inv, Next, NEW id \in trash', id \notin trash
    PROVE  JournalOf(id) # {} /\ JournalOf(id)' # {}
<1>1. ASSUME NEW p \in Process,
           \/ StartCollection(p) \/ OpenStore(p)
           \/ (\E a \in Arena : StartBuild(p, a)) \/ AcquireCollection(p)
           \/ TryArena(p) \/ WaitArena(p) \/ LeaseExisting(p) \/ LeaseNew(p)
           \/ LeaseNewInterrupted(p) \/ LeaseRefused(p) \/ EndReconcile(p)
           \/ RepairIntent(p) \/ RepairFails(p) \/ CollectionFails(p)
           \/ EndRepair(p) \/ ReadManifest(p) \/ ProbeLock(p) \/ EndScan(p)
           \/ Retire(p) \/ SkipEviction(p) \/ EndRetire(p) \/ CreateJournal(p)
           \/ PurgeTrash(p) \/ RemoveJournal(p) \/ AbortAdmitted(p)
           \/ MarkSpawning(p) \/ Fork(p) \/ MarkSpawned(p)
           \/ SupervisionFails(p) \/ TreeExits(p) \/ LeaveSuspect(p)
           \/ Finish(p) \/ FinishFails(p) \/ DropLease(p) \/ Crash(p)
    PROVE  JournalOf(id) # {} /\ JournalOf(id)' # {}
  <2>1. trash' \subseteq trash
    BY <1>1 DEF StartCollection, OpenStore, StartBuild, AcquireCollection, TryArena,
       WaitArena, LeaseExisting, LeaseNew, LeaseNewInterrupted, LeaseRefused,
       EndReconcile, RepairIntent, RepairFails, CollectionFails, EndRepair,
       ReadManifest, ProbeLock, EndScan, Retire, SkipEviction, EndRetire,
       CreateJournal, PurgeTrash, RemoveJournal, AbortAdmitted, MarkSpawning, Fork,
       MarkSpawned, SupervisionFails, TreeExits, LeaveSuspect, Finish, FinishFails,
       DropLease, Crash, Step, Return, Transition
  <2> QED
    BY <2>1
<1>2. ASSUME NEW a \in Arena,
           \/ CargoExits(a) \/ Recover(a)
           \/ (\E pin \in BOOLEAN : UpdatePin(a, pin)) \/ PinExpires(a)
           \/ WorktreeChanges(a)
    PROVE  JournalOf(id) # {} /\ JournalOf(id)' # {}
  <2>1. trash' \subseteq trash
    BY <1>2 DEF CargoExits, Recover, UpdatePin, PinExpires, WorktreeChanges
  <2> QED
    BY <2>1
<1>3. ASSUME NEW p \in Process, ReconcileRecord(p)
    PROVE  JournalOf(id) # {} /\ JournalOf(id)' # {}
  <2>1. PICK rec \in journal : CompleteRecord(rec) \/ ResumeRetirement(p, rec) \/ DeleteRetired(p, rec) \/ RecordFails(rec)
      BY <1>3 DEF ReconcileRecord
  <2>2. id = rec.id /\ journal' = journal
      BY <2>1 DEF CompleteRecord, ResumeRetirement, DeleteRetired, RecordFails, SkipRecord
  <2> QED
      BY <2>2 DEF JournalOf
<1>4. ASSUME NEW p \in Process, RenameArena(p)
    PROVE  JournalOf(id) # {} /\ JournalOf(id)' # {}
  <2>1. id = nonce /\ journal' = journal /\ pc[p] = "rename"
      BY <1>4 DEF RenameArena
  <2> QED
      BY <2>1 DEF JournalOf, Inv, RetirementInv, VictimIsRetirable
<1> QED
    BY <1>1, <1>2, <1>3, <1>4
       DEF Next, Admit, Collect, Build, Start, Environment

\* A journal is deleted when nothing of its arena is left in the trash.
LEMMA JournalOutlivesTrash ==
    ASSUME Inv, Next, NEW id \in trash, JournalOf(id)' = {}
    PROVE  id \notin trash'
<1>1. ASSUME NEW p \in Process,
           \/ StartCollection(p) \/ OpenStore(p)
           \/ (\E a \in Arena : StartBuild(p, a)) \/ AcquireCollection(p)
           \/ TryArena(p) \/ WaitArena(p) \/ LeaseExisting(p) \/ LeaseNew(p)
           \/ LeaseNewInterrupted(p) \/ LeaseRefused(p) \/ EndReconcile(p)
           \/ RepairIntent(p) \/ RepairFails(p) \/ CollectionFails(p)
           \/ EndRepair(p) \/ ReadManifest(p) \/ ProbeLock(p) \/ EndScan(p)
           \/ Retire(p) \/ SkipEviction(p) \/ EndRetire(p) \/ CreateJournal(p)
           \/ PurgeTrash(p) \/ AbortAdmitted(p) \/ MarkSpawning(p) \/ Fork(p)
           \/ MarkSpawned(p) \/ SupervisionFails(p) \/ TreeExits(p)
           \/ LeaveSuspect(p) \/ Finish(p) \/ FinishFails(p) \/ DropLease(p)
           \/ Crash(p)
    PROVE  id \notin trash'
  <2>1. journal \subseteq journal'
    BY <1>1 DEF StartCollection, OpenStore, StartBuild, AcquireCollection, TryArena,
       WaitArena, LeaseExisting, LeaseNew, LeaseNewInterrupted, LeaseRefused,
       EndReconcile, RepairIntent, RepairFails, CollectionFails, EndRepair,
       ReadManifest, ProbeLock, EndScan, Retire, SkipEviction, EndRetire,
       CreateJournal, PurgeTrash, AbortAdmitted, MarkSpawning, Fork, MarkSpawned,
       SupervisionFails, TreeExits, LeaveSuspect, Finish, FinishFails, DropLease,
       Crash, Step, Return, Transition
  <2> QED
    BY <2>1 DEF Inv, RetirementInv, TrashJournaled, JournalOf
<1>2. ASSUME NEW a \in Arena,
           \/ CargoExits(a) \/ Recover(a)
           \/ (\E pin \in BOOLEAN : UpdatePin(a, pin)) \/ PinExpires(a)
           \/ WorktreeChanges(a)
    PROVE  id \notin trash'
  <2>1. journal \subseteq journal'
    BY <1>2 DEF CargoExits, Recover, UpdatePin, PinExpires, WorktreeChanges
  <2> QED
    BY <2>1 DEF Inv, RetirementInv, TrashJournaled, JournalOf
<1>3. ASSUME NEW p \in Process, ReconcileRecord(p)
    PROVE  id \notin trash'
  <2>1. PICK rec \in journal : CompleteRecord(rec) \/ ResumeRetirement(p, rec) \/ DeleteRetired(p, rec) \/ RecordFails(rec)
      BY <1>3 DEF ReconcileRecord
  <2>2. JournalOf(id) # {}
      BY DEF Inv, RetirementInv, TrashJournaled
  <2>3. journal' = journal \/ (rec.id \notin trash /\ journal' = journal \ {rec})
      BY <2>1 DEF CompleteRecord, ResumeRetirement, DeleteRetired, RecordFails, SkipRecord
  <2> QED
      BY <2>2, <2>3 DEF JournalOf
<1>4. ASSUME NEW p \in Process, RenameArena(p)
    PROVE  id \notin trash'
  <2>1. pc[p] = "rename" /\ journal' \in {journal, journal \ JournalOf(nonce)}
      BY <1>4 DEF RenameArena
  <2>2. nonce \notin trash /\ JournalOf(id) # {}
      BY <2>1 DEF Inv, RetirementInv, VictimIsRetirable, TrashJournaled
  <2> QED
      BY <2>1, <2>2 DEF JournalOf
<1>5. ASSUME NEW p \in Process, RemoveJournal(p)
    PROVE  id \notin trash'
  <2>1. pc[p] = "unjournal" /\ journal' \in {journal, journal \ JournalOf(nonce)}
      BY <1>5 DEF RemoveJournal
  <2>2. nonce \notin trash /\ JournalOf(id) # {}
      BY <2>1 DEF Inv, RetirementInv, VictimIsRetirable, TrashJournaled
  <2> QED
      BY <2>1, <2>2 DEF JournalOf
<1> QED
    BY <1>1, <1>2, <1>3, <1>4, <1>5
       DEF Next, Admit, Collect, Build, Start, Environment

\* No step leaves a directory in the trash without a journal.
LEMMA TrashJournaledStep ==
    ASSUME Inv, Next
    PROVE  TrashJournaled'
BY TrashIsNamed, JournalOutlivesTrash DEF TrashJournaled

\* Every retirement id in use has been drawn.
LEMMA UsedIdsStep ==
    ASSUME Inv, Next
    PROVE  UsedIds'
<1>1. ASSUME NEW rec \in journal'
      PROVE  ~Fresh(rec.id)'
  <2>1. CASE rec \in journal
      BY <2>1, FreshOnce DEF Inv, TypeOK, DiskType, RetirementRecord, RetirementInv, UsedIds
  <2>2. CASE rec \notin journal
    <3>1. PICK p \in Process : CreateJournal(p)
        BY <2>2, <1>1, JournalsAreOld
    <3>2. /\ victim \in Arena /\ rec.id = manifest[victim].retirement /\ rec.id \in RetirementId
        BY <1>1, <2>2, <3>1, CreateJournalEffect
    <3> QED
        BY <3>2, FreshOnce, ArenaStoreAssumption DEF Inv, RetirementInv, UsedIds
  <2> QED
      BY <2>1, <2>2
<1>2. ASSUME NEW id \in trash'
      PROVE  ~Fresh(id)'
  <2>1. id \in trash \/ JournalOf(id) # {}
      BY <1>2, TrashIsNamed
  <2>2. id \in RetirementId /\ ~Fresh(id)
      BY <2>1 DEF JournalOf, Inv, TypeOK, DiskType, RetirementRecord, RetirementInv, UsedIds
  <2> QED
      BY <2>2, FreshOnce
<1>3. ASSUME NEW a \in Arena, manifest'[a].retirement # None
      PROVE  ~Fresh(manifest[a].retirement)'
  <2>1. Moved(a) /\ manifest[a] \in Manifest
      BY ManifestMoves DEF Inv, TypeOK, DiskType
  <2>2. \/ manifest'[a].retirement = manifest[a].retirement
        \/ ~Fresh(manifest[a].retirement)'
      BY <2>1, <1>3 DEF Moved
  <2>3. manifest[a].retirement # None => manifest[a].retirement \in RetirementId /\ ~Fresh(manifest[a].retirement)
      BY <2>1, ManifestFields DEF Inv, RetirementInv, UsedIds
  <2>4. ASSUME manifest'[a].retirement = manifest[a].retirement
        PROVE  ~Fresh(manifest[a].retirement)'
    <3>1. manifest[a].retirement \in RetirementId /\ ~Fresh(manifest[a].retirement)
        BY <1>3, <2>3, <2>4
    <3>2. basis'[manifest[a].retirement] # "unused"
        BY <3>1, FreshOnce DEF Fresh
    <3> QED
        BY <2>4, <3>2 DEF Fresh
  <2> QED
      BY <2>2, <2>4
<1> QED
    BY <1>1, <1>2, <1>3 DEF UsedIds

-----------------------------------------------------------------------------
(* The inductive invariant.                                                *)

\* The invariant holds in the initial states.
LEMMA InitInv == Init => Inv
<1> SUFFICES ASSUME Init PROVE Inv
    OBVIOUS
<1>1. TypeOK
    BY InitType
<1>2. \A a \in Arena : manifest[a].stage \in {"absent", "finalized"} /\ manifest[a].retirement = None
  <2> DEFINE first == [Absent EXCEPT !.stage = "finalized", !.revision = 1]
  <2>1. Absent.stage = "absent" /\ Absent.retirement = None
      BY DEF Absent
  <2>2. first.stage = "finalized" /\ first.retirement = None
      BY DEF Absent
  <2>3. manifest \in [Arena -> {Absent, first}]
      BY DEF Init
  <2> QED
      BY <2>1, <2>2, <2>3
<1>3. PlaceOK /\ LeaseFollowsPlace
    BY DEF Init, PlaceOK, LeaseFollowsPlace, Admitting, Collecting, Retiring
<1>4. LeaseInv
    BY DEF Init, LeaseInv, LocksFollowPlace, LeaseDiskAgree, NoCargoYet, CargoTreeProtected,
           StagedIsAbsent, Retiring
<1>5. ViewIsOld /\ PlanIsOld /\ PlanFollowsPlace /\ VictimIsRetirable
    BY DEF Init, ViewIsOld, PlanIsOld, PlanFollowsPlace, VictimIsRetirable
<1>6. IntentIsFinished /\ UsedIds /\ JournalIsOld /\ TrashJournaled
    BY <1>2 DEF Init, IntentIsFinished, UsedIds, JournalIsOld, TrashJournaled
<1> QED
    BY <1>1, <1>3, <1>4, <1>5, <1>6 DEF Inv, RetirementInv

\* The invariant is preserved by every step.
LEMMA StepInv == Inv /\ Next => Inv'
<1> SUFFICES ASSUME Inv, Next PROVE Inv'
    OBVIOUS
<1>1. TypeOK'
    BY DiskTypeStep, ProcessTypeStep, PassTypeStep DEF Inv, TypeOK
<1>2. PlaceOK' /\ LeaseFollowsPlace'
    BY PlaceStep, LeaseFollowsPlaceStep DEF Inv
<1>3. LeaseInv'
    BY LocksFollowPlaceStep, LeaseDiskAgreeStep, NoCargoYetStep, CargoTreeProtectedStep,
       StagedIsAbsentStep DEF LeaseInv
<1>4. RetirementInv'
    BY ViewIsOldStep, PlanIsOldStep, PlanFollowsPlaceStep, VictimIsRetirableStep,
       IntentIsFinishedStep, UsedIdsStep, JournalIsOldStep, TrashJournaledStep DEF RetirementInv
<1> QED
    BY <1>1, <1>2, <1>3, <1>4 DEF Inv

\* A stuttering step changes no variable, hence no part of the invariant.
LEMMA StutterInv == Inv /\ UNCHANGED vars => Inv'
<1> SUFFICES ASSUME Inv, UNCHANGED vars PROVE Inv'
    OBVIOUS
<1>1. TypeOK' /\ PlaceOK' /\ LeaseFollowsPlace'
    BY DEF Inv, TypeOK, DiskType, ProcessType, PassType, PlaceOK, LeaseFollowsPlace
<1>2. LeaseInv'
    BY DEF Inv, LeaseInv, LocksFollowPlace, LeaseDiskAgree, NoCargoYet, CargoTreeProtected,
           StagedIsAbsent, Exists
<1>3. ViewIsOld' /\ PlanIsOld' /\ PlanFollowsPlace' /\ VictimIsRetirable'
    BY DEF Inv, RetirementInv, ViewIsOld, PlanIsOld, PlanFollowsPlace, VictimIsRetirable,
           Exists, JournalOf
<1>4. IntentIsFinished' /\ UsedIds' /\ JournalIsOld' /\ TrashJournaled'
    BY DEF Inv, RetirementInv, IntentIsFinished, UsedIds, JournalIsOld, TrashJournaled,
           Fresh, JournalOf
<1> QED
    BY <1>1, <1>2, <1>3, <1>4 DEF Inv, RetirementInv

\* Every reachable state of the store satisfies the inductive invariant, however many
\* sentinels, collections, crashes and half-finished retirements have led to it.
THEOREM InductiveInvariant == Spec => []Inv
<1>1. Inv /\ [Next]_vars => Inv'
    BY StepInv, StutterInv
<1> QED
    BY InitInv, <1>1, PTL DEF Spec

-----------------------------------------------------------------------------
(* What follows from it.                                                   *)

\* Manifests, locks, journals and the memory of every process keep to their types.
THEOREM TypeCorrect == Spec => []TypeOK
<1>1. Inv => TypeOK
    BY DEF Inv
<1> QED
    BY InductiveInvariant, <1>1, PTL

\* A Cargo process tree only ever runs in an arena whose arena.json is in Spawning or
\* Spawned, so that nobody who finds the arena's lock free can take it for idle.
THEOREM CargoProtected == Spec => []CargoTreeProtected
<1>1. Inv => CargoTreeProtected
    BY DEF Inv, LeaseInv
<1> QED
    BY InductiveInvariant, <1>1, PTL

\* An ArenaLease holds the lock of its arena, and its stage is the durable one or the
\* one before it.
THEOREM LeasesAgree == Spec => []LeaseDiskAgree
<1>1. Inv => LeaseDiskAgree
    BY DEF Inv, LeaseInv
<1> QED
    BY InductiveInvariant, <1>1, PTL

\* Every directory in trash/ is authorized by a journal, through any number of
\* interrupted and resumed collections.
THEOREM TrashAuthorized == Spec => []TrashJournaled
<1>1. Inv => TrashJournaled
    BY DEF Inv, RetirementInv
<1> QED
    BY InductiveInvariant, <1>1, PTL

\* A finished manifest is a proof that nothing runs in the arena and nobody leases it.
LEMMA FinishedIsQuiescent ==
    ASSUME Inv, NEW a \in Arena, manifest[a].stage = "finalized"
    PROVE  Quiescent(a)
<1>1. ~cargo[a]
    BY DEF Inv, LeaseInv, CargoTreeProtected
<1>2. ~Leased(a)
    BY LeasesDiffer DEF Leased, Unfinished
<1> QED
    BY <1>1, <1>2 DEF Quiescent

\* A journal that still matches its arena authorizes the removal of an idle, unpinned
\* arena, whenever reconciliation comes across it.
LEMMA InvResumable == Inv => ResumableIsQuiescent
<1> SUFFICES ASSUME Inv, NEW rec \in journal, Matches(rec)
             PROVE  Quiescent(rec.arena) /\ ~manifest[rec.arena].pinned
    BY DEF ResumableIsQuiescent
<1>1. rec.arena \in Arena /\ rec.id \in RetirementId /\ rec.id # None /\ rec.revision \in Nat
    BY ArenaStoreAssumption DEF Inv, TypeOK, DiskType, RetirementRecord
<1>2. manifest[rec.arena].retirement = rec.id /\ manifest[rec.arena].revision = rec.revision
    BY DEF Matches
<1>3. manifest[rec.arena].stage = "finalized"
    BY <1>1, <1>2 DEF Inv, RetirementInv, IntentIsFinished
<1>4. ~manifest[rec.arena].pinned
    BY <1>2 DEF Inv, RetirementInv, JournalIsOld
<1> QED
    BY <1>1, <1>3, <1>4, FinishedIsQuiescent

\* In every reachable state, a journal that still matches its arena is about an idle
\* one.
THEOREM ResumableQuiescent == Spec => []ResumableIsQuiescent
BY InductiveInvariant, InvResumable, PTL

\* A planned eviction whose revision is still the current one is about an idle arena.
LEMMA InvPlanned == Inv => PlannedIsQuiescent
<1> SUFFICES ASSUME Inv, NEW e \in plan, Exists(e.arena), manifest[e.arena].revision = e.revision
             PROVE  Quiescent(e.arena)
    BY DEF PlannedIsQuiescent
<1>1. e.arena \in Arena /\ manifest[e.arena].stage = "finalized"
    BY DEF Inv, TypeOK, PassType, Eviction, RetirementInv, PlanIsOld
<1> QED
    BY <1>1, FinishedIsQuiescent

\* In every reachable state, a planned eviction of the current revision is about an
\* idle arena.
THEOREM PlannedQuiescent == Spec => []PlannedIsQuiescent
BY InductiveInvariant, InvPlanned, PTL

\* Only a rename removes an arena: that of a retirement or that of its resumption.
LEMMA RemovalStep ==
    ASSUME Inv, Next, NEW b \in Arena, Exists(b), ~Exists(b)'
    PROVE  manifest[b].stage = "finalized" /\ ~manifest[b].pinned
<1> USE DEF Inv, LeaseInv, Exists
<1>1. ASSUME NEW p \in Process,
           \/ StartCollection(p) \/ (\E a \in Arena : StartBuild(p, a))
           \/ AcquireCollection(p) \/ TryArena(p) \/ WaitArena(p)
           \/ EndReconcile(p) \/ CollectionFails(p) \/ EndRepair(p)
           \/ ReadManifest(p) \/ ProbeLock(p) \/ EndScan(p) \/ SkipEviction(p)
           \/ EndRetire(p) \/ CreateJournal(p) \/ PurgeTrash(p)
           \/ RemoveJournal(p) \/ AbortAdmitted(p) \/ Fork(p)
           \/ SupervisionFails(p) \/ TreeExits(p) \/ LeaveSuspect(p)
           \/ FinishFails(p) \/ Crash(p)
    PROVE  manifest[b].stage = "finalized" /\ ~manifest[b].pinned
  <2>1. manifest' = manifest
    BY <1>1 DEF StartCollection, StartBuild, AcquireCollection, TryArena, WaitArena,
       EndReconcile, CollectionFails, EndRepair, ReadManifest, ProbeLock, EndScan,
       SkipEviction, EndRetire, CreateJournal, PurgeTrash, RemoveJournal,
       AbortAdmitted, Fork, SupervisionFails, TreeExits, LeaveSuspect, FinishFails,
       Crash, AbortCollection, ForgetPass, Leave, Unlock, Step, Return
  <2> QED
    BY <2>1
<1>2. ASSUME NEW a \in Arena,
           \/ CargoExits(a) \/ WorktreeChanges(a)
    PROVE  manifest[b].stage = "finalized" /\ ~manifest[b].pinned
  <2>1. manifest' = manifest
    BY <1>2 DEF CargoExits, WorktreeChanges
  <2> QED
    BY <2>1
<1>3. ASSUME NEW p \in Process, OpenStore(p)
    PROVE  manifest[b].stage = "finalized" /\ ~manifest[b].pinned
    BY <1>3, OpenStoreEffect DEF Settled
<1>4. ASSUME NEW p \in Process, LeaseExisting(p)
    PROVE  manifest[b].stage = "finalized" /\ ~manifest[b].pinned
    BY <1>4, LeaseExistingEffect DEF Settled
<1>5. ASSUME NEW p \in Process, LeaseNew(p)
    PROVE  manifest[b].stage = "finalized" /\ ~manifest[b].pinned
    BY <1>5, LeaseNewEffect DEF Settled
<1>6. ASSUME NEW p \in Process, LeaseNewInterrupted(p)
    PROVE  manifest[b].stage = "finalized" /\ ~manifest[b].pinned
    BY <1>6, LeaseNewInterruptedEffect DEF Settled
<1>7. ASSUME NEW p \in Process, LeaseRefused(p)
    PROVE  manifest[b].stage = "finalized" /\ ~manifest[b].pinned
    BY <1>7, LeaseRefusedEffect DEF Settled
<1>8. ASSUME NEW p \in Process, ReconcileRecord(p)
    PROVE  manifest[b].stage = "finalized" /\ ~manifest[b].pinned
  <2>1. PICK rec \in journal : b = rec.arena /\ ResumeRetirement(p, rec)
      BY <1>8, ReconcileRecordEffect DEF Removed, Others
  <2>2. Matches(rec)
      BY <2>1 DEF ResumeRetirement
  <2> QED
      BY <2>1, <2>2, InvResumable DEF ResumableIsQuiescent, Quiescent
<1>9. ASSUME NEW p \in Process, RepairIntent(p)
    PROVE  manifest[b].stage = "finalized" /\ ~manifest[b].pinned
    BY <1>9, RepairIntentEffect DEF Intended, Others
<1>10. ASSUME NEW p \in Process, RepairFails(p)
    PROVE  manifest[b].stage = "finalized" /\ ~manifest[b].pinned
    BY <1>10, RepairFailsEffect DEF Intended, Others
<1>11. ASSUME NEW p \in Process, Retire(p)
    PROVE  manifest[b].stage = "finalized" /\ ~manifest[b].pinned
  <2>1. PICK e \in plan, id \in RetirementId :
            e.arena \in Arena /\ StillEvictable(e) /\ Fresh(id) /\ ~Fresh(id)' /\ Intended(e.arena, id)
      BY <1>11, RetireEffect DEF Inv
  <2> QED
      BY <2>1 DEF Intended, Others
<1>12. ASSUME NEW p \in Process, RenameArena(p)
    PROVE  manifest[b].stage = "finalized" /\ ~manifest[b].pinned
  <2>1. b = victim /\ pc[p] = "rename"
      BY <1>12, RenameArenaEffect DEF RenameArena, Removed, Others
  <2> QED
      BY <2>1 DEF RetirementInv, VictimIsRetirable
<1>13. ASSUME NEW p \in Process, MarkSpawning(p)
    PROVE  manifest[b].stage = "finalized" /\ ~manifest[b].pinned
    BY <1>13, MarkSpawningEffect DEF Advanced, Others
<1>14. ASSUME NEW p \in Process, MarkSpawned(p)
    PROVE  manifest[b].stage = "finalized" /\ ~manifest[b].pinned
    BY <1>14, MarkSpawnedEffect DEF Advanced, Others
<1>15. ASSUME NEW p \in Process, Finish(p)
    PROVE  manifest[b].stage = "finalized" /\ ~manifest[b].pinned
    BY <1>15, FinishEffect DEF Advanced, Others
<1>16. ASSUME NEW p \in Process, DropLease(p)
    PROVE  manifest[b].stage = "finalized" /\ ~manifest[b].pinned
    BY <1>16, DropLeaseEffect DEF Advanced, Others
<1>17. ASSUME NEW a \in Arena, Recover(a)
    PROVE  manifest[b].stage = "finalized" /\ ~manifest[b].pinned
    BY <1>17, RecoverEffect DEF Advanced, Others
<1>18. ASSUME NEW a \in Arena, NEW pin \in BOOLEAN, UpdatePin(a, pin)
    PROVE  manifest[b].stage = "finalized" /\ ~manifest[b].pinned
    BY <1>18, UpdatePinEffect DEF Repinned, Advanced, Others
<1>19. ASSUME NEW a \in Arena, PinExpires(a)
    PROVE  manifest[b].stage = "finalized" /\ ~manifest[b].pinned
    BY <1>19, PinExpiresEffect DEF Expired, Others
<1> QED
    BY <1>1, <1>2, <1>3, <1>4, <1>5, <1>6, <1>7, <1>8, <1>9, <1>10, <1>11, <1>12,
       <1>13, <1>14, <1>15, <1>16, <1>17, <1>18, <1>19
       DEF Next, Admit, Collect, Build, Start, Environment

\* An arena leaves its place only while it is finished, unpinned, unleased and without a
\* Cargo tree, in a retirement and in one that is resumed after a crash.
THEOREM RetiresOnlyQuiescent == Spec => RetireOnlyQuiescent
<1> DEFINE Safe == \A a \in Arena : Exists(a) /\ ~Exists(a)' => Quiescent(a) /\ ~manifest[a].pinned
<1>1. Inv /\ Next => Safe
    BY RemovalStep, FinishedIsQuiescent
<1>2. UNCHANGED vars => Safe
    BY DEF Exists
<1>3. Inv /\ [Next]_vars => [Safe]_vars
    BY <1>1, <1>2
<1> QED
    BY InductiveInvariant, <1>3, PTL DEF Spec, RetireOnlyQuiescent

\* An unfinished manifest without a lease waits for a recovery.
LEMMA SuspectStep ==
    ASSUME Inv, Next, NEW b \in Arena, Suspect(b)
    PROVE  \/ manifest'[b].stage = manifest[b].stage
           \/ manifest'[b].stage = "finalized" /\ ~cargo[b]
<1> USE DEF Inv, LeaseInv, Suspect, Unfinished
<1>1. ASSUME NEW p \in Process,
           \/ StartCollection(p) \/ (\E a \in Arena : StartBuild(p, a))
           \/ AcquireCollection(p) \/ TryArena(p) \/ WaitArena(p)
           \/ EndReconcile(p) \/ CollectionFails(p) \/ EndRepair(p)
           \/ ReadManifest(p) \/ ProbeLock(p) \/ EndScan(p) \/ SkipEviction(p)
           \/ EndRetire(p) \/ CreateJournal(p) \/ PurgeTrash(p)
           \/ RemoveJournal(p) \/ AbortAdmitted(p) \/ Fork(p)
           \/ SupervisionFails(p) \/ TreeExits(p) \/ LeaveSuspect(p)
           \/ FinishFails(p) \/ Crash(p)
    PROVE  \/ manifest'[b].stage = manifest[b].stage
           \/ manifest'[b].stage = "finalized" /\ ~cargo[b]
  <2>1. manifest' = manifest
    BY <1>1 DEF StartCollection, StartBuild, AcquireCollection, TryArena, WaitArena,
       EndReconcile, CollectionFails, EndRepair, ReadManifest, ProbeLock, EndScan,
       SkipEviction, EndRetire, CreateJournal, PurgeTrash, RemoveJournal,
       AbortAdmitted, Fork, SupervisionFails, TreeExits, LeaveSuspect, FinishFails,
       Crash, AbortCollection, ForgetPass, Leave, Unlock, Step, Return
  <2> QED
    BY <2>1
<1>2. ASSUME NEW a \in Arena,
           \/ CargoExits(a) \/ WorktreeChanges(a)
    PROVE  \/ manifest'[b].stage = manifest[b].stage
           \/ manifest'[b].stage = "finalized" /\ ~cargo[b]
  <2>1. manifest' = manifest
    BY <1>2 DEF CargoExits, WorktreeChanges
  <2> QED
    BY <2>1
<1>3. ASSUME NEW p \in Process, OpenStore(p)
    PROVE  \/ manifest'[b].stage = manifest[b].stage
           \/ manifest'[b].stage = "finalized" /\ ~cargo[b]
    BY <1>3, OpenStoreEffect DEF Settled
<1>4. ASSUME NEW p \in Process, LeaseExisting(p)
    PROVE  \/ manifest'[b].stage = manifest[b].stage
           \/ manifest'[b].stage = "finalized" /\ ~cargo[b]
    BY <1>4, LeaseExistingEffect DEF Settled
<1>5. ASSUME NEW p \in Process, LeaseNew(p)
    PROVE  \/ manifest'[b].stage = manifest[b].stage
           \/ manifest'[b].stage = "finalized" /\ ~cargo[b]
    BY <1>5, LeaseNewEffect DEF Settled
<1>6. ASSUME NEW p \in Process, LeaseNewInterrupted(p)
    PROVE  \/ manifest'[b].stage = manifest[b].stage
           \/ manifest'[b].stage = "finalized" /\ ~cargo[b]
    BY <1>6, LeaseNewInterruptedEffect DEF Settled
<1>7. ASSUME NEW p \in Process, LeaseRefused(p)
    PROVE  \/ manifest'[b].stage = manifest[b].stage
           \/ manifest'[b].stage = "finalized" /\ ~cargo[b]
    BY <1>7, LeaseRefusedEffect DEF Settled
<1>8. ASSUME NEW p \in Process, ReconcileRecord(p)
    PROVE  \/ manifest'[b].stage = manifest[b].stage
           \/ manifest'[b].stage = "finalized" /\ ~cargo[b]
  <2>1. Exists(b) /\ (manifest'[b].stage = manifest[b].stage \/ ~Exists(b)')
      BY <1>8, ReconcileRecordEffect DEF Exists, Removed, Others
  <2> QED
      BY <2>1, RemovalStep
<1>9. ASSUME NEW p \in Process, RepairIntent(p)
    PROVE  \/ manifest'[b].stage = manifest[b].stage
           \/ manifest'[b].stage = "finalized" /\ ~cargo[b]
    BY <1>9, RepairIntentEffect DEF Intended, Others
<1>10. ASSUME NEW p \in Process, RepairFails(p)
    PROVE  \/ manifest'[b].stage = manifest[b].stage
           \/ manifest'[b].stage = "finalized" /\ ~cargo[b]
    BY <1>10, RepairFailsEffect DEF Intended, Others
<1>11. ASSUME NEW p \in Process, Retire(p)
    PROVE  \/ manifest'[b].stage = manifest[b].stage
           \/ manifest'[b].stage = "finalized" /\ ~cargo[b]
  <2>1. PICK e \in plan, id \in RetirementId :
            e.arena \in Arena /\ StillEvictable(e) /\ Fresh(id) /\ ~Fresh(id)' /\ Intended(e.arena, id)
      BY <1>11, RetireEffect DEF Inv
  <2> QED
      BY <2>1 DEF Intended, Others
<1>12. ASSUME NEW p \in Process, RenameArena(p)
    PROVE  \/ manifest'[b].stage = manifest[b].stage
           \/ manifest'[b].stage = "finalized" /\ ~cargo[b]
  <2>1. Exists(b) /\ (manifest'[b].stage = manifest[b].stage \/ ~Exists(b)')
      BY <1>12, RenameArenaEffect DEF Exists, Removed, Others
  <2> QED
      BY <2>1, RemovalStep
<1>13. ASSUME NEW p \in Process, MarkSpawning(p)
    PROVE  \/ manifest'[b].stage = manifest[b].stage
           \/ manifest'[b].stage = "finalized" /\ ~cargo[b]
    BY <1>13, MarkSpawningEffect DEF Advanced, Others, Leased
<1>14. ASSUME NEW p \in Process, MarkSpawned(p)
    PROVE  \/ manifest'[b].stage = manifest[b].stage
           \/ manifest'[b].stage = "finalized" /\ ~cargo[b]
    BY <1>14, MarkSpawnedEffect DEF Advanced, Others, Leased
<1>15. ASSUME NEW p \in Process, Finish(p)
    PROVE  \/ manifest'[b].stage = manifest[b].stage
           \/ manifest'[b].stage = "finalized" /\ ~cargo[b]
    BY <1>15, FinishEffect DEF Advanced, Others, Leased
<1>16. ASSUME NEW p \in Process, DropLease(p)
    PROVE  \/ manifest'[b].stage = manifest[b].stage
           \/ manifest'[b].stage = "finalized" /\ ~cargo[b]
    BY <1>16, DropLeaseEffect DEF Advanced, Others, Leased
<1>17. ASSUME NEW a \in Arena, Recover(a)
    PROVE  \/ manifest'[b].stage = manifest[b].stage
           \/ manifest'[b].stage = "finalized" /\ ~cargo[b]
    BY <1>17, RecoverEffect DEF Advanced, Others
<1>18. ASSUME NEW a \in Arena, NEW pin \in BOOLEAN, UpdatePin(a, pin)
    PROVE  \/ manifest'[b].stage = manifest[b].stage
           \/ manifest'[b].stage = "finalized" /\ ~cargo[b]
    BY <1>18, UpdatePinEffect DEF Repinned, Advanced, Others
<1>19. ASSUME NEW a \in Arena, PinExpires(a)
    PROVE  \/ manifest'[b].stage = manifest[b].stage
           \/ manifest'[b].stage = "finalized" /\ ~cargo[b]
    BY <1>19, PinExpiresEffect DEF Expired, Others
<1> QED
    BY <1>1, <1>2, <1>3, <1>4, <1>5, <1>6, <1>7, <1>8, <1>9, <1>10, <1>11, <1>12,
       <1>13, <1>14, <1>15, <1>16, <1>17, <1>18, <1>19
       DEF Next, Admit, Collect, Build, Start, Environment

\* The arena of a dead sentinel is neither reused nor retired before a recovery, which
\* finds its Cargo tree gone.
THEOREM SuspectsNeedRecovery == Spec => SuspectNeedsRecovery
<1> DEFINE Safe == \A a \in Arena :
                       Suspect(a) =>
                           \/ manifest'[a].stage = manifest[a].stage
                           \/ manifest'[a].stage = "finalized" /\ ~cargo[a]
<1>1. Inv /\ Next => Safe
    BY SuspectStep
<1>2. UNCHANGED vars => Safe
    OBVIOUS
<1>3. Inv /\ [Next]_vars => [Safe]_vars
    BY <1>1, <1>2
<1> QED
    BY InductiveInvariant, <1>3, PTL DEF Spec, SuspectNeedsRecovery

=============================================================================
