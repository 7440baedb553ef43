------------------------------ MODULE Capacity ------------------------------
(***************************************************************************)
(* How zhold keeps concurrent builds from spending the same capacity       *)
(* (crates/zhold-store: store/admission.rs, collection/collector.rs,       *)
(* inventory/arena_snapshot.rs; crates/zhold-core: policy/planner.rs; the  *)
(* decision is that of crates/zhold-cli command/cargo.rs).  An admission   *)
(* writes its reservation, retires what it may, adds up what is left and   *)
(* goes on only within the budget.  It holds the collection lock, but     *)
(* builds that were admitted before grow and end meanwhile without it.     *)
(*                                                                         *)
(* Why a retirement is safe, and what it leaves when it is interrupted, is *)
(* the subject of ArenaStore: here an arena is retired at once.  Which     *)
(* idle arenas go first is left open.                                      *)
(***************************************************************************)
EXTENDS Naturals, FiniteSets, Functions

CONSTANTS
    Arena,          \* compatibility identities, one directory each
    Process,        \* managed builds and collections
    None,           \* no arena, no holder
    Unknown,        \* a size that no document holds
    Budget,         \* CollectionPolicy.budget, the same for every process
    LowWatermark,   \* CollectionPolicy.low_watermark_percent
    Reservation,    \* what recommended_reservation may ask for
    InitialSize,    \* bytes under an arena that is there at the start
    UnreadableTrees \* may measure_tree fail?

ASSUME CapacityAssumption ==
    /\ IsFiniteSet(Arena)
    /\ None \notin Arena \cup Process
    /\ Unknown \notin Nat
    /\ Budget \in Nat /\ LowWatermark \in 1..100
    /\ Reservation \subseteq Nat /\ InitialSize \subseteq Nat
    /\ UnreadableTrees \in BOOLEAN

VARIABLES
    size,       \* arena -> bytes in its directory
    cargo,      \* arena -> is a Cargo process tree alive in it?
    manifest,   \* arena -> what its arena.json says of capacity
    collection, \* holder of the collection lock
    arenaLock,  \* arena -> holder of the arena lock
    pc, arena,  \* process -> where it is, the arena it builds in
    \* Memory of the one process that holds the collection lock.
    deep,       \* does it measure the trees, or trust the manifests?
    pending,    \* arenas still to be read, or to be retired
    view,       \* the snapshot: arena -> what was read of it
    plan        \* the arenas that its plan evicts

worldVars == <<size, cargo>>
lockVars == <<collection, arenaLock>>
passVars == <<deep, pending, view, plan>>
vars == <<worldVars, manifest, lockVars, pc, arena, passVars>>

-----------------------------------------------------------------------------
(* Manifests: unfinished stands for Reserved, Spawning and Spawned.        *)

Stage == {"absent", "finalized", "unfinished"}

Manifest == [stage : Stage, known : Nat \cup {Unknown}, reservation : Nat, pinned : BOOLEAN]

Absent == [stage |-> "absent", known |-> 0, reservation |-> 0, pinned |-> FALSE]

\* Mutant of Begin: the size is not observed anew.
BeginUnmeasured(m, r, measured) ==
    [stage |-> "unfinished", known |-> m.known, reservation |-> r, pinned |-> m.pinned]

\* ArenaManifest::begin and observe_size.
Begin(m, r, measured) ==
    [stage |-> "unfinished", known |-> measured, reservation |-> r, pinned |-> m.pinned]

\* ArenaManifest::finish: without a measurement last_known_size stays.
Finished(m, known) ==
    [stage |-> "finalized", known |-> known, reservation |-> 0, pinned |-> m.pinned]

\* What measure_tree(..).ok(), or the fallback to last_known_size, may come to.
Measurements(a) == {size[a]} \cup IF UnreadableTrees THEN {manifest[a].known} ELSE {}

\* What an arena counts for in the aggregate of an admission.
Charge(a) == (IF manifest[a].known = Unknown THEN 0 ELSE manifest[a].known) + manifest[a].reservation

Occupied == SumFunction(size)

-----------------------------------------------------------------------------
(* Snapshots: read_arena_snapshot, read_entry and observed_size.           *)

Observation == [state : {"unread", "absent", "protected", "idle"},
                size : Nat, reservation : Nat, trusted : BOOLEAN]

Unread == [state |-> "unread", size |-> 0, reservation |-> 0, trusted |-> TRUE]

\* ArenaRecord::state, as far as a plan asks: Active, Suspect and Pinned, or not.
ObservedState(a, held) ==
    IF manifest[a].stage = "absent" THEN "absent"
    ELSE IF held \/ manifest[a].stage = "unfinished" \/ manifest[a].pinned THEN "protected"
    ELSE "idle"

\* Mutant of Observed: the reservation of an arena that nobody holds is not counted.
ObservedHeld(a, held, measurable) ==
    [state |-> ObservedState(a, held),
     size |-> IF deep /\ measurable THEN size[a]
              ELSE IF manifest[a].known = Unknown THEN 0 ELSE manifest[a].known,
     reservation |-> IF held THEN manifest[a].reservation ELSE 0,
     trusted |-> IF deep THEN measurable ELSE manifest[a].known # Unknown]

\* A finished manifest has no reservation: unfinished or held, it counts.
Observed(a, held, measurable) ==
    [state |-> ObservedState(a, held),
     size |-> IF deep /\ measurable THEN size[a]
              ELSE IF manifest[a].known = Unknown THEN 0 ELSE manifest[a].known,
     reservation |-> manifest[a].reservation,
     trusted |-> IF deep THEN measurable ELSE manifest[a].known # Unknown]

\* What a set of arenas takes up, according to the snapshot.
Bytes(S) == SumFunctionOnSet([a \in Arena |-> view[a].size], S)
Total == Bytes(Arena)
Reserved == SumFunction([a \in Arena |-> view[a].reservation])
Uncertain == \E a \in Arena : ~view[a].trusted

-----------------------------------------------------------------------------
(* The plan: plan_collection_with_reservation.                             *)

\* ByteSize::percent and saturating_sub.
Percent(n, percent) == (n * percent) \div 100
Minus(m, n) == IF n < m THEN m - n ELSE 0

\* Mutant of Target: what live builds have reserved is forgotten.
WatermarkTarget == Percent(Budget, LowWatermark)

Target == Minus(Percent(Budget, LowWatermark), Reserved)

Candidates == {a \in Arena : view[a].state = "idle" /\ view[a].trusted}

\* Candidates go one by one, in the planner's order, until the target is reached.
Plans ==
    LET excess == Minus(Total, Target) IN
    IF Total + Reserved <= Budget THEN {{}}
    ELSE {E \in SUBSET Candidates :
             /\ E = Candidates \/ Bytes(E) >= excess
             /\ E = {} \/ \E last \in E : Bytes(E \ {last}) < excess}

-----------------------------------------------------------------------------
Goto(p, place) == pc' = [pc EXCEPT ![p] = place]

Write(a, m) == manifest' = [manifest EXCEPT ![a] = m]

ForgetPass ==
    /\ pending' = {} /\ plan' = {} /\ deep' = FALSE
    /\ view' = [a \in Arena |-> Unread]

StartSnapshot(measure) ==
    /\ pending' = Arena /\ plan' = {} /\ deep' = measure
    /\ view' = [a \in Arena |-> Unread]

ReleaseArena(p) ==
    /\ arenaLock' = [a \in Arena |-> IF arenaLock[a] = p THEN None ELSE arenaLock[a]]
    /\ arena' = [arena EXCEPT ![p] = None]

\* An arena that is there at the start; old manifests have no last_known_size.
Found(n) == [stage |-> "finalized", known |-> n, reservation |-> 0, pinned |-> FALSE]

Init ==
    /\ size \in [Arena -> InitialSize \cup {0}]
    /\ manifest \in [Arena -> {Absent} \cup {Found(n) : n \in InitialSize \cup {Unknown}}]
    /\ \A a \in Arena :
          IF manifest[a].stage = "absent" THEN size[a] = 0
          ELSE size[a] \in InitialSize /\ manifest[a].known \in {size[a], Unknown}
    /\ cargo = [a \in Arena |-> FALSE]
    /\ collection = None
    /\ arenaLock = [a \in Arena |-> None]
    /\ pc = [p \in Process |-> "idle"]
    /\ arena = [p \in Process |-> None]
    /\ deep = FALSE /\ pending = {} /\ plan = {}
    /\ view = [a \in Arena |-> Unread]

-----------------------------------------------------------------------------
(* Admission and collection.                                               *)

\* lease_reserved_and_collect up to the lease.  Both locks are held before the
\* manifest is read, and nothing else writes it from then on but a pin.
Admit(p, a, r) ==
    /\ pc[p] = "idle" /\ collection = None /\ arenaLock[a] = None
    /\ manifest[a].stage # "unfinished"
    /\ collection' = p
    /\ arenaLock' = [arenaLock EXCEPT ![a] = p]
    /\ arena' = [arena EXCEPT ![p] = a]
    /\ Write(a, Begin(manifest[a], r, size[a]))
    /\ Goto(p, "observe") /\ StartSnapshot(FALSE)
    /\ UNCHANGED worldVars

\* A collection by hand measures the trees, the one after a build does not.
Collect(p) ==
    /\ pc[p] \in {"idle", "ended"} /\ collection = None
    /\ collection' = p
    /\ Goto(p, "observe") /\ StartSnapshot(pc[p] = "idle")
    /\ UNCHANGED <<worldVars, manifest, arenaLock, arena>>

\* read_entry.  The manifest is read before the lock is probed; others probe it too.
Observe(p) ==
    /\ pc[p] \in {"observe", "confirm"}
    /\ \E a \in pending, held \in BOOLEAN, measurable \in BOOLEAN :
          /\ arenaLock[a] # None => held
          /\ UnreadableTrees \/ measurable
          /\ view' = [view EXCEPT ![a] = Observed(a, held, measurable)]
          /\ pending' = pending \ {a}
    /\ UNCHANGED <<worldVars, manifest, lockVars, pc, arena, deep, plan>>

\* InventoryUncertain: p's lease, if it has one, is dropped as not started.
GiveUp(p) ==
    /\ pc[p] = "observe" /\ pending = {} /\ Uncertain
    /\ collection' = None
    /\ IF arena[p] = None THEN UNCHANGED manifest
       ELSE \E n \in Measurements(arena[p]) : Write(arena[p], Finished(manifest[arena[p]], n))
    /\ ReleaseArena(p)
    /\ Goto(p, "idle") /\ ForgetPass
    /\ UNCHANGED worldVars

PlanEvictions(p) ==
    /\ pc[p] = "observe" /\ pending = {} /\ ~Uncertain
    /\ plan' \in Plans
    /\ pending' = plan'
    /\ Goto(p, "evict")
    /\ UNCHANGED <<worldVars, manifest, lockVars, arena, deep, view>>

\* retire, which no lease and no pin has come before.  What else makes it skip, a new
\* revision or a worktree that is back, is among the reasons of SkipEviction.
Evict(p) ==
    /\ pc[p] = "evict"
    /\ \E a \in pending :
          /\ arenaLock[a] = None /\ ~manifest[a].pinned
          /\ Write(a, Absent)
          /\ size' = [size EXCEPT ![a] = 0]
          /\ pending' = pending \ {a}
    /\ UNCHANGED <<cargo, lockVars, pc, arena, deep, view, plan>>

\* A skip, or an error, whatever the reason.
SkipEviction(p) ==
    /\ pc[p] = "evict"
    /\ \E a \in pending : pending' = pending \ {a}
    /\ UNCHANGED <<worldVars, manifest, lockVars, pc, arena, deep, view, plan>>

\* What is left is read again after the last retirement.
Confirm(p) ==
    /\ pc[p] = "evict" /\ pending = {}
    /\ Goto(p, "confirm") /\ StartSnapshot(deep)
    /\ UNCHANGED <<worldVars, manifest, lockVars, arena>>

\* budget_is_confirmed.
BudgetMet == ~Uncertain /\ Total + Reserved <= Budget

\* Mutant of Decide: what was planned is taken for done.
DecideOnPlan(p) ==
    /\ pc[p] = "evict" /\ pending = {}
    /\ collection' = None
    /\ Goto(p, IF arena[p] = None THEN "idle"
               ELSE IF Total + Reserved <= Budget + Bytes(plan)
               THEN "granted" ELSE "refused")
    /\ ForgetPass
    /\ UNCHANGED <<worldVars, manifest, arenaLock, arena>>

\* The report is made, the collection lock dropped, and execute_managed decides.
Decide(p) ==
    /\ pc[p] = "confirm" /\ pending = {}
    /\ collection' = None
    /\ Goto(p, IF arena[p] = None THEN "idle" ELSE IF BudgetMet THEN "granted" ELSE "refused")
    /\ ForgetPass
    /\ UNCHANGED <<worldVars, manifest, arenaLock, arena>>

-----------------------------------------------------------------------------
(* Builds.                                                                 *)

\* mark_spawning, the fork and mark_spawned.
Spawn(p) ==
    /\ pc[p] = "granted"
    /\ cargo' = [cargo EXCEPT ![arena[p]] = TRUE]
    /\ Goto(p, "running")
    /\ UNCHANGED <<size, manifest, lockVars, arena, passVars>>

\* finish_observed, of a build that is over or that never started.
Finish(p) ==
    /\ \/ pc[p] = "running" /\ ~cargo[arena[p]] /\ Goto(p, "ended")
       \/ pc[p] \in {"granted", "refused"} /\ Goto(p, "idle")
    /\ \E n \in Measurements(arena[p]) : Write(arena[p], Finished(manifest[arena[p]], n))
    /\ ReleaseArena(p)
    /\ UNCHANGED <<worldVars, collection, passVars>>

\* Cargo writes and removes files.  It keeps to what was reserved for it: nothing
\* but a quota enforces that, and without it there is nothing to show.
CargoWrites(a) ==
    /\ cargo[a]
    /\ \E n \in 0..Charge(a) : size' = [size EXCEPT ![a] = n]
    /\ UNCHANGED <<cargo, manifest, lockVars, pc, arena, passVars>>

CargoExits(a) ==
    /\ cargo[a]
    /\ cargo' = [cargo EXCEPT ![a] = FALSE]
    /\ UNCHANGED <<size, manifest, lockVars, pc, arena, passVars>>

\* p dies; its Cargo tree may live on, and its manifest stays unfinished.
Crash(p) ==
    /\ pc[p] # "idle"
    /\ Goto(p, "idle")
    /\ ReleaseArena(p)
    /\ IF collection = p THEN collection' = None /\ ForgetPass
       ELSE UNCHANGED <<collection, passVars>>
    /\ UNCHANGED <<worldVars, manifest>>

\* recover_suspect, when the operator knows that the process tree is gone.
Recover(a) ==
    /\ collection = None /\ arenaLock[a] = None
    /\ manifest[a].stage = "unfinished" /\ ~cargo[a]
    /\ \E n \in Measurements(a) : Write(a, Finished(manifest[a], n))
    /\ UNCHANGED <<worldVars, lockVars, pc, arena, passVars>>

\* update_pin; it takes neither the collection lock nor the arena lock.
SetPin(a, pin) ==
    /\ manifest[a].stage # "absent"
    /\ Write(a, [manifest[a] EXCEPT !.pinned = pin])
    /\ UNCHANGED <<worldVars, lockVars, pc, arena, passVars>>

-----------------------------------------------------------------------------
Step(p) ==
    \/ \E a \in Arena, r \in Reservation : Admit(p, a, r)
    \/ Collect(p) \/ Observe(p) \/ GiveUp(p) \/ PlanEvictions(p)
    \/ Evict(p) \/ SkipEviction(p) \/ Confirm(p) \/ Decide(p)
    \/ Spawn(p) \/ Finish(p) \/ Crash(p)

Environment(a) ==
    \/ CargoWrites(a) \/ CargoExits(a) \/ Recover(a)
    \/ \E pin \in BOOLEAN : SetPin(a, pin)

Next == (\E p \in Process : Step(p)) \/ (\E a \in Arena : Environment(a))

Spec == Init /\ [][Next]_vars

-----------------------------------------------------------------------------
(* Properties.                                                             *)

Place == {"idle", "observe", "evict", "confirm", "granted", "refused", "running", "ended"}

\* Every variable keeps to its type.
TypeOK ==
    /\ size \in [Arena -> Nat] /\ cargo \in [Arena -> BOOLEAN]
    /\ manifest \in [Arena -> Manifest]
    /\ collection \in Process \cup {None}
    /\ arenaLock \in [Arena -> Process \cup {None}]
    /\ pc \in [Process -> Place] /\ arena \in [Process -> Arena \cup {None}]
    /\ deep \in BOOLEAN
    /\ pending \in SUBSET Arena /\ plan \in SUBSET Arena
    /\ view \in [Arena -> Observation]

\* docs/locking.md:39-41: concurrent agents cannot spend the same capacity.  While
\* every Cargo tree keeps to its own reservation, the arenas grow only within the
\* budget, whoever was admitted, refused, retired or killed meanwhile.
GrowthWithinBudget == [][Occupied' > Occupied => Occupied' <= Budget]_vars

\* An admission adds up what was read of arenas at different times.  Each of them
\* is still charged that much at most when the sum is judged, although builds end,
\* arenas are retired and suspects grow while the others are read.
SnapshotCovers ==
    ~deep => \A p \in Process, a \in Arena :
        pc[p] \in {"observe", "confirm"} /\ a \notin pending /\ view[a].trusted
            => Charge(a) <= view[a].size + view[a].reservation

\* A plan that does not make room for what is reserved leaves nothing that could
\* help: no admission is refused while its plan spares the bytes of an idle arena.
PlanIsEnough ==
    \A p \in Process :
        pc[p] = "evict" =>
            \/ Bytes(Arena \ plan) + Reserved <= Budget
            \/ \A a \in Candidates \ plan : view[a].size = 0

\* docs/safety.md:42-43: cached completed sizes are trusted for admission because
\* every managed transition durably records its observation.  Said of the arenas
\* that no build is unfinished in: what the manifest records covers what is there.
CompletedSizesRecorded ==
    \A a \in Arena :
        manifest[a].stage # "unfinished" /\ manifest[a].known # Unknown
            => size[a] <= manifest[a].known

-----------------------------------------------------------------------------
(* An inductive invariant.                                                 *)

Observing == {"observe", "evict", "confirm"}

\* The places tell who has the collection lock, and who has an arena.
PlaceOK ==
    \A p \in Process :
        /\ collection = p <=> pc[p] \in Observing
        /\ pc[p] \in {"granted", "refused", "running"} => arena[p] # None
        /\ pc[p] \in {"idle", "ended"} => arena[p] = None

\* A process builds in one arena at most, whose lock it has and whose manifest is
\* unfinished; Cargo is alive in it only when it was started.
LeaseOK ==
    \A p \in Process :
        arena[p] # None =>
            /\ arenaLock[arena[p]] = p
            /\ manifest[arena[p]].stage = "unfinished"
            /\ pc[p] # "running" => ~cargo[arena[p]]

\* Cargo is alive only in an unfinished arena, which has room for it.
UnfinishedOK ==
    \A a \in Arena :
        /\ cargo[a] => manifest[a].stage = "unfinished"
        /\ manifest[a].stage = "unfinished" => manifest[a].known # Unknown /\ size[a] <= Charge(a)

\* What a snapshot has found idle stays so: nothing is admitted meanwhile.
IdleStaysIdle ==
    \A p \in Process :
        /\ pc[p] = "evict" => pending \subseteq Candidates
        /\ pc[p] \in Observing =>
              \A a \in Arena : view[a].state = "idle" => manifest[a].stage # "unfinished"

\* Where the bytes may still grow: Cargo is alive there, or was granted to start.
Growing(a) == cargo[a] \/ \E p \in Process : arena[p] = a /\ pc[p] = "granted"

\* What an arena may come to hold before anything else is granted.
Ceiling(a) == IF Growing(a) THEN Charge(a) ELSE size[a]

\* A process that wants to build trusts the manifests, those it trusts go on to name
\* a size, and what it was granted is there even if every build takes all it may.
FundingOK ==
    /\ \A p \in Process : arena[p] # None /\ pc[p] \in Observing => ~deep
    /\ \A p \in Process, a \in Arena :
          ~deep /\ pc[p] \in {"observe", "confirm"} /\ a \notin pending /\ view[a].trusted
              => manifest[a].known # Unknown
    /\ (\E a \in Arena : Growing(a)) => SumFunction([a \in Arena |-> Ceiling(a)]) <= Budget

\* The inductive invariant: why a snapshot covers what it has read, and what a
\* manifest records, whatever the other processes do.  The last part is said where every
\* tree can be measured.
Inv ==
    /\ TypeOK /\ PlaceOK /\ LeaseOK /\ UnfinishedOK /\ IdleStaysIdle /\ SnapshotCovers
    /\ ~UnreadableTrees => CompletedSizesRecorded /\ FundingOK

=============================================================================
