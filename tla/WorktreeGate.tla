---------------------------- MODULE WorktreeGate ----------------------------
(***************************************************************************)
(* How zhold keeps a worktree manager and the builds of a worktree apart   *)
(* (crates/zhold-store: worktree/).  A build holds the worktree's gate     *)
(* shared from its admission to its end; the four hooks of a manager write *)
(* the worktree's registration under the registry lock and the exclusive   *)
(* gate.  What a build does between its admission and its end is the       *)
(* subject of ArenaStore.                                                  *)
(*                                                                         *)
(* The environment is a manager that removes a worktree only after its     *)
(* prepare-remove succeeded, and then reports `removed`, or cancel-remove  *)
(* when the removal failed; one manager at a time looks after a path.      *)
(***************************************************************************)
EXTENDS Naturals, FiniteSets

CONSTANTS
    WorktreeKey,    \* identities of a worktree: a repository at a path
    Path,           \* places where a worktree can be checked out
    PathOf,         \* key -> the path it is derived from
    Process,        \* hooks and managed builds
    None            \* no key, no path, no holder

ASSUME WorktreeGateAssumption ==
    /\ PathOf \in [WorktreeKey -> Path]
    /\ None \notin WorktreeKey \cup Path \cup Process

VARIABLES
    checkout,   \* path -> the worktree that is checked out there
    state,      \* key -> WorktreeIntegration.state, "unregistered" when there is no record
    registry,   \* holder of the registry lock
    gate,       \* key -> holder of the exclusive gate
    shared,     \* key -> holders of the shared gate
    pc, event,  \* process -> where it is, and in which hook or build
    path, key,  \* process -> the path it was given, the key it works on
    seen        \* hook -> the state in the record that it has read

lockVars == <<registry, gate, shared>>
processVars == <<pc, event, path, key, seen>>
vars == <<checkout, state, lockVars, processVars>>

Hook == {"Ready", "PrepareRemove", "Removed", "CancelRemove"}

State == {"unregistered", "Ready", "Draining", "Removed"}

Live(k) == state[k] \in {"Ready", "Draining"}

-----------------------------------------------------------------------------
(* The registry.                                                           *)

At(d) == {k \in WorktreeKey : PathOf[k] = d}

\* find_path: the live record of the path, or any removed one.
Selected(d) ==
    LET live == {k \in At(d) : Live(k)} IN
    IF live # {} THEN live ELSE {k \in At(d) : state[k] = "Removed"}

\* Mutant of Alias: the path of a draining worktree counts as free.
AliasReady(k) == \E j \in At(PathOf[k]) \ {k} : state[j] = "Ready"

\* reject_alias: another live record claims the path.
Alias(k) == \E j \in At(PathOf[k]) \ {k} : Live(j)

\* allowed_transition.
Allowed(hook, s) == hook \in {"PrepareRemove", "CancelRemove"} => s # "Removed"

-----------------------------------------------------------------------------
(* Locks.                                                                  *)

GateFree(k) == gate[k] = None /\ shared[k] = {}

ReleaseAll(p) ==
    /\ registry' = IF registry = p THEN None ELSE registry
    /\ gate' = [k \in WorktreeKey |-> IF gate[k] = p THEN None ELSE gate[k]]
    /\ shared' = [k \in WorktreeKey |-> shared[k] \ {p}]

Goto(p, place) == pc' = [pc EXCEPT ![p] = place]

\* p returns, or dies: its locks are dropped.
Leave(p) ==
    /\ ReleaseAll(p)
    /\ Goto(p, "idle")
    /\ event' = [event EXCEPT ![p] = "none"]
    /\ path' = [path EXCEPT ![p] = None]
    /\ key' = [key EXCEPT ![p] = None]
    /\ seen' = [seen EXCEPT ![p] = "unregistered"]

\* A manager looks after path d from its prepare-remove to its last report.
Manages(p) == event[p] \in {"PrepareRemove", "Removed", "CancelRemove"}

Managed(d) == \E p \in Process : path[p] = d /\ Manages(p)

Begin(p, what, d, k, place) ==
    /\ pc[p] = "idle"
    /\ event' = [event EXCEPT ![p] = what]
    /\ path' = [path EXCEPT ![p] = d]
    /\ key' = [key EXCEPT ![p] = k]
    /\ Goto(p, place)
    /\ UNCHANGED <<checkout, state, lockVars, seen>>

\* A worktree is checked out at its own path.
Checkouts ==
    {c \in [Path -> WorktreeKey \cup {None}] : \A d \in Path : c[d] # None => PathOf[c[d]] = d}

Init ==
    /\ checkout \in Checkouts
    /\ state = [k \in WorktreeKey |-> "unregistered"]
    /\ registry = None
    /\ gate = [k \in WorktreeKey |-> None]
    /\ shared = [k \in WorktreeKey |-> {}]
    /\ pc = [p \in Process |-> "idle"]
    /\ event = [p \in Process |-> "none"]
    /\ path = [p \in Process |-> None]
    /\ key = [p \in Process |-> None]
    /\ seen = [p \in Process |-> "unregistered"]

-----------------------------------------------------------------------------
(* Builds: acquire_admission.                                              *)

\* The build context is resolved from the worktree that is there.
StartBuild(p, k) == checkout[PathOf[k]] = k /\ Begin(p, "Build", PathOf[k], k, "admit")

\* Mutant of EnterShared: the registration is read before the gate is taken.
EnterSharedLate(p) ==
    /\ \/ /\ pc[p] = "admit" /\ Goto(p, "checked")
          /\ state[key[p]] \in {"unregistered", "Ready"} /\ UNCHANGED shared
       \/ /\ pc[p] = "checked" /\ gate[key[p]] = None /\ Goto(p, "building")
          /\ shared' = [shared EXCEPT ![key[p]] = @ \cup {p}]
    /\ UNCHANGED <<checkout, state, registry, gate, event, path, key, seen>>

\* SharedFileLock::acquire on the gate of the context's key.
EnterShared(p) ==
    /\ pc[p] = "admit" /\ gate[key[p]] = None
    /\ shared' = [shared EXCEPT ![key[p]] = @ \cup {p}]
    /\ Goto(p, "admitted")
    /\ UNCHANGED <<checkout, state, registry, gate, event, path, key, seen>>

\* Then the registration is read; WorktreeAdmissionBlocked unless it is Ready.
ReadRegistration(p) ==
    /\ pc[p] = "admitted"
    /\ \/ /\ state[key[p]] \in {"unregistered", "Ready"}
          /\ Goto(p, "building")
          /\ UNCHANGED <<lockVars, event, path, key, seen>>
       \/ Leave(p)
    /\ UNCHANGED <<checkout, state>>

\* The lease is finished or dropped, and with it the gate.
EndBuild(p) ==
    /\ pc[p] = "building" /\ Leave(p)
    /\ UNCHANGED <<checkout, state>>

-----------------------------------------------------------------------------
(* Hooks.  Those that are given a path look its record up under the        *)
(* registry lock; the others were given a context resolved from Git, before *)
(* they had any lock.                                                      *)

StartReady(p, k) == checkout[PathOf[k]] = k /\ Begin(p, "Ready", PathOf[k], k, "registry")

StartManager(p, d) ==
    /\ ~Managed(d)
    /\ \/ \E hook \in {"PrepareRemove", "Removed"} : Begin(p, hook, d, None, "registry")
       \/ checkout[d] # None /\ Begin(p, "CancelRemove", d, checkout[d], "registry")

\* Mutant of AcquireRegistry: it is shared instead of exclusive.
AcquireRegistryShared(p) ==
    /\ pc[p] = "registry"
    /\ registry' = p
    /\ Goto(p, IF key[p] = None THEN "find" ELSE "gate")
    /\ UNCHANGED <<checkout, state, gate, shared, event, path, key, seen>>

AcquireRegistry(p) ==
    /\ pc[p] = "registry" /\ registry = None
    /\ registry' = p
    /\ Goto(p, IF key[p] = None THEN "find" ELSE "gate")
    /\ UNCHANGED <<checkout, state, gate, shared, event, path, key, seen>>

\* hook_ready and hook_cancel_remove wait for the gate, the registry lock in hand ...
WaitForGate(p) ==
    /\ pc[p] = "gate" /\ GateFree(key[p])
    /\ gate' = [gate EXCEPT ![key[p]] = p]
    /\ Goto(p, "read")
    /\ UNCHANGED <<checkout, state, registry, shared, event, path, key, seen>>

\* ... and read the record then; hook_ready looks for an alias first.
ReadRecord(p) ==
    /\ pc[p] = "read"
    /\ IF event[p] = "Ready" /\ Alias(key[p])
          THEN Leave(p)
          ELSE /\ seen' = [seen EXCEPT ![p] = state[key[p]]]
               /\ Goto(p, "commit")
               /\ UNCHANGED <<lockVars, event, path, key>>
    /\ UNCHANGED <<checkout, state>>

\* hook_prepare_remove and hook_removed have only a path: they read the record
\* before they know its gate, or find "no validated worktree registration" ...
FindRecord(p) ==
    /\ pc[p] = "find"
    /\ \/ /\ Selected(path[p]) = {} /\ Leave(p)
       \/ /\ \E k \in Selected(path[p]) :
                /\ key' = [key EXCEPT ![p] = k]
                /\ seen' = [seen EXCEPT ![p] = state[k]]
          /\ Goto(p, "try")
          /\ UNCHANGED <<lockVars, event, path>>
    /\ UNCHANGED <<checkout, state>>

\* ... and try the gate: a holder is an ActiveBuild, and the end of the hook.
TryGate(p) ==
    /\ pc[p] = "try"
    /\ IF GateFree(key[p])
          THEN /\ gate' = [gate EXCEPT ![key[p]] = p]
               /\ Goto(p, "commit")
               /\ UNCHANGED <<registry, shared, event, path, key, seen>>
          ELSE Leave(p)
    /\ UNCHANGED <<checkout, state>>

Set(k, next) == state' = [state EXCEPT ![k] = next]

\* Mutant of CommitReady: a draining worktree is registered anew.
CommitReadyAnyway(p) ==
    /\ pc[p] = "commit" /\ event[p] = "Ready"
    /\ Set(key[p], "Ready")
    /\ Leave(p) /\ UNCHANGED checkout

\* hook_ready: a draining worktree is left alone.  No check that the worktree is
\* still there is made under the locks.
CommitReady(p) ==
    /\ pc[p] = "commit" /\ event[p] = "Ready"
    /\ IF seen[p] = "Draining"
          THEN UNCHANGED state
          ELSE Set(key[p], "Ready")
    /\ Leave(p) /\ UNCHANGED checkout

\* Mutant of CommitPrepareRemove: the gate is kept until the manager is done.
CommitPrepareRemoveKeepsGate(p) ==
    /\ pc[p] = "commit" /\ event[p] = "PrepareRemove"
    /\ \/ /\ Allowed("PrepareRemove", seen[p])
          /\ Set(key[p], "Draining")
          /\ registry' = None
          /\ Goto(p, "granted") /\ UNCHANGED <<gate, shared, event, path, key, seen>>
       \/ Leave(p) /\ UNCHANGED state
    /\ UNCHANGED checkout

\* hook_prepare_remove: the manager may go on when the record says Draining, be
\* it new or "already current".  An error is reported, and the manager stops,
\* even when the record that caused it is visible.
CommitPrepareRemove(p) ==
    /\ pc[p] = "commit" /\ event[p] = "PrepareRemove"
    /\ \/ /\ Allowed("PrepareRemove", seen[p])
          /\ Set(key[p], "Draining")
          /\ \/ ReleaseAll(p) /\ Goto(p, "granted") /\ UNCHANGED <<event, path, key, seen>>
             \/ Leave(p)
       \/ ~Allowed("PrepareRemove", seen[p]) /\ Leave(p) /\ UNCHANGED state
    /\ UNCHANGED checkout

\* hook_removed: only what was draining, and only when its path is gone.
CommitRemoved(p) ==
    /\ pc[p] = "commit" /\ event[p] = "Removed"
    /\ IF seen[p] = "Draining" /\ checkout[path[p]] = None
          THEN Set(key[p], "Removed")
          ELSE UNCHANGED state
    /\ Leave(p) /\ UNCHANGED checkout

\* hook_cancel_remove: a record that exists and is not Removed is Ready again.
\* validate_cancel cannot fail: equal keys are derived from equal identities.
CommitCancelRemove(p) ==
    /\ pc[p] = "commit" /\ event[p] = "CancelRemove"
    /\ IF seen[p] # "unregistered" /\ Allowed("CancelRemove", seen[p])
          THEN Set(key[p], "Ready")
          ELSE UNCHANGED state
    /\ Leave(p) /\ UNCHANGED checkout

-----------------------------------------------------------------------------
(* The manager, Git, and the death of a process.                           *)

\* With the grant of prepare-remove the manager removes the worktree and
\* reports it ...
ManagerRemoves(p) ==
    /\ pc[p] = "granted"
    /\ checkout' = [checkout EXCEPT ![path[p]] = None]
    /\ event' = [event EXCEPT ![p] = "Removed"]
    /\ key' = [key EXCEPT ![p] = None]
    /\ Goto(p, "registry")
    /\ UNCHANGED <<state, lockVars, path, seen>>

\* ... or fails to, and cancels; the context of cancel-remove is resolved from
\* the worktree that is still there.
ManagerCancels(p) ==
    /\ pc[p] = "granted" /\ checkout[path[p]] # None
    /\ event' = [event EXCEPT ![p] = "CancelRemove"]
    /\ key' = [key EXCEPT ![p] = checkout[path[p]]]
    /\ Goto(p, "registry")
    /\ UNCHANGED <<checkout, state, lockVars, path, seen>>

\* A worktree is checked out where there is none, or goes without any hook.
Checkout(d, k) ==
    /\ checkout[d] = None /\ PathOf[k] = d
    /\ checkout' = [checkout EXCEPT ![d] = k]
    /\ UNCHANGED <<state, lockVars, processVars>>

Discard(d) ==
    /\ checkout[d] # None /\ ~Managed(d)
    /\ checkout' = [checkout EXCEPT ![d] = None]
    /\ UNCHANGED <<state, lockVars, processVars>>

\* p dies, or an operation of the system fails and p returns an error.  After an
\* error in write_json or create_json the new record may be visible.
Crash(p) ==
    /\ pc[p] # "idle" /\ Leave(p)
    /\ UNCHANGED <<checkout, state>>

-----------------------------------------------------------------------------
(* The specification.                                                      *)

Commit(p) ==
    \/ CommitReady(p) \/ CommitPrepareRemove(p) \/ CommitRemoved(p) \/ CommitCancelRemove(p)

\* What a process does next without anybody's leave but that of a lock's holder.
Step(p) ==
    \/ EnterShared(p) \/ ReadRegistration(p)
    \/ AcquireRegistry(p) \/ WaitForGate(p) \/ ReadRecord(p) \/ FindRecord(p) \/ TryGate(p)
    \/ Commit(p)

Start(p) ==
    \/ \E k \in WorktreeKey : StartBuild(p, k) \/ StartReady(p, k)
    \/ \E d \in Path : StartManager(p, d)

Manager(p) == ManagerRemoves(p) \/ ManagerCancels(p)

Git(d) == Discard(d) \/ \E k \in WorktreeKey : Checkout(d, k)

Next ==
    \/ \E p \in Process : Start(p) \/ Step(p) \/ EndBuild(p) \/ Manager(p) \/ Crash(p)
    \/ \E d \in Path : Git(d)

Spec == Init /\ [][Next]_vars

\* A process that can go on does.  Nothing makes a build end.
FairSpec == Spec /\ \A p \in Process : WF_vars(Step(p))

\* The same, and a lock that is free again and again is granted in the end: more
\* than an operating system promises.
FairLocksSpec ==
    /\ FairSpec
    /\ \A p \in Process :
          SF_vars(AcquireRegistry(p)) /\ SF_vars(WaitForGate(p)) /\ SF_vars(EnterShared(p))

-----------------------------------------------------------------------------
(* Properties.                                                             *)

Place == {"idle", "admit", "admitted", "building",
          "registry", "gate", "read", "find", "try", "commit", "granted"}

\* Every variable keeps to its type.
TypeOK ==
    /\ checkout \in Checkouts
    /\ state \in [WorktreeKey -> State]
    /\ registry \in Process \cup {None}
    /\ gate \in [WorktreeKey -> Process \cup {None}]
    /\ shared \in [WorktreeKey -> SUBSET Process]
    /\ pc \in [Process -> Place]
    /\ event \in [Process -> Hook \cup {"Build", "none"}]
    /\ path \in [Process -> Path \cup {None}]
    /\ key \in [Process -> WorktreeKey \cup {None}]
    /\ seen \in [Process -> State]

\* No build is admitted to, or goes on in, a worktree whose registration says that it
\* is being removed or was, although the registration is written by other processes
\* while builds come and go.
DrainingExcludesBuilds ==
    \A p \in Process : pc[p] = "building" => state[key[p]] \in {"unregistered", "Ready"}

\* A path has one live registration at most, whatever repositories take turns there
\* and wherever their managers die.
OneClaim ==
    \A j, k \in WorktreeKey : Live(j) /\ Live(k) /\ PathOf[j] = PathOf[k] => j = k

\* Between the prepare-remove that succeeded and the manager's next report, no `ready`
\* of anybody reopens the worktree and no build of it runs.
RemovalUndisturbed ==
    \A p \in Process :
        pc[p] = "granted" =>
            /\ state[key[p]] = "Draining"
            /\ \A q \in Process : pc[q] = "building" => key[q] # key[p]

\* No hook keeps the gate of a worktree from the builds that want it.
GateReleased == \A p \in Process, k \in WorktreeKey : gate[k] = p ~> gate[k] # p

\* docs/locking.md:62-63: prepare-remove uses nonblocking acquisition so that it
\* reports an active build rather than deadlocking with one.
PrepareReports ==
    \A p \in Process :
        pc[p] = "registry" /\ event[p] = "PrepareRemove" ~> pc[p] # "registry"

-----------------------------------------------------------------------------
(* An inductive invariant.                                                 *)

Keyed == {"admit", "admitted", "building", "gate", "read", "try", "commit", "granted"}
Registered == {"gate", "read", "find", "try", "commit"}

\* What a process has named at each place, and which locks it holds there.
PlaceAt(p) ==
    /\ pc[p] \in Keyed => key[p] \in WorktreeKey /\ PathOf[key[p]] = path[p]
    /\ pc[p] \in Registered \cup {"registry", "granted"} => path[p] \in Path
    /\ pc[p] = "registry" =>
          IF key[p] = None THEN event[p] \in {"PrepareRemove", "Removed"}
                           ELSE event[p] \in {"Ready", "CancelRemove"} /\ PathOf[key[p]] = path[p]
    /\ pc[p] \in {"find", "try"} => event[p] \in {"PrepareRemove", "Removed"}
    /\ pc[p] \in {"gate", "read"} => event[p] \in {"Ready", "CancelRemove"}
    /\ pc[p] = "granted" => event[p] = "PrepareRemove"
    /\ pc[p] \in {"admitted", "building"} => p \in shared[key[p]]
    /\ pc[p] \in Registered => registry = p
    /\ pc[p] \in {"read", "commit"} => gate[key[p]] = p

PlaceOK == \A p \in Process : PlaceAt(p)

\* A hook writes the record that it has read, and no alias has appeared since.
SeenIsCurrent ==
    \A p \in Process :
        /\ pc[p] \in {"try", "commit"} => seen[p] = state[key[p]]
        /\ pc[p] \in {"try", "commit"} /\ event[p] = "PrepareRemove" => seen[p] # "unregistered"
        /\ pc[p] = "commit" /\ event[p] = "Ready" => ~Alias(key[p])

\* The managers of one path take turns.
OneManager ==
    \A p, q \in Process :
        Manages(p) /\ Manages(q) /\ path[p] = path[q] /\ path[p] \in Path => p = q

\* The gate has one exclusive holder or any number of shared ones.
GateOK == \A k \in WorktreeKey : gate[k] = None \/ shared[k] = {}

\* The inductive invariant: it relates every lock to the place of its holder, and
\* every registration to the builds that its gate lets in.
Inv ==
    /\ TypeOK /\ PlaceOK /\ GateOK /\ SeenIsCurrent /\ OneManager
    /\ DrainingExcludesBuilds /\ OneClaim /\ RemovalUndisturbed

=============================================================================
