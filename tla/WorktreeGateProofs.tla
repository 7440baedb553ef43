------------------------- MODULE WorktreeGateProofs -------------------------
(***************************************************************************)
(* Theorems about WorktreeGate, for any number of worktrees, paths and     *)
(* processes.                                                              *)
(***************************************************************************)
EXTENDS WorktreeGate, TLAPS

\* The tuples of variables, the sets of places and the one-line assignments are always
\* expanded.
USE DEF lockVars, processVars, vars, Goto, Keyed, Registered, Hook, State, Place, Checkouts

-----------------------------------------------------------------------------
(* What the actions have in common.                                        *)

\* Only p moves.
Others(p) ==
    \A q \in Process \ {p} :
        /\ pc'[q] = pc[q] /\ event'[q] = event[q] /\ path'[q] = path[q]
        /\ key'[q] = key[q] /\ seen'[q] = seen[q]

\* p starts no management of a path.
StillManages(p) == Manages(p)' => Manages(p) /\ path'[p] = path[p]

Registrations ==
    SeenIsCurrent /\ OneManager /\ DrainingExcludesBuilds /\ OneClaim /\ RemovalUndisturbed

\* A process that returns, or dies, names nothing afterwards and frees what it held.
LEMMA LeaveEffect ==
    ASSUME TypeOK, NEW p \in Process, Leave(p)
    PROVE  /\ Others(p) /\ StillManages(p) /\ pc'[p] = "idle"
           /\ \A k \in WorktreeKey : gate'[k] = IF gate[k] = p THEN None ELSE gate[k]
           /\ \A k \in WorktreeKey : shared'[k] = shared[k] \ {p}
           /\ registry' = IF registry = p THEN None ELSE registry
BY DEF TypeOK, Leave, ReleaseAll, Others, StillManages, Manages

\* Nobody builds under the key of a hook that holds its gate.
LEMMA CommitterAlone ==
    ASSUME Inv, NEW p \in Process, pc[p] = "commit"
    PROVE  /\ key[p] \in WorktreeKey
           /\ \A q \in Process : pc[q] = "building" => key[q] # key[p]
           /\ \A q \in Process : pc[q] \in {"try", "commit"} => q = p
<1>1. key[p] \in WorktreeKey /\ shared[key[p]] = {} /\ registry = p
    BY WorktreeGateAssumption DEF Inv, TypeOK, PlaceOK, PlaceAt, GateOK
<1>2. ASSUME NEW q \in Process, pc[q] = "building" PROVE q \in shared[key[q]]
    BY <1>2 DEF Inv, PlaceOK, PlaceAt
<1>3. ASSUME NEW q \in Process, pc[q] \in {"try", "commit"} PROVE registry = q
    BY <1>3 DEF Inv, PlaceOK, PlaceAt
<1> QED
    BY <1>1, <1>2, <1>3

\* A step that writes no record and comes to no place that depends on one.
LEMMA QuietStep ==
    ASSUME Inv, NEW p \in Process, Others(p), StillManages(p), UNCHANGED state,
           pc'[p] \notin {"building", "granted", "try", "commit"}
    PROVE  Registrations'
<1>1. SeenIsCurrent'
    BY DEF Inv, Others, SeenIsCurrent, Alias, Live, At
<1>2. OneManager'
  <2>1. \A q \in Process : Manages(q)' => Manages(q) /\ path'[q] = path[q]
      BY DEF Others, StillManages, Manages
  <2> QED
      BY <2>1 DEF Inv, OneManager
<1>3. DrainingExcludesBuilds'
    BY DEF Inv, Others, DrainingExcludesBuilds
<1>4. OneClaim'
    BY DEF Inv, OneClaim, Live
<1>5. RemovalUndisturbed'
    BY DEF Inv, Others, RemovalUndisturbed
<1> QED
    BY <1>1, <1>2, <1>3, <1>4, <1>5 DEF Registrations

\* A hook that writes its record: it may make live what was live already or what has no
\* alias, and only the manager of the path may end a removal.
LEMMA CommitStep ==
    ASSUME Inv, NEW p \in Process, Others(p), StillManages(p), pc[p] = "commit",
           \A k \in WorktreeKey \ {key[p]} : state'[k] = state[k],
           state'[key[p]] \in {"Ready", "Draining"} => Live(key[p]) \/ ~Alias(key[p]),
           state[key[p]] = "Draining" /\ state'[key[p]] # "Draining" => Manages(p),
           pc'[p] = "idle" \/ (pc'[p] = "granted" /\ key'[p] = key[p] /\ state'[key[p]] = "Draining")
    PROVE  Registrations'
<1>1. SeenIsCurrent'
    BY CommitterAlone DEF Others, SeenIsCurrent
<1>2. OneManager'
  <2>1. \A q \in Process : Manages(q)' => Manages(q) /\ path'[q] = path[q]
      BY DEF Others, StillManages, Manages
  <2> QED
      BY <2>1 DEF Inv, OneManager
<1>3. DrainingExcludesBuilds'
  <2>1. ASSUME NEW q \in Process, pc'[q] = "building"
        PROVE  pc[q] = "building" /\ key'[q] = key[q] /\ key[q] \in WorktreeKey \ {key[p]}
      BY <2>1, CommitterAlone DEF Others, Inv, PlaceOK, PlaceAt
  <2> QED
      BY <2>1 DEF Inv, DrainingExcludesBuilds
<1>4. OneClaim'
    BY CommitterAlone DEF Inv, OneClaim, Live, Alias, At
<1>5. RemovalUndisturbed'
  <2>1. ASSUME NEW q \in Process, q # p, pc[q] = "granted"
        PROVE  key[q] \in WorktreeKey /\ state'[key[q]] = "Draining"
    <3>1. /\ key[q] \in WorktreeKey /\ state[key[q]] = "Draining"
          /\ PathOf[key[q]] = path[q] /\ path[q] \in Path /\ Manages(q)
        BY <2>1 DEF Inv, PlaceOK, PlaceAt, RemovalUndisturbed, Manages
    <3>2. key[q] = key[p] => path[p] = path[q]
        BY <3>1 DEF Inv, PlaceOK, PlaceAt
    <3> QED
        BY <2>1, <3>1, <3>2 DEF Inv, OneManager
  <2>2. ASSUME NEW q \in Process, pc'[q] = "building"
        PROVE  q # p /\ pc[q] = "building" /\ key'[q] = key[q] /\ key[q] # key[p]
      BY <2>2, CommitterAlone DEF Others
  <2>3. ASSUME NEW r \in Process, r # p, pc'[r] = "granted"
        PROVE  pc[r] = "granted" /\ key'[r] = key[r]
      BY <2>3 DEF Others
  <2> QED
      BY <2>1, <2>2, <2>3 DEF Inv, RemovalUndisturbed
<1> QED
    BY <1>1, <1>2, <1>3, <1>4, <1>5 DEF Registrations

-----------------------------------------------------------------------------
(* Each action preserves the invariant.                                    *)

\* A managed build of the worktree that is there.
LEMMA StartBuildStep ==
    ASSUME Inv, NEW p \in Process, NEW k \in WorktreeKey, StartBuild(p, k)
    PROVE  Inv'
<1>1. TypeOK'
    BY WorktreeGateAssumption DEF Inv, TypeOK, PlaceOK, PlaceAt, StartBuild, Begin
<1>2. PlaceOK'
  <2>1. ASSUME NEW q \in Process, q # p PROVE PlaceAt(q)'
      BY <2>1, WorktreeGateAssumption DEF Inv, TypeOK, PlaceOK, PlaceAt, StartBuild, Begin
  <2>2. PlaceAt(p)'
      BY WorktreeGateAssumption DEF Inv, TypeOK, PlaceOK, PlaceAt, SeenIsCurrent, StartBuild, Begin
  <2> QED
      BY <2>1, <2>2 DEF PlaceOK
<1>3. GateOK'
  <2>1. ASSUME NEW k_1 \in WorktreeKey PROVE (gate[k_1] = None \/ shared[k_1] = {})'
      BY WorktreeGateAssumption DEF Inv, TypeOK, PlaceOK, PlaceAt, GateOK, StartBuild, Begin
  <2> QED
      BY <2>1 DEF GateOK
<1>4. Registrations'
  <2>1. /\ Others(p) /\ StillManages(p) /\ UNCHANGED state
        /\ pc'[p] \notin {"building", "granted", "try", "commit"}
      BY WorktreeGateAssumption DEF Inv, TypeOK, PlaceOK, PlaceAt, Others, StillManages, Manages, StartBuild, Begin
  <2> QED
      BY <2>1, QuietStep
<1> QED
    BY <1>1, <1>2, <1>3, <1>4 DEF Inv, Registrations

\* A hook that registers the worktree that is there.
LEMMA StartReadyStep ==
    ASSUME Inv, NEW p \in Process, NEW k \in WorktreeKey, StartReady(p, k)
    PROVE  Inv'
<1>1. TypeOK'
    BY WorktreeGateAssumption DEF Inv, TypeOK, PlaceOK, PlaceAt, StartReady, Begin
<1>2. PlaceOK'
  <2>1. ASSUME NEW q \in Process, q # p PROVE PlaceAt(q)'
      BY <2>1, WorktreeGateAssumption DEF Inv, TypeOK, PlaceOK, PlaceAt, StartReady, Begin
  <2>2. PlaceAt(p)'
      BY WorktreeGateAssumption DEF Inv, TypeOK, PlaceOK, PlaceAt, SeenIsCurrent, StartReady, Begin
  <2> QED
      BY <2>1, <2>2 DEF PlaceOK
<1>3. GateOK'
  <2>1. ASSUME NEW k_1 \in WorktreeKey PROVE (gate[k_1] = None \/ shared[k_1] = {})'
      BY WorktreeGateAssumption DEF Inv, TypeOK, PlaceOK, PlaceAt, GateOK, StartReady, Begin
  <2> QED
      BY <2>1 DEF GateOK
<1>4. Registrations'
  <2>1. /\ Others(p) /\ StillManages(p) /\ UNCHANGED state
        /\ pc'[p] \notin {"building", "granted", "try", "commit"}
      BY WorktreeGateAssumption DEF Inv, TypeOK, PlaceOK, PlaceAt, Others, StillManages, Manages, StartReady, Begin
  <2> QED
      BY <2>1, QuietStep
<1> QED
    BY <1>1, <1>2, <1>3, <1>4 DEF Inv, Registrations

\* A manager that finds no other at its path.
LEMMA StartManagerStep ==
    ASSUME Inv, NEW p \in Process, NEW d \in Path, StartManager(p, d)
    PROVE  Inv'
<1>1. TypeOK'
    BY WorktreeGateAssumption DEF Inv, TypeOK, PlaceOK, PlaceAt, StartManager, Begin
<1>2. PlaceOK'
  <2>1. ASSUME NEW q \in Process, q # p PROVE PlaceAt(q)'
      BY <2>1, WorktreeGateAssumption DEF Inv, TypeOK, PlaceOK, PlaceAt, StartManager, Begin
  <2>2. PlaceAt(p)'
      BY WorktreeGateAssumption DEF Inv, TypeOK, PlaceOK, PlaceAt, SeenIsCurrent, StartManager, Begin
  <2> QED
      BY <2>1, <2>2 DEF PlaceOK
<1>3. GateOK'
  <2>1. ASSUME NEW k_1 \in WorktreeKey PROVE (gate[k_1] = None \/ shared[k_1] = {})'
      BY WorktreeGateAssumption DEF Inv, TypeOK, PlaceOK, PlaceAt, GateOK, StartManager, Begin
  <2> QED
      BY <2>1 DEF GateOK
<1>4. Registrations'
  <2>1. /\ path'[p] = d /\ ~Managed(d)
        /\ UNCHANGED state /\ pc'[p] = "registry"
        /\ Others(p)
      BY DEF Inv, TypeOK, Others, Manages, StartManager, Begin
  <2>2. SeenIsCurrent' /\ DrainingExcludesBuilds' /\ OneClaim' /\ RemovalUndisturbed'
      BY <2>1 DEF Inv, Others, SeenIsCurrent, Alias, Live, At, DrainingExcludesBuilds,
                  OneClaim, RemovalUndisturbed
  <2>3. OneManager'
    <3>1. ASSUME NEW q \in Process, q # p, Manages(q)'
          PROVE  Manages(q) /\ path'[q] = path[q]
        BY <2>1, <3>1 DEF Others, Manages
    <3>2. ASSUME NEW q \in Process, q # p, Manages(q)', Manages(p)' PROVE path'[q] # path'[p]
        BY <2>1, <3>1, <3>2 DEF Managed
    <3> QED
        BY <3>1, <3>2 DEF Inv, OneManager
  <2> QED
      BY <2>2, <2>3 DEF Registrations
<1> QED
    BY <1>1, <1>2, <1>3, <1>4 DEF Inv, Registrations

\* A build that takes the gate.
LEMMA EnterSharedStep ==
    ASSUME Inv, NEW p \in Process, EnterShared(p)
    PROVE  Inv'
<1>1. TypeOK'
    BY WorktreeGateAssumption DEF Inv, TypeOK, PlaceOK, PlaceAt, EnterShared
<1>2. PlaceOK'
  <2>1. ASSUME NEW q \in Process, q # p PROVE PlaceAt(q)'
      BY <2>1, WorktreeGateAssumption DEF Inv, TypeOK, PlaceOK, PlaceAt, EnterShared
  <2>2. PlaceAt(p)'
      BY WorktreeGateAssumption DEF Inv, TypeOK, PlaceOK, PlaceAt, SeenIsCurrent, EnterShared
  <2> QED
      BY <2>1, <2>2 DEF PlaceOK
<1>3. GateOK'
  <2>1. ASSUME NEW k_1 \in WorktreeKey PROVE (gate[k_1] = None \/ shared[k_1] = {})'
      BY WorktreeGateAssumption DEF Inv, TypeOK, PlaceOK, PlaceAt, GateOK, EnterShared
  <2> QED
      BY <2>1 DEF GateOK
<1>4. Registrations'
  <2>1. /\ Others(p) /\ StillManages(p) /\ UNCHANGED state
        /\ pc'[p] \notin {"building", "granted", "try", "commit"}
      BY WorktreeGateAssumption DEF Inv, TypeOK, PlaceOK, PlaceAt, Others, StillManages, Manages, EnterShared
  <2> QED
      BY <2>1, QuietStep
<1> QED
    BY <1>1, <1>2, <1>3, <1>4 DEF Inv, Registrations

\* A build that is admitted, or blocked.
LEMMA ReadRegistrationStep ==
    ASSUME Inv, NEW p \in Process, ReadRegistration(p)
    PROVE  Inv'
<1>1. TypeOK'
  <2>1. TypeOK /\ UNCHANGED <<checkout, state>>
      BY DEF Inv, ReadRegistration
  <2>2. CASE Leave(p)
    <3>1. registry' \in Process \cup {None} /\ gate' \in [WorktreeKey -> Process \cup {None}]
        BY <2>1, <2>2 DEF TypeOK, Leave, ReleaseAll
    <3>2. shared' \in [WorktreeKey -> SUBSET Process]
        BY <2>1, <2>2 DEF TypeOK, Leave, ReleaseAll
    <3>3. pc' \in [Process -> Place] /\ event' \in [Process -> Hook \cup {"Build", "none"}]
        BY <2>1, <2>2 DEF TypeOK, Leave
    <3>4. path' \in [Process -> Path \cup {None}] /\ key' \in [Process -> WorktreeKey \cup {None}]
        BY <2>1, <2>2 DEF TypeOK, Leave
    <3>5. seen' \in [Process -> State]
        BY <2>1, <2>2 DEF TypeOK, Leave
    <3> QED
        BY <2>1, <3>1, <3>2, <3>3, <3>4, <3>5 DEF TypeOK
  <2>3. CASE ~Leave(p)
    <3>1. /\ pc' = [pc EXCEPT ![p] = "building"]
          /\ UNCHANGED <<lockVars, event, path, key, seen>>
        BY <2>3 DEF ReadRegistration
    <3>2. pc' \in [Process -> Place]
        BY <2>1, <3>1 DEF TypeOK
    <3> QED
        BY <2>1, <3>1, <3>2 DEF TypeOK
  <2> QED
      BY <2>2, <2>3
<1>2. PlaceOK'
  <2>1. ASSUME NEW q \in Process, q # p PROVE PlaceAt(q)'
      BY <2>1, WorktreeGateAssumption DEF Inv, TypeOK, PlaceOK, PlaceAt, ReadRegistration, Leave, ReleaseAll
  <2>2. PlaceAt(p)'
      BY WorktreeGateAssumption DEF Inv, TypeOK, PlaceOK, PlaceAt, SeenIsCurrent, ReadRegistration, Leave, ReleaseAll
  <2> QED
      BY <2>1, <2>2 DEF PlaceOK
<1>3. GateOK'
  <2>1. ASSUME NEW k_1 \in WorktreeKey PROVE (gate[k_1] = None \/ shared[k_1] = {})'
      BY WorktreeGateAssumption DEF Inv, TypeOK, PlaceOK, PlaceAt, GateOK, ReadRegistration, Leave, ReleaseAll
  <2> QED
      BY <2>1 DEF GateOK
<1>4. Registrations'
  <2>1. CASE Leave(p)
      BY <2>1, LeaveEffect, QuietStep DEF Inv, ReadRegistration
  <2>2. CASE ~Leave(p)
    <3>1. /\ pc[p] = "admitted" /\ state[key[p]] \in {"unregistered", "Ready"}
          /\ pc'[p] = "building" /\ key[p] \in WorktreeKey
          /\ Others(p) /\ UNCHANGED <<state, event, path, key, seen>>
        BY <2>2 DEF Inv, TypeOK, PlaceOK, PlaceAt, Others, ReadRegistration
    <3>2. SeenIsCurrent' /\ DrainingExcludesBuilds' /\ OneClaim' /\ OneManager'
        BY <3>1 DEF Inv, Others, SeenIsCurrent, Alias, Live, At, DrainingExcludesBuilds,
                    OneClaim, OneManager, Manages
    <3>3. RemovalUndisturbed'
      <4>1. ASSUME NEW q \in Process, pc'[q] = "granted"
            PROVE  q # p /\ pc[q] = "granted" /\ state[key[q]] = "Draining" /\ key[q] # key[p]
          BY <4>1, <3>1 DEF Inv, Others, RemovalUndisturbed
      <4>2. \A r \in Process : pc'[r] = "building" => r = p \/ pc[r] = "building"
          BY <3>1 DEF Others
      <4> QED
          BY <3>1, <4>1, <4>2 DEF Inv, RemovalUndisturbed
    <3> QED
        BY <3>2, <3>3 DEF Registrations
  <2> QED
      BY <2>1, <2>2
<1> QED
    BY <1>1, <1>2, <1>3, <1>4 DEF Inv, Registrations

\* A build that is over.
LEMMA EndBuildStep ==
    ASSUME Inv, NEW p \in Process, EndBuild(p)
    PROVE  Inv'
<1>1. TypeOK'
    BY WorktreeGateAssumption DEF Inv, TypeOK, PlaceOK, PlaceAt, EndBuild, Leave, ReleaseAll
<1>2. PlaceOK'
  <2>1. ASSUME NEW q \in Process, q # p PROVE PlaceAt(q)'
      BY <2>1, WorktreeGateAssumption DEF Inv, TypeOK, PlaceOK, PlaceAt, EndBuild, Leave, ReleaseAll
  <2>2. PlaceAt(p)'
      BY WorktreeGateAssumption DEF Inv, TypeOK, PlaceOK, PlaceAt, SeenIsCurrent, EndBuild, Leave, ReleaseAll
  <2> QED
      BY <2>1, <2>2 DEF PlaceOK
<1>3. GateOK'
  <2>1. ASSUME NEW k_1 \in WorktreeKey PROVE (gate[k_1] = None \/ shared[k_1] = {})'
      BY WorktreeGateAssumption DEF Inv, TypeOK, PlaceOK, PlaceAt, GateOK, EndBuild, Leave, ReleaseAll
  <2> QED
      BY <2>1 DEF GateOK
<1>4. Registrations'
  <2>1. /\ Others(p) /\ StillManages(p) /\ UNCHANGED state
        /\ pc'[p] \notin {"building", "granted", "try", "commit"}
      BY WorktreeGateAssumption DEF Inv, TypeOK, PlaceOK, PlaceAt, Others, StillManages, Manages, EndBuild, Leave, ReleaseAll
  <2> QED
      BY <2>1, QuietStep
<1> QED
    BY <1>1, <1>2, <1>3, <1>4 DEF Inv, Registrations

\* A hook that takes the registry lock.
LEMMA AcquireRegistryStep ==
    ASSUME Inv, NEW p \in Process, AcquireRegistry(p)
    PROVE  Inv'
<1>1. TypeOK'
    BY WorktreeGateAssumption DEF Inv, TypeOK, PlaceOK, PlaceAt, AcquireRegistry
<1>2. PlaceOK'
  <2>1. ASSUME NEW q \in Process, q # p PROVE PlaceAt(q)'
      BY <2>1, WorktreeGateAssumption DEF Inv, TypeOK, PlaceOK, PlaceAt, AcquireRegistry
  <2>2. PlaceAt(p)'
      BY WorktreeGateAssumption DEF Inv, TypeOK, PlaceOK, PlaceAt, SeenIsCurrent, AcquireRegistry
  <2> QED
      BY <2>1, <2>2 DEF PlaceOK
<1>3. GateOK'
  <2>1. ASSUME NEW k_1 \in WorktreeKey PROVE (gate[k_1] = None \/ shared[k_1] = {})'
      BY WorktreeGateAssumption DEF Inv, TypeOK, PlaceOK, PlaceAt, GateOK, AcquireRegistry
  <2> QED
      BY <2>1 DEF GateOK
<1>4. Registrations'
  <2>1. /\ Others(p) /\ StillManages(p) /\ UNCHANGED state
        /\ pc'[p] \notin {"building", "granted", "try", "commit"}
      BY WorktreeGateAssumption DEF Inv, TypeOK, PlaceOK, PlaceAt, Others, StillManages, Manages, AcquireRegistry
  <2> QED
      BY <2>1, QuietStep
<1> QED
    BY <1>1, <1>2, <1>3, <1>4 DEF Inv, Registrations

\* A hook that has waited for the gate.
LEMMA WaitForGateStep ==
    ASSUME Inv, NEW p \in Process, WaitForGate(p)
    PROVE  Inv'
<1>1. TypeOK'
    BY WorktreeGateAssumption DEF Inv, TypeOK, PlaceOK, PlaceAt, WaitForGate, GateFree
<1>2. PlaceOK'
  <2>1. ASSUME NEW q \in Process, q # p PROVE PlaceAt(q)'
      BY <2>1, WorktreeGateAssumption DEF Inv, TypeOK, PlaceOK, PlaceAt, WaitForGate, GateFree
  <2>2. PlaceAt(p)'
      BY WorktreeGateAssumption DEF Inv, TypeOK, PlaceOK, PlaceAt, SeenIsCurrent, WaitForGate, GateFree
  <2> QED
      BY <2>1, <2>2 DEF PlaceOK
<1>3. GateOK'
  <2>1. ASSUME NEW k_1 \in WorktreeKey PROVE (gate[k_1] = None \/ shared[k_1] = {})'
      BY WorktreeGateAssumption DEF Inv, TypeOK, PlaceOK, PlaceAt, GateOK, WaitForGate, GateFree
  <2> QED
      BY <2>1 DEF GateOK
<1>4. Registrations'
  <2>1. /\ Others(p) /\ StillManages(p) /\ UNCHANGED state
        /\ pc'[p] \notin {"building", "granted", "try", "commit"}
      BY WorktreeGateAssumption DEF Inv, TypeOK, PlaceOK, PlaceAt, Others, StillManages, Manages, WaitForGate, GateFree
  <2> QED
      BY <2>1, QuietStep
<1> QED
    BY <1>1, <1>2, <1>3, <1>4 DEF Inv, Registrations

\* A hook that reads its record, or finds an alias.
LEMMA ReadRecordStep ==
    ASSUME Inv, NEW p \in Process, ReadRecord(p)
    PROVE  Inv'
<1>1. TypeOK'
  <2>1. CASE Leave(p)
      BY <2>1 DEF Inv, TypeOK, ReadRecord, Leave, ReleaseAll
  <2>2. CASE ~Leave(p)
      BY <2>2, WorktreeGateAssumption DEF Inv, TypeOK, PlaceOK, PlaceAt, ReadRecord, ReleaseAll
  <2> QED
      BY <2>1, <2>2
<1>2. PlaceOK'
  <2>1. ASSUME NEW q \in Process, q # p PROVE PlaceAt(q)'
      BY <2>1, WorktreeGateAssumption DEF Inv, TypeOK, PlaceOK, PlaceAt, ReadRecord, Leave, ReleaseAll
  <2>2. PlaceAt(p)'
      BY WorktreeGateAssumption DEF Inv, TypeOK, PlaceOK, PlaceAt, SeenIsCurrent, ReadRecord, Leave, ReleaseAll
  <2> QED
      BY <2>1, <2>2 DEF PlaceOK
<1>3. GateOK'
  <2>1. ASSUME NEW k_1 \in WorktreeKey PROVE (gate[k_1] = None \/ shared[k_1] = {})'
      BY WorktreeGateAssumption DEF Inv, TypeOK, PlaceOK, PlaceAt, GateOK, ReadRecord, Leave, ReleaseAll
  <2> QED
      BY <2>1 DEF GateOK
<1>4. Registrations'
  <2>1. CASE Leave(p)
      BY <2>1, LeaveEffect, QuietStep DEF Inv, ReadRecord
  <2>2. CASE ~Leave(p)
    <3>1. /\ Others(p) /\ UNCHANGED <<state, event, path>>
          /\ pc[p] \notin {"building", "granted"} /\ pc'[p] \in {"try", "commit"}
          /\ seen'[p] = state[key'[p]]
          /\ event[p] = "Ready" => ~Alias(key'[p])
          /\ event[p] # "PrepareRemove"
        BY <2>2 DEF Inv, TypeOK, PlaceOK, PlaceAt, SeenIsCurrent, Others, ReadRecord
    <3>2. DrainingExcludesBuilds' /\ OneClaim' /\ OneManager'
        BY <3>1 DEF Inv, Others, Live, DrainingExcludesBuilds, OneClaim, OneManager, Manages
    <3>3. SeenIsCurrent'
        BY <3>1 DEF Inv, Others, SeenIsCurrent, Alias, Live, At
    <3>4. RemovalUndisturbed'
        BY <3>1 DEF Inv, Others, RemovalUndisturbed
    <3> QED
        BY <3>2, <3>3, <3>4 DEF Registrations
  <2> QED
      BY <2>1, <2>2
<1> QED
    BY <1>1, <1>2, <1>3, <1>4 DEF Inv, Registrations

\* A hook that looks up the record of a path.
LEMMA FindRecordStep ==
    ASSUME Inv, NEW p \in Process, FindRecord(p)
    PROVE  Inv'
<1>1. TypeOK'
  <2>1. CASE Leave(p)
      BY <2>1 DEF Inv, TypeOK, FindRecord, Leave, ReleaseAll, Selected, At
  <2>2. CASE ~Leave(p)
      BY <2>2, WorktreeGateAssumption DEF Inv, TypeOK, PlaceOK, PlaceAt, FindRecord, ReleaseAll, Selected, At
  <2> QED
      BY <2>1, <2>2
<1>2. PlaceOK'
  <2>1. ASSUME NEW q \in Process, q # p PROVE PlaceAt(q)'
      BY <2>1, WorktreeGateAssumption DEF Inv, TypeOK, PlaceOK, PlaceAt, FindRecord, Leave, ReleaseAll, Selected, At
  <2>2. PlaceAt(p)'
      BY WorktreeGateAssumption DEF Inv, TypeOK, PlaceOK, PlaceAt, SeenIsCurrent, FindRecord, Leave, ReleaseAll, Selected, At
  <2> QED
      BY <2>1, <2>2 DEF PlaceOK
<1>3. GateOK'
  <2>1. ASSUME NEW k_1 \in WorktreeKey PROVE (gate[k_1] = None \/ shared[k_1] = {})'
      BY WorktreeGateAssumption DEF Inv, TypeOK, PlaceOK, PlaceAt, GateOK, FindRecord, Leave, ReleaseAll, Selected, At
  <2> QED
      BY <2>1 DEF GateOK
<1>4. Registrations'
  <2>1. CASE Leave(p)
      BY <2>1, LeaveEffect, QuietStep DEF Inv, FindRecord
  <2>2. CASE ~Leave(p)
    <3>1. /\ Others(p) /\ UNCHANGED <<state, event, path>>
          /\ pc[p] \notin {"building", "granted"} /\ pc'[p] \in {"try", "commit"}
          /\ seen'[p] = state[key'[p]]
          /\ event[p] # "Ready" /\ seen'[p] # "unregistered"
        BY <2>2 DEF Inv, TypeOK, PlaceOK, PlaceAt, SeenIsCurrent, Others, FindRecord, Selected, At, Live
    <3>2. DrainingExcludesBuilds' /\ OneClaim' /\ OneManager'
        BY <3>1 DEF Inv, Others, Live, DrainingExcludesBuilds, OneClaim, OneManager, Manages
    <3>3. SeenIsCurrent'
        BY <3>1 DEF Inv, Others, SeenIsCurrent, Alias, Live, At
    <3>4. RemovalUndisturbed'
        BY <3>1 DEF Inv, Others, RemovalUndisturbed
    <3> QED
        BY <3>2, <3>3, <3>4 DEF Registrations
  <2> QED
      BY <2>1, <2>2
<1> QED
    BY <1>1, <1>2, <1>3, <1>4 DEF Inv, Registrations

\* A hook that gets the gate, or finds an active build.
LEMMA TryGateStep ==
    ASSUME Inv, NEW p \in Process, TryGate(p)
    PROVE  Inv'
<1>1. TypeOK'
  <2>1. CASE Leave(p)
      BY <2>1 DEF Inv, TypeOK, TryGate, Leave, ReleaseAll, GateFree
  <2>2. CASE ~Leave(p)
      BY <2>2, WorktreeGateAssumption DEF Inv, TypeOK, PlaceOK, PlaceAt, TryGate, ReleaseAll, GateFree
  <2> QED
      BY <2>1, <2>2
<1>2. PlaceOK'
  <2>1. ASSUME NEW q \in Process, q # p PROVE PlaceAt(q)'
      BY <2>1, WorktreeGateAssumption DEF Inv, TypeOK, PlaceOK, PlaceAt, TryGate, Leave, ReleaseAll, GateFree
  <2>2. PlaceAt(p)'
      BY WorktreeGateAssumption DEF Inv, TypeOK, PlaceOK, PlaceAt, SeenIsCurrent, TryGate, Leave, ReleaseAll, GateFree
  <2> QED
      BY <2>1, <2>2 DEF PlaceOK
<1>3. GateOK'
  <2>1. ASSUME NEW k_1 \in WorktreeKey PROVE (gate[k_1] = None \/ shared[k_1] = {})'
      BY WorktreeGateAssumption DEF Inv, TypeOK, PlaceOK, PlaceAt, GateOK, TryGate, Leave, ReleaseAll, GateFree
  <2> QED
      BY <2>1 DEF GateOK
<1>4. Registrations'
  <2>1. CASE Leave(p)
      BY <2>1, LeaveEffect, QuietStep DEF Inv, TryGate
  <2>2. CASE ~Leave(p)
    <3>1. /\ Others(p) /\ UNCHANGED <<state, event, path>>
          /\ pc[p] \notin {"building", "granted"} /\ pc'[p] \in {"try", "commit"}
          /\ seen'[p] = state[key'[p]]
          /\ event[p] # "Ready" /\ (event[p] = "PrepareRemove" => seen'[p] # "unregistered")
        BY <2>2 DEF Inv, TypeOK, PlaceOK, PlaceAt, SeenIsCurrent, Others, TryGate
    <3>2. DrainingExcludesBuilds' /\ OneClaim' /\ OneManager'
        BY <3>1 DEF Inv, Others, Live, DrainingExcludesBuilds, OneClaim, OneManager, Manages
    <3>3. SeenIsCurrent'
        BY <3>1 DEF Inv, Others, SeenIsCurrent, Alias, Live, At
    <3>4. RemovalUndisturbed'
        BY <3>1 DEF Inv, Others, RemovalUndisturbed
    <3> QED
        BY <3>2, <3>3, <3>4 DEF Registrations
  <2> QED
      BY <2>1, <2>2
<1> QED
    BY <1>1, <1>2, <1>3, <1>4 DEF Inv, Registrations

\* A worktree that is registered, or stays as it was.
LEMMA CommitReadyStep ==
    ASSUME Inv, NEW p \in Process, CommitReady(p)
    PROVE  Inv'
<1>1. TypeOK'
    BY WorktreeGateAssumption DEF Inv, TypeOK, PlaceOK, PlaceAt, CommitReady, Leave, ReleaseAll, Set
<1>2. PlaceOK'
  <2>1. ASSUME NEW q \in Process, q # p PROVE PlaceAt(q)'
      BY <2>1, WorktreeGateAssumption DEF Inv, TypeOK, PlaceOK, PlaceAt, CommitReady, Leave, ReleaseAll, Set
  <2>2. PlaceAt(p)'
      BY WorktreeGateAssumption DEF Inv, TypeOK, PlaceOK, PlaceAt, SeenIsCurrent, CommitReady, Leave, ReleaseAll, Set
  <2> QED
      BY <2>1, <2>2 DEF PlaceOK
<1>3. GateOK'
  <2>1. ASSUME NEW k_1 \in WorktreeKey PROVE (gate[k_1] = None \/ shared[k_1] = {})'
      BY WorktreeGateAssumption DEF Inv, TypeOK, PlaceOK, PlaceAt, GateOK, CommitReady, Leave, ReleaseAll, Set
  <2> QED
      BY <2>1 DEF GateOK
<1>4. Registrations'
  <2>1. /\ pc[p] = "commit" /\ key[p] \in WorktreeKey /\ seen[p] = state[key[p]]
        /\ (event[p] = "Ready" => ~Alias(key[p]))
        /\ (event[p] = "PrepareRemove" => seen[p] # "unregistered")
      BY DEF Inv, PlaceOK, PlaceAt, SeenIsCurrent, CommitReady
  <2>2. /\ \A k \in WorktreeKey \ {key[p]} : state'[k] = state[k]
        /\ state'[key[p]] \in {"Ready", "Draining"} => Live(key[p]) \/ ~Alias(key[p])
        /\ state[key[p]] = "Draining" /\ state'[key[p]] # "Draining" => Manages(p)
      BY <2>1 DEF Inv, TypeOK, Manages, Live, CommitReady, Set
  <2>3. Others(p) /\ StillManages(p) /\ pc'[p] = "idle"
      BY LeaveEffect DEF Inv, CommitReady
  <2> QED
      BY <2>1, <2>2, <2>3, CommitStep
<1> QED
    BY <1>1, <1>2, <1>3, <1>4 DEF Inv, Registrations

\* A worktree that drains.
LEMMA CommitPrepareRemoveStep ==
    ASSUME Inv, NEW p \in Process, CommitPrepareRemove(p)
    PROVE  Inv'
<1>1. TypeOK'
  <2>1. CASE Leave(p)
      BY <2>1 DEF Inv, TypeOK, CommitPrepareRemove, Leave, ReleaseAll, Set, Allowed
  <2>2. CASE ~Leave(p)
      BY <2>2, WorktreeGateAssumption DEF Inv, TypeOK, PlaceOK, PlaceAt, CommitPrepareRemove, ReleaseAll, Set, Allowed
  <2> QED
      BY <2>1, <2>2
<1>2. PlaceOK'
  <2>1. ASSUME NEW q \in Process, q # p PROVE PlaceAt(q)'
      BY <2>1, WorktreeGateAssumption DEF Inv, TypeOK, PlaceOK, PlaceAt, CommitPrepareRemove, Leave, ReleaseAll, Set, Allowed
  <2>2. PlaceAt(p)'
      BY WorktreeGateAssumption DEF Inv, TypeOK, PlaceOK, PlaceAt, SeenIsCurrent, CommitPrepareRemove, Leave, ReleaseAll, Set, Allowed
  <2> QED
      BY <2>1, <2>2 DEF PlaceOK
<1>3. GateOK'
  <2>1. ASSUME NEW k_1 \in WorktreeKey PROVE (gate[k_1] = None \/ shared[k_1] = {})'
      BY WorktreeGateAssumption DEF Inv, TypeOK, PlaceOK, PlaceAt, GateOK, CommitPrepareRemove, Leave, ReleaseAll, Set, Allowed
  <2> QED
      BY <2>1 DEF GateOK
<1>4. Registrations'
  <2>1. /\ pc[p] = "commit" /\ key[p] \in WorktreeKey /\ seen[p] = state[key[p]]
        /\ (event[p] = "Ready" => ~Alias(key[p]))
        /\ (event[p] = "PrepareRemove" => seen[p] # "unregistered")
      BY DEF Inv, PlaceOK, PlaceAt, SeenIsCurrent, CommitPrepareRemove
  <2>2. /\ \A k \in WorktreeKey \ {key[p]} : state'[k] = state[k]
        /\ state'[key[p]] \in {"Ready", "Draining"} => Live(key[p]) \/ ~Alias(key[p])
        /\ state[key[p]] = "Draining" /\ state'[key[p]] # "Draining" => Manages(p)
      BY <2>1 DEF Inv, TypeOK, Manages, Live, CommitPrepareRemove, Set, Allowed
  <2>3. /\ Others(p) /\ StillManages(p)
        /\ pc'[p] = "idle" \/ (pc'[p] = "granted" /\ key'[p] = key[p] /\ state'[key[p]] = "Draining")
    <3>1. CASE Leave(p)
      <4>1. Others(p) /\ StillManages(p) /\ pc'[p] = "idle"
          BY <3>1, LeaveEffect DEF Inv
      <4> QED
          BY <4>1
    <3>2. CASE ~Leave(p)
        BY <2>1, <3>2 DEF Inv, TypeOK, Others, StillManages, Manages, CommitPrepareRemove, Set
    <3> QED
        BY <3>1, <3>2
  <2> QED
      BY <2>1, <2>2, <2>3, CommitStep
<1> QED
    BY <1>1, <1>2, <1>3, <1>4 DEF Inv, Registrations

\* A worktree that is recorded as removed.
LEMMA CommitRemovedStep ==
    ASSUME Inv, NEW p \in Process, CommitRemoved(p)
    PROVE  Inv'
<1>1. TypeOK'
    BY WorktreeGateAssumption DEF Inv, TypeOK, PlaceOK, PlaceAt, CommitRemoved, Leave, ReleaseAll, Set
<1>2. PlaceOK'
  <2>1. ASSUME NEW q \in Process, q # p PROVE PlaceAt(q)'
      BY <2>1, WorktreeGateAssumption DEF Inv, TypeOK, PlaceOK, PlaceAt, CommitRemoved, Leave, ReleaseAll, Set
  <2>2. PlaceAt(p)'
      BY WorktreeGateAssumption DEF Inv, TypeOK, PlaceOK, PlaceAt, SeenIsCurrent, CommitRemoved, Leave, ReleaseAll, Set
  <2> QED
      BY <2>1, <2>2 DEF PlaceOK
<1>3. GateOK'
  <2>1. ASSUME NEW k_1 \in WorktreeKey PROVE (gate[k_1] = None \/ shared[k_1] = {})'
      BY WorktreeGateAssumption DEF Inv, TypeOK, PlaceOK, PlaceAt, GateOK, CommitRemoved, Leave, ReleaseAll, Set
  <2> QED
      BY <2>1 DEF GateOK
<1>4. Registrations'
  <2>1. /\ pc[p] = "commit" /\ key[p] \in WorktreeKey /\ seen[p] = state[key[p]]
        /\ (event[p] = "Ready" => ~Alias(key[p]))
        /\ (event[p] = "PrepareRemove" => seen[p] # "unregistered")
      BY DEF Inv, PlaceOK, PlaceAt, SeenIsCurrent, CommitRemoved
  <2>2. /\ \A k \in WorktreeKey \ {key[p]} : state'[k] = state[k]
        /\ state'[key[p]] \in {"Ready", "Draining"} => Live(key[p]) \/ ~Alias(key[p])
        /\ state[key[p]] = "Draining" /\ state'[key[p]] # "Draining" => Manages(p)
      BY <2>1 DEF Inv, TypeOK, Manages, Live, CommitRemoved, Set
  <2>3. Others(p) /\ StillManages(p) /\ pc'[p] = "idle"
      BY LeaveEffect DEF Inv, CommitRemoved
  <2> QED
      BY <2>1, <2>2, <2>3, CommitStep
<1> QED
    BY <1>1, <1>2, <1>3, <1>4 DEF Inv, Registrations

\* A removal that is cancelled.
LEMMA CommitCancelRemoveStep ==
    ASSUME Inv, NEW p \in Process, CommitCancelRemove(p)
    PROVE  Inv'
<1>1. TypeOK'
    BY WorktreeGateAssumption DEF Inv, TypeOK, PlaceOK, PlaceAt, CommitCancelRemove, Leave, ReleaseAll, Set, Allowed
<1>2. PlaceOK'
  <2>1. ASSUME NEW q \in Process, q # p PROVE PlaceAt(q)'
      BY <2>1, WorktreeGateAssumption DEF Inv, TypeOK, PlaceOK, PlaceAt, CommitCancelRemove, Leave, ReleaseAll, Set, Allowed
  <2>2. PlaceAt(p)'
      BY WorktreeGateAssumption DEF Inv, TypeOK, PlaceOK, PlaceAt, SeenIsCurrent, CommitCancelRemove, Leave, ReleaseAll, Set, Allowed
  <2> QED
      BY <2>1, <2>2 DEF PlaceOK
<1>3. GateOK'
  <2>1. ASSUME NEW k_1 \in WorktreeKey PROVE (gate[k_1] = None \/ shared[k_1] = {})'
      BY WorktreeGateAssumption DEF Inv, TypeOK, PlaceOK, PlaceAt, GateOK, CommitCancelRemove, Leave, ReleaseAll, Set, Allowed
  <2> QED
      BY <2>1 DEF GateOK
<1>4. Registrations'
  <2>1. /\ pc[p] = "commit" /\ key[p] \in WorktreeKey /\ seen[p] = state[key[p]]
        /\ (event[p] = "Ready" => ~Alias(key[p]))
        /\ (event[p] = "PrepareRemove" => seen[p] # "unregistered")
      BY DEF Inv, PlaceOK, PlaceAt, SeenIsCurrent, CommitCancelRemove
  <2>2. /\ \A k \in WorktreeKey \ {key[p]} : state'[k] = state[k]
        /\ state'[key[p]] \in {"Ready", "Draining"} => Live(key[p]) \/ ~Alias(key[p])
        /\ state[key[p]] = "Draining" /\ state'[key[p]] # "Draining" => Manages(p)
      BY <2>1 DEF Inv, TypeOK, Manages, Live, CommitCancelRemove, Set, Allowed
  <2>3. Others(p) /\ StillManages(p) /\ pc'[p] = "idle"
      BY LeaveEffect DEF Inv, CommitCancelRemove
  <2> QED
      BY <2>1, <2>2, <2>3, CommitStep
<1> QED
    BY <1>1, <1>2, <1>3, <1>4 DEF Inv, Registrations

\* A manager that has removed the worktree.
LEMMA ManagerRemovesStep ==
    ASSUME Inv, NEW p \in Process, ManagerRemoves(p)
    PROVE  Inv'
<1>1. TypeOK'
    BY WorktreeGateAssumption DEF Inv, TypeOK, PlaceOK, PlaceAt, ManagerRemoves
<1>2. PlaceOK'
  <2>1. ASSUME NEW q \in Process, q # p PROVE PlaceAt(q)'
      BY <2>1, WorktreeGateAssumption DEF Inv, TypeOK, PlaceOK, PlaceAt, ManagerRemoves
  <2>2. PlaceAt(p)'
      BY WorktreeGateAssumption DEF Inv, TypeOK, PlaceOK, PlaceAt, SeenIsCurrent, ManagerRemoves
  <2> QED
      BY <2>1, <2>2 DEF PlaceOK
<1>3. GateOK'
  <2>1. ASSUME NEW k_1 \in WorktreeKey PROVE (gate[k_1] = None \/ shared[k_1] = {})'
      BY WorktreeGateAssumption DEF Inv, TypeOK, PlaceOK, PlaceAt, GateOK, ManagerRemoves
  <2> QED
      BY <2>1 DEF GateOK
<1>4. Registrations'
  <2>1. /\ Others(p) /\ StillManages(p) /\ UNCHANGED state
        /\ pc'[p] \notin {"building", "granted", "try", "commit"}
      BY WorktreeGateAssumption DEF Inv, TypeOK, PlaceOK, PlaceAt, Others, StillManages, Manages, ManagerRemoves
  <2> QED
      BY <2>1, QuietStep
<1> QED
    BY <1>1, <1>2, <1>3, <1>4 DEF Inv, Registrations

\* A manager that could not.
LEMMA ManagerCancelsStep ==
    ASSUME Inv, NEW p \in Process, ManagerCancels(p)
    PROVE  Inv'
<1>1. TypeOK'
    BY WorktreeGateAssumption DEF Inv, TypeOK, PlaceOK, PlaceAt, ManagerCancels
<1>2. PlaceOK'
  <2>1. ASSUME NEW q \in Process, q # p PROVE PlaceAt(q)'
      BY <2>1, WorktreeGateAssumption DEF Inv, TypeOK, PlaceOK, PlaceAt, ManagerCancels
  <2>2. PlaceAt(p)'
      BY WorktreeGateAssumption DEF Inv, TypeOK, PlaceOK, PlaceAt, SeenIsCurrent, ManagerCancels
  <2> QED
      BY <2>1, <2>2 DEF PlaceOK
<1>3. GateOK'
  <2>1. ASSUME NEW k_1 \in WorktreeKey PROVE (gate[k_1] = None \/ shared[k_1] = {})'
      BY WorktreeGateAssumption DEF Inv, TypeOK, PlaceOK, PlaceAt, GateOK, ManagerCancels
  <2> QED
      BY <2>1 DEF GateOK
<1>4. Registrations'
  <2>1. /\ Others(p) /\ StillManages(p) /\ UNCHANGED state
        /\ pc'[p] \notin {"building", "granted", "try", "commit"}
      BY WorktreeGateAssumption DEF Inv, TypeOK, PlaceOK, PlaceAt, Others, StillManages, Manages, ManagerCancels
  <2> QED
      BY <2>1, QuietStep
<1> QED
    BY <1>1, <1>2, <1>3, <1>4 DEF Inv, Registrations

\* A process that dies, or returns an error.
LEMMA CrashStep ==
    ASSUME Inv, NEW p \in Process, Crash(p)
    PROVE  Inv'
<1>1. TypeOK'
    BY WorktreeGateAssumption DEF Inv, TypeOK, PlaceOK, PlaceAt, Crash, Leave, ReleaseAll
<1>2. PlaceOK'
  <2>1. ASSUME NEW q \in Process, q # p PROVE PlaceAt(q)'
      BY <2>1, WorktreeGateAssumption DEF Inv, TypeOK, PlaceOK, PlaceAt, Crash, Leave, ReleaseAll
  <2>2. PlaceAt(p)'
      BY WorktreeGateAssumption DEF Inv, TypeOK, PlaceOK, PlaceAt, SeenIsCurrent, Crash, Leave, ReleaseAll
  <2> QED
      BY <2>1, <2>2 DEF PlaceOK
<1>3. GateOK'
  <2>1. ASSUME NEW k_1 \in WorktreeKey PROVE (gate[k_1] = None \/ shared[k_1] = {})'
      BY WorktreeGateAssumption DEF Inv, TypeOK, PlaceOK, PlaceAt, GateOK, Crash, Leave, ReleaseAll
  <2> QED
      BY <2>1 DEF GateOK
<1>4. Registrations'
  <2>1. /\ Others(p) /\ StillManages(p) /\ UNCHANGED state
        /\ pc'[p] \notin {"building", "granted", "try", "commit"}
      BY WorktreeGateAssumption DEF Inv, TypeOK, PlaceOK, PlaceAt, Others, StillManages, Manages, Crash, Leave, ReleaseAll
  <2> QED
      BY <2>1, QuietStep
<1> QED
    BY <1>1, <1>2, <1>3, <1>4 DEF Inv, Registrations

-----------------------------------------------------------------------------
\* Git moves worktrees about, and no process with them.
LEMMA GitStep ==
    ASSUME Inv, NEW d \in Path, Git(d)
    PROVE  Inv'
<1>1. TypeOK' /\ UNCHANGED <<state, lockVars, processVars>>
    BY DEF Inv, TypeOK, Git, Discard, Checkout
<1>2. PlaceOK' /\ GateOK'
    BY <1>1 DEF Inv, PlaceOK, PlaceAt, GateOK
<1>3. SeenIsCurrent' /\ OneManager'
    BY <1>1 DEF Inv, SeenIsCurrent, OneManager, Manages, Alias, Live, At
<1>4. DrainingExcludesBuilds' /\ OneClaim' /\ RemovalUndisturbed'
    BY <1>1 DEF Inv, DrainingExcludesBuilds, OneClaim, RemovalUndisturbed, Live
<1> QED
    BY <1>1, <1>2, <1>3, <1>4 DEF Inv

-----------------------------------------------------------------------------
(* The inductive invariant and what follows from it.                       *)

\* The invariant holds in the initial states.
LEMMA InitInv == Init => Inv
<1> SUFFICES ASSUME Init PROVE Inv
    OBVIOUS
<1>1. TypeOK /\ PlaceOK /\ GateOK
    BY DEF Init, TypeOK, PlaceOK, PlaceAt, GateOK
<1>2. SeenIsCurrent /\ OneManager /\ DrainingExcludesBuilds /\ OneClaim /\ RemovalUndisturbed
    BY DEF Init, SeenIsCurrent, OneManager, Manages, DrainingExcludesBuilds, OneClaim,
           RemovalUndisturbed, Live
<1> QED
    BY <1>1, <1>2 DEF Inv

\* The invariant is preserved by every step, and by none.
LEMMA StepInv == Inv /\ [Next]_vars => Inv'
<1> SUFFICES ASSUME Inv, [Next]_vars PROVE Inv'
    OBVIOUS
<1>1. ASSUME NEW p \in Process, Start(p) PROVE Inv'
    BY <1>1, StartBuildStep, StartReadyStep, StartManagerStep DEF Start
<1>2. ASSUME NEW p \in Process, Step(p) PROVE Inv'
  <2>1. CASE Commit(p)
      BY <2>1, CommitReadyStep, CommitPrepareRemoveStep, CommitRemovedStep, CommitCancelRemoveStep
         DEF Commit
  <2> QED
      BY <1>2, <2>1, EnterSharedStep, ReadRegistrationStep, AcquireRegistryStep, WaitForGateStep,
         ReadRecordStep, FindRecordStep, TryGateStep DEF Step
<1>3. ASSUME NEW p \in Process, EndBuild(p) \/ Manager(p) \/ Crash(p) PROVE Inv'
    BY <1>3, EndBuildStep, ManagerRemovesStep, ManagerCancelsStep, CrashStep DEF Manager
<1>4. ASSUME NEW d \in Path, Git(d) PROVE Inv'
    BY <1>4, GitStep
<1>5. CASE UNCHANGED vars
  <2>1. TypeOK' /\ PlaceOK' /\ GateOK'
      BY <1>5 DEF Inv, TypeOK, PlaceOK, PlaceAt, GateOK
  <2>2. SeenIsCurrent' /\ OneManager'
      BY <1>5 DEF Inv, SeenIsCurrent, OneManager, Manages, Alias, Live, At
  <2>3. DrainingExcludesBuilds' /\ OneClaim' /\ RemovalUndisturbed'
      BY <1>5 DEF Inv, DrainingExcludesBuilds, OneClaim, RemovalUndisturbed, Live
  <2> QED
      BY <2>1, <2>2, <2>3 DEF Inv
<1> QED
    BY <1>1, <1>2, <1>3, <1>4, <1>5 DEF Next

\* Every reachable state satisfies the inductive invariant, whichever hooks and builds meet
\* and wherever they die.
THEOREM InductiveInvariant == Spec => []Inv
BY InitInv, StepInv, PTL DEF Spec

\* Locks, registrations and the memory of every hook keep to their types.
THEOREM TypeCorrect == Spec => []TypeOK
<1>1. Inv => TypeOK
    BY DEF Inv
<1> QED
    BY InductiveInvariant, <1>1, PTL

\* No build runs in a worktree that is registered as Draining or Removed.
THEOREM BuildsExcluded == Spec => []DrainingExcludesBuilds
<1>1. Inv => DrainingExcludesBuilds
    BY DEF Inv
<1> QED
    BY InductiveInvariant, <1>1, PTL

\* No two live registrations claim one path.
THEOREM ClaimUnique == Spec => []OneClaim
<1>1. Inv => OneClaim
    BY DEF Inv
<1> QED
    BY InductiveInvariant, <1>1, PTL

\* What prepare-remove has granted lasts until the manager reports again.
THEOREM GrantHolds == Spec => []RemovalUndisturbed
<1>1. Inv => RemovalUndisturbed
    BY DEF Inv
<1> QED
    BY InductiveInvariant, <1>1, PTL

=============================================================================
