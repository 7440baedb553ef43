--------------------------- MODULE CapacityProofs ---------------------------
(* Proofs about Capacity, for any arenas, processes, sizes and budget.      *)
EXTENDS Capacity, SumProofs, TLAPS

\* The initial states satisfy the invariant.
LEMMA InitInv == Init => Inv
<1> SUFFICES ASSUME Init PROVE Inv
  OBVIOUS
<1> USE CapacityAssumption
<1>1. ASSUME NEW a \in Arena
      PROVE  \/ manifest[a] = Absent
             \/ \E n \in InitialSize \cup {Unknown} : manifest[a] = Found(n)
  BY DEF Init
<1>2. TypeOK
  <2>1. Absent \in Manifest
    BY DEF Absent, Manifest, Stage
  <2>2. \A n \in InitialSize \cup {Unknown} : Found(n) \in Manifest
    BY DEF Found, Manifest, Stage
  <2>3. \A a \in Arena : manifest[a] \in Manifest
    BY <1>1, <2>1, <2>2
  <2>4. manifest \in [Arena -> Manifest]
    BY <2>3 DEF Init
  <2>5. size \in [Arena -> Nat]
    <3>1. size \in [Arena -> InitialSize \cup {0}] /\ InitialSize \subseteq Nat
      BY DEF Init
    <3>2. ASSUME NEW a \in Arena PROVE size[a] \in Nat
      <4>1. size[a] \in InitialSize \cup {0}
        BY <3>1
      <4>2. InitialSize \cup {0} \subseteq Nat
        BY <3>1
      <4> QED
        BY <4>1, <4>2
    <3> QED
      BY <3>1, <3>2
  <2>6. view \in [Arena -> Observation]
    BY DEF Init, Unread, Observation
  <2>7. /\ cargo \in [Arena -> BOOLEAN] /\ collection \in Process \cup {None}
        /\ arenaLock \in [Arena -> Process \cup {None}]
        /\ pc \in [Process -> Place] /\ arena \in [Process -> Arena \cup {None}]
        /\ deep \in BOOLEAN /\ pending \in SUBSET Arena /\ plan \in SUBSET Arena
    BY DEF Init, Place
  <2> QED
    BY <2>4, <2>5, <2>6, <2>7 DEF TypeOK
<1>3. PlaceOK
  BY DEF Init, PlaceOK, Observing
<1>4. LeaseOK
  BY DEF Init, LeaseOK
<1>5. \A a \in Arena : manifest[a].stage # "unfinished"
  <2> SUFFICES ASSUME NEW a \in Arena PROVE manifest[a].stage \in {"absent", "finalized"}
    OBVIOUS
  <2>1. CASE manifest[a] = Absent
    BY <2>1 DEF Absent
  <2>2. CASE \E n \in InitialSize \cup {Unknown} : manifest[a] = Found(n)
    BY <2>2 DEF Found
  <2> QED
    BY <1>1, <2>1, <2>2
<1>6. UnfinishedOK
  BY <1>5 DEF Init, UnfinishedOK
<1>7. SnapshotCovers
  BY DEF Init, SnapshotCovers
<1>9. IdleStaysIdle
  BY DEF Init, IdleStaysIdle, Observing
<1>8. CompletedSizesRecorded
  <2> SUFFICES ASSUME NEW a \in Arena, manifest[a].known # Unknown
               PROVE  size[a] <= manifest[a].known
    BY DEF CompletedSizesRecorded
  <2>1. size[a] \in Nat
    BY <1>2 DEF TypeOK
  <2>2. CASE manifest[a] = Absent
    BY <2>2 DEF Init, Absent
  <2>3. CASE manifest[a] # Absent
    <3>1. PICK n \in InitialSize \cup {Unknown} : manifest[a] = Found(n)
      BY <1>1, <2>3
    <3>2. manifest[a].stage # "absent"
      BY <3>1 DEF Found
    <3>3. manifest[a].known \in {size[a], Unknown}
      BY <3>2 DEF Init
    <3> QED
      BY <2>1, <3>3
  <2> QED
    BY <2>2, <2>3
<1>10. FundingOK
  BY DEF Init, FundingOK, Growing, Observing
<1> QED
  BY <1>2, <1>3, <1>4, <1>6, <1>7, <1>8, <1>9, <1>10 DEF Inv

-----------------------------------------------------------------------------
(* What is written to a manifest, and what a measurement may come to.       *)

\* What a begun or finished build writes is a manifest.
LEMMA ManifestWrites ==
    ASSUME NEW m \in Manifest, NEW r \in Nat, NEW n \in Nat \cup {Unknown}, NEW pin \in BOOLEAN
    PROVE  /\ Begin(m, r, n) \in Manifest
           /\ Begin(m, r, n).stage = "unfinished"
           /\ Begin(m, r, n).known = n /\ Begin(m, r, n).reservation = r
           /\ Finished(m, n) \in Manifest
           /\ Finished(m, n).stage = "finalized"
           /\ Finished(m, n).known = n /\ Finished(m, n).reservation = 0
           /\ [m EXCEPT !.pinned = pin] \in Manifest
           /\ [m EXCEPT !.pinned = pin].stage = m.stage
           /\ [m EXCEPT !.pinned = pin].known = m.known
           /\ [m EXCEPT !.pinned = pin].reservation = m.reservation
           /\ Absent \in Manifest
<1>1. m.stage \in Stage /\ m.known \in Nat \cup {Unknown} /\ m.reservation \in Nat /\ m.pinned \in BOOLEAN
  BY DEF Manifest
<1>2. [m EXCEPT !.pinned = pin]
        = [stage |-> m.stage, known |-> m.known, reservation |-> m.reservation, pinned |-> pin]
  BY DEF Manifest
<1>3. Absent \in Manifest
  BY DEF Absent, Manifest, Stage
<1>4. Begin(m, r, n) \in Manifest
  BY <1>1 DEF Begin, Manifest, Stage
<1>5. Finished(m, n) \in Manifest
  BY <1>1 DEF Finished, Manifest, Stage
<1>6. [m EXCEPT !.pinned = pin] \in Manifest
  BY <1>1, <1>2 DEF Manifest, Stage
<1> QED
  BY <1>2, <1>3, <1>4, <1>5, <1>6 DEF Begin, Finished

\* The charge of an arena is a number, and the known size when nothing is reserved.
LEMMA ChargeType ==
    ASSUME TypeOK, NEW a \in Arena
    PROVE  /\ manifest[a] \in Manifest
           /\ manifest[a].stage \in Stage /\ manifest[a].reservation \in Nat
           /\ manifest[a].known \in Nat \cup {Unknown} /\ manifest[a].pinned \in BOOLEAN
           /\ size[a] \in Nat /\ Charge(a) \in Nat
           /\ manifest[a].known # Unknown =>
                 Charge(a) = manifest[a].known + manifest[a].reservation
<1>1. manifest[a] \in Manifest /\ size[a] \in Nat
  BY DEF TypeOK
<1>2. /\ manifest[a].stage \in Stage /\ manifest[a].reservation \in Nat
      /\ manifest[a].known \in Nat \cup {Unknown} /\ manifest[a].pinned \in BOOLEAN
  BY <1>1 DEF Manifest
<1> QED
  BY <1>1, <1>2 DEF Charge

\* A pin changes nothing else in a manifest.
LEMMA PinWrites ==
    ASSUME TypeOK, NEW a \in Arena, NEW pin \in BOOLEAN, SetPin(a, pin)
    PROVE  \A b \in Arena : /\ manifest'[b].stage = manifest[b].stage
                            /\ manifest'[b].known = manifest[b].known
                            /\ manifest'[b].reservation = manifest[b].reservation
<1>1. manifest[a] \in Manifest
  BY DEF TypeOK
<1> QED
  BY <1>1, ManifestWrites DEF SetPin, Write, TypeOK

\* Whatever a measurement of an unfinished arena comes to, its charge covers it.
LEMMA MeasurementEffect ==
    ASSUME TypeOK, UnfinishedOK, NEW a \in Arena, manifest[a].stage = "unfinished",
           NEW n \in Measurements(a)
    PROVE  n \in Nat /\ n <= Charge(a) /\ (~UnreadableTrees => n = size[a])
<1>1. manifest[a].known # Unknown /\ size[a] <= Charge(a)
  BY DEF UnfinishedOK
<1>2. n = size[a] \/ (UnreadableTrees /\ n = manifest[a].known)
  BY CapacityAssumption DEF Measurements
<1> QED
  BY <1>1, <1>2, ChargeType

-----------------------------------------------------------------------------
(* One lemma per conjunct of the invariant, by cases on the actions.        *)

\* Every step keeps the types.
LEMMA TypeStep == Inv /\ [Next]_vars => TypeOK'
<1> SUFFICES ASSUME Inv, [Next]_vars PROVE TypeOK'
  OBVIOUS
<1>0. TypeOK /\ PlaceOK /\ LeaseOK /\ UnfinishedOK /\ IdleStaysIdle /\ SnapshotCovers
  BY DEF Inv
<1> USE CapacityAssumption, <1>0
<1>1. ASSUME NEW p \in Process, NEW a \in Arena, NEW r \in Reservation, Admit(p, a, r) PROVE TypeOK'
  <2>1. r \in Nat /\ size[a] \in Nat /\ manifest[a] \in Manifest
    BY DEF TypeOK
  <2>2. Begin(manifest[a], r, size[a]) \in Manifest
    BY <2>1, ManifestWrites
  <2>3. manifest' \in [Arena -> Manifest]
    BY <1>1, <2>2 DEF Admit, Write, TypeOK
  <2>4. view' \in [Arena -> Observation]
    BY <1>1 DEF Admit, StartSnapshot, Unread, Observation
  <2> QED
    BY <1>1, <2>3, <2>4 DEF Admit, Goto, StartSnapshot, worldVars, TypeOK, Place
<1>2. ASSUME NEW p \in Process, Collect(p) PROVE TypeOK'
  <2>1. view' \in [Arena -> Observation]
    BY <1>2 DEF Collect, StartSnapshot, Unread, Observation
  <2> QED
    BY <1>2, <2>1 DEF Collect, Goto, StartSnapshot, worldVars, TypeOK, Place
<1>3. ASSUME NEW p \in Process, Observe(p) PROVE TypeOK'
  <2>1. PICK a \in pending, held \in BOOLEAN, measurable \in BOOLEAN :
            /\ view' = [view EXCEPT ![a] = Observed(a, held, measurable)]
            /\ pending' = pending \ {a}
    BY <1>3 DEF Observe
  <2>2. a \in Arena
    BY <2>1 DEF TypeOK
  <2>3. Observed(a, held, measurable) \in Observation
    BY <2>2, ChargeType DEF Observed, ObservedState, Observation, TypeOK
  <2>4. view' \in [Arena -> Observation]
    BY <2>1, <2>3 DEF TypeOK
  <2> QED
    BY <1>3, <2>1, <2>4 DEF Observe, worldVars, lockVars, TypeOK
<1>4. ASSUME NEW p \in Process, GiveUp(p) PROVE TypeOK'
  <2>1. manifest' \in [Arena -> Manifest]
    <3>1. CASE arena[p] = None
      BY <1>4, <3>1 DEF GiveUp, TypeOK
    <3>2. CASE arena[p] # None
      <4>1. arena[p] \in Arena /\ manifest[arena[p]].stage = "unfinished"
        BY <3>2 DEF TypeOK, LeaseOK
      <4>2. PICK n \in Measurements(arena[p]) : manifest' = [manifest EXCEPT ![arena[p]] = Finished(manifest[arena[p]], n)]
        BY <1>4, <3>2 DEF GiveUp, Write
      <4>3. n \in Nat
        BY <4>1, <4>2, MeasurementEffect
      <4>4. Finished(manifest[arena[p]], n) \in Manifest
        BY <4>1, <4>3, ManifestWrites, ChargeType
      <4> QED
        BY <4>2, <4>4 DEF TypeOK
    <3> QED
      BY <3>1, <3>2
  <2>2. view' \in [Arena -> Observation]
    BY <1>4 DEF GiveUp, ForgetPass, Unread, Observation
  <2> QED
    BY <1>4, <2>1, <2>2 DEF GiveUp, Goto, ReleaseArena, ForgetPass, worldVars, TypeOK, Place
<1>5. ASSUME NEW p \in Process, PlanEvictions(p) PROVE TypeOK'
  <2>1. plan' \subseteq Arena
    <3>1. plan' = {} \/ plan' \subseteq Candidates
      BY <1>5 DEF PlanEvictions, Plans
    <3> QED
      BY <3>1 DEF Candidates
  <2> QED
    BY <1>5, <2>1 DEF PlanEvictions, Goto, worldVars, lockVars, TypeOK, Place
<1>6. ASSUME NEW p \in Process, Evict(p) PROVE TypeOK'
  <2>1. PICK a \in pending : /\ manifest' = [manifest EXCEPT ![a] = Absent]
                            /\ size' = [size EXCEPT ![a] = 0]
                            /\ pending' = pending \ {a}
    BY <1>6 DEF Evict, Write
  <2>2. Absent \in Manifest
    BY DEF Absent, Manifest, Stage
  <2>3. manifest' \in [Arena -> Manifest] /\ size' \in [Arena -> Nat]
    BY <2>1, <2>2 DEF TypeOK
  <2> QED
    BY <1>6, <2>1, <2>3 DEF Evict, lockVars, TypeOK
<1>7. ASSUME NEW p \in Process, SkipEviction(p) PROVE TypeOK'
  BY <1>7 DEF SkipEviction, worldVars, lockVars, TypeOK
<1>8. ASSUME NEW p \in Process, Confirm(p) PROVE TypeOK'
  <2>1. view' \in [Arena -> Observation]
    BY <1>8 DEF Confirm, StartSnapshot, Unread, Observation
  <2> QED
    BY <1>8, <2>1 DEF Confirm, Goto, StartSnapshot, worldVars, lockVars, TypeOK, Place
<1>9. ASSUME NEW p \in Process, Decide(p) PROVE TypeOK'
  <2>1. view' \in [Arena -> Observation]
    BY <1>9 DEF Decide, ForgetPass, Unread, Observation
  <2> QED
    BY <1>9, <2>1 DEF Decide, Goto, ForgetPass, worldVars, TypeOK, Place
<1>10. ASSUME NEW p \in Process, Spawn(p) PROVE TypeOK'
  BY <1>10 DEF Spawn, Goto, lockVars, passVars, TypeOK, Place
<1>11. ASSUME NEW p \in Process, Finish(p) PROVE TypeOK'
  <2>1. arena[p] \in Arena /\ manifest[arena[p]].stage = "unfinished"
    BY <1>11 DEF Finish, TypeOK, PlaceOK, LeaseOK
  <2>2. PICK n \in Measurements(arena[p]) :
            manifest' = [manifest EXCEPT ![arena[p]] = Finished(manifest[arena[p]], n)]
    BY <1>11 DEF Finish, Write
  <2>3. n \in Nat
    BY <2>1, <2>2, MeasurementEffect
  <2>4. Finished(manifest[arena[p]], n) \in Manifest
    BY <2>1, <2>3, ManifestWrites, ChargeType
  <2>5. manifest' \in [Arena -> Manifest]
    BY <2>2, <2>4 DEF TypeOK
  <2> QED
    BY <1>11, <2>5 DEF Finish, Goto, ReleaseArena, worldVars, passVars, TypeOK, Place
<1>12. ASSUME NEW p \in Process, Crash(p) PROVE TypeOK'
  <2>1. view' \in [Arena -> Observation]
    <3>1. CASE collection = p
      <4>1. view' = [a \in Arena |-> Unread]
        BY <1>12, <3>1 DEF Crash, ForgetPass
      <4> QED
        BY <4>1 DEF Unread, Observation
    <3>2. CASE collection # p
      BY <1>12, <3>2 DEF Crash, passVars, TypeOK
    <3> QED
      BY <3>1, <3>2
  <2> QED
    BY <1>12, <2>1 DEF Crash, Goto, ReleaseArena, ForgetPass, worldVars, passVars, TypeOK, Place
<1>13. ASSUME NEW a \in Arena, CargoWrites(a) PROVE TypeOK'
  <2>1. PICK n \in 0..Charge(a) : size' = [size EXCEPT ![a] = n]
    BY <1>13 DEF CargoWrites
  <2>2. n \in Nat
    BY <2>1, ChargeType
  <2>3. size' \in [Arena -> Nat]
    BY <2>1, <2>2 DEF TypeOK
  <2> QED
    BY <1>13, <2>3 DEF CargoWrites, lockVars, passVars, TypeOK
<1>14. ASSUME NEW a \in Arena, CargoExits(a) PROVE TypeOK'
  BY <1>14 DEF CargoExits, lockVars, passVars, TypeOK
<1>15. ASSUME NEW a \in Arena, Recover(a) PROVE TypeOK'
  <2>1. PICK n \in Measurements(a) : manifest' = [manifest EXCEPT ![a] = Finished(manifest[a], n)]
    BY <1>15 DEF Recover, Write
  <2>2. n \in Nat
    BY <1>15, <2>1, MeasurementEffect DEF Recover
  <2>3. Finished(manifest[a], n) \in Manifest
    BY <2>2, ManifestWrites, ChargeType
  <2>4. manifest' \in [Arena -> Manifest]
    BY <2>1, <2>3 DEF TypeOK
  <2> QED
    BY <1>15, <2>4 DEF Recover, worldVars, lockVars, passVars, TypeOK
<1>16. ASSUME NEW a \in Arena, NEW pin \in BOOLEAN, SetPin(a, pin) PROVE TypeOK'
  <2>1. [manifest[a] EXCEPT !.pinned = pin] \in Manifest
    BY ManifestWrites, ChargeType
  <2>2. manifest' \in [Arena -> Manifest]
    BY <1>16, <2>1 DEF SetPin, Write, TypeOK
  <2> QED
    BY <1>16, <2>2 DEF SetPin, worldVars, lockVars, passVars, TypeOK
<1>17. CASE UNCHANGED vars
  BY <1>17 DEF vars, worldVars, lockVars, passVars, TypeOK
<1> QED
  BY <1>1, <1>2, <1>3, <1>4, <1>5, <1>6, <1>7, <1>8,
     <1>9, <1>10, <1>11, <1>12, <1>13, <1>14, <1>15, <1>16, <1>17
     DEF Next, Step, Environment

\* The collection lock is held from its acquisition to the decision, by one process.
LEMMA PlaceStep == Inv /\ [Next]_vars => PlaceOK'
<1> SUFFICES ASSUME Inv, [Next]_vars PROVE PlaceOK'
  OBVIOUS
<1>0. TypeOK /\ PlaceOK /\ LeaseOK /\ UnfinishedOK /\ IdleStaysIdle /\ SnapshotCovers
  BY DEF Inv
<1> USE CapacityAssumption, <1>0
<1>1. ASSUME NEW p \in Process, NEW a \in Arena, NEW r \in Reservation, Admit(p, a, r) PROVE PlaceOK'
  BY <1>1 DEF Admit, Goto, ReleaseArena, PlaceOK, Observing, TypeOK, lockVars, passVars
<1>2. ASSUME NEW p \in Process, Collect(p) PROVE PlaceOK'
  BY <1>2 DEF Collect, Goto, ReleaseArena, PlaceOK, Observing, TypeOK, lockVars, passVars
<1>3. ASSUME NEW p \in Process, Observe(p) PROVE PlaceOK'
  BY <1>3 DEF Observe, PlaceOK, Observing, worldVars, lockVars, passVars
<1>4. ASSUME NEW p \in Process, GiveUp(p) PROVE PlaceOK'
  BY <1>4 DEF GiveUp, Goto, ReleaseArena, PlaceOK, Observing, TypeOK, lockVars, passVars
<1>5. ASSUME NEW p \in Process, PlanEvictions(p) PROVE PlaceOK'
  BY <1>5 DEF PlanEvictions, Goto, ReleaseArena, PlaceOK, Observing, TypeOK, lockVars, passVars
<1>6. ASSUME NEW p \in Process, Evict(p) PROVE PlaceOK'
  BY <1>6 DEF Evict, PlaceOK, Observing, worldVars, lockVars, passVars
<1>7. ASSUME NEW p \in Process, SkipEviction(p) PROVE PlaceOK'
  BY <1>7 DEF SkipEviction, PlaceOK, Observing, worldVars, lockVars, passVars
<1>8. ASSUME NEW p \in Process, Confirm(p) PROVE PlaceOK'
  BY <1>8 DEF Confirm, Goto, ReleaseArena, PlaceOK, Observing, TypeOK, lockVars, passVars
<1>9. ASSUME NEW p \in Process, Decide(p) PROVE PlaceOK'
  BY <1>9 DEF Decide, Goto, ReleaseArena, PlaceOK, Observing, TypeOK, lockVars, passVars
<1>10. ASSUME NEW p \in Process, Spawn(p) PROVE PlaceOK'
  BY <1>10 DEF Spawn, Goto, ReleaseArena, PlaceOK, Observing, TypeOK, lockVars, passVars
<1>11. ASSUME NEW p \in Process, Finish(p) PROVE PlaceOK'
  BY <1>11 DEF Finish, Goto, ReleaseArena, PlaceOK, Observing, TypeOK, lockVars, passVars
<1>12. ASSUME NEW p \in Process, Crash(p) PROVE PlaceOK'
  BY <1>12 DEF Crash, Goto, ReleaseArena, PlaceOK, Observing, TypeOK, lockVars, passVars
<1>13. ASSUME NEW a \in Arena, CargoWrites(a) PROVE PlaceOK'
  BY <1>13 DEF CargoWrites, PlaceOK, Observing, worldVars, lockVars, passVars
<1>14. ASSUME NEW a \in Arena, CargoExits(a) PROVE PlaceOK'
  BY <1>14 DEF CargoExits, PlaceOK, Observing, worldVars, lockVars, passVars
<1>15. ASSUME NEW a \in Arena, Recover(a) PROVE PlaceOK'
  BY <1>15 DEF Recover, PlaceOK, Observing, worldVars, lockVars, passVars
<1>16. ASSUME NEW a \in Arena, NEW pin \in BOOLEAN, SetPin(a, pin) PROVE PlaceOK'
  BY <1>16 DEF SetPin, PlaceOK, Observing, worldVars, lockVars, passVars
<1>17. CASE UNCHANGED vars
  BY <1>17 DEF vars, lockVars, PlaceOK
<1> QED
  BY <1>1, <1>2, <1>3, <1>4, <1>5, <1>6, <1>7, <1>8,
     <1>9, <1>10, <1>11, <1>12, <1>13, <1>14, <1>15, <1>16, <1>17
     DEF Next, Step, Environment

\* A build keeps its lock and its unfinished manifest until it finishes.
LEMMA LeaseStep == Inv /\ [Next]_vars => LeaseOK'
<1> SUFFICES ASSUME Inv, [Next]_vars PROVE LeaseOK'
  OBVIOUS
<1>0. TypeOK /\ PlaceOK /\ LeaseOK /\ UnfinishedOK /\ IdleStaysIdle /\ SnapshotCovers
  BY DEF Inv
<1> USE CapacityAssumption, <1>0
<1>1. ASSUME NEW p \in Process, NEW a \in Arena, NEW r \in Reservation, Admit(p, a, r) PROVE LeaseOK'
  <2>1. \A q \in Process \ {p} : arena[q] # a
    BY <1>1 DEF Admit, LeaseOK
  <2>2. ~cargo[a]
    BY <1>1 DEF Admit, UnfinishedOK
  <2>3. manifest'[a].stage = "unfinished"
    BY <1>1 DEF Admit, Write, Begin, TypeOK
  <2> QED
    BY <1>1, <2>1, <2>2, <2>3 DEF Admit, Goto, Write, LeaseOK, TypeOK, worldVars
<1>2. ASSUME NEW p \in Process, Collect(p) PROVE LeaseOK'
  BY <1>2 DEF Collect, Goto, LeaseOK, TypeOK, worldVars, lockVars
<1>3. ASSUME NEW p \in Process, Observe(p) PROVE LeaseOK'
  BY <1>3 DEF Observe, Goto, LeaseOK, TypeOK, worldVars, lockVars
<1>4. ASSUME NEW p \in Process, GiveUp(p) PROVE LeaseOK'
  <2> SUFFICES ASSUME NEW q \in Process, arena'[q] # None
               PROVE  /\ arenaLock'[arena'[q]] = q
                      /\ manifest'[arena'[q]].stage = "unfinished"
                      /\ pc'[q] # "running" => ~cargo'[arena'[q]]
    BY DEF LeaseOK
  <2>1. q # p /\ arena'[q] = arena[q] /\ arena[q] \in Arena /\ arenaLock[arena[q]] = q
    BY <1>4 DEF GiveUp, ReleaseArena, TypeOK, LeaseOK
  <2>2. manifest'[arena[q]] = manifest[arena[q]]
    BY <1>4, <2>1 DEF GiveUp, Write, TypeOK, LeaseOK, PlaceOK
  <2>3. arenaLock'[arena[q]] = q /\ pc'[q] = pc[q] /\ cargo' = cargo
    BY <1>4, <2>1 DEF GiveUp, Goto, ReleaseArena, TypeOK, worldVars
  <2> QED
    BY <2>1, <2>2, <2>3 DEF LeaseOK
<1>5. ASSUME NEW p \in Process, PlanEvictions(p) PROVE LeaseOK'
  BY <1>5 DEF PlanEvictions, Goto, LeaseOK, TypeOK, worldVars, lockVars
<1>6. ASSUME NEW p \in Process, Evict(p) PROVE LeaseOK'
  <2>1. PICK a \in pending : arenaLock[a] = None /\ manifest' = [manifest EXCEPT ![a] = Absent]
    BY <1>6 DEF Evict, Write
  <2>2. \A q \in Process : arena[q] # a
    BY <2>1 DEF LeaseOK, TypeOK
  <2> QED
    BY <1>6, <2>1, <2>2 DEF Evict, LeaseOK, TypeOK, lockVars
<1>7. ASSUME NEW p \in Process, SkipEviction(p) PROVE LeaseOK'
  BY <1>7 DEF SkipEviction, Goto, LeaseOK, TypeOK, worldVars, lockVars
<1>8. ASSUME NEW p \in Process, Confirm(p) PROVE LeaseOK'
  BY <1>8 DEF Confirm, Goto, LeaseOK, TypeOK, worldVars, lockVars
<1>9. ASSUME NEW p \in Process, Decide(p) PROVE LeaseOK'
  BY <1>9 DEF Decide, Goto, LeaseOK, TypeOK, worldVars, lockVars
<1>10. ASSUME NEW p \in Process, Spawn(p) PROVE LeaseOK'
  BY <1>10 DEF Spawn, Goto, LeaseOK, TypeOK, lockVars
<1>11. ASSUME NEW p \in Process, Finish(p) PROVE LeaseOK'
  <2> SUFFICES ASSUME NEW q \in Process, arena'[q] # None
               PROVE  /\ arenaLock'[arena'[q]] = q
                      /\ manifest'[arena'[q]].stage = "unfinished"
                      /\ pc'[q] # "running" => ~cargo'[arena'[q]]
    BY DEF LeaseOK
  <2>1. q # p /\ arena'[q] = arena[q] /\ arena[q] \in Arena /\ arenaLock[arena[q]] = q
    BY <1>11 DEF Finish, ReleaseArena, TypeOK, LeaseOK
  <2>2. manifest'[arena[q]] = manifest[arena[q]]
    BY <1>11, <2>1 DEF Finish, Write, TypeOK, LeaseOK, PlaceOK
  <2>3. arenaLock'[arena[q]] = q /\ pc'[q] = pc[q] /\ cargo' = cargo
    BY <1>11, <2>1 DEF Finish, Goto, ReleaseArena, TypeOK, worldVars
  <2> QED
    BY <2>1, <2>2, <2>3 DEF LeaseOK
<1>12. ASSUME NEW p \in Process, Crash(p) PROVE LeaseOK'
  <2> SUFFICES ASSUME NEW q \in Process, arena'[q] # None
               PROVE  /\ arenaLock'[arena'[q]] = q
                      /\ manifest'[arena'[q]].stage = "unfinished"
                      /\ pc'[q] # "running" => ~cargo'[arena'[q]]
    BY DEF LeaseOK
  <2>1. q # p /\ arena'[q] = arena[q] /\ arena[q] \in Arena /\ arenaLock[arena[q]] = q
    BY <1>12 DEF Crash, ReleaseArena, TypeOK, LeaseOK
  <2>2. manifest'[arena[q]] = manifest[arena[q]]
    BY <1>12, <2>1 DEF Crash, Write, TypeOK, LeaseOK, PlaceOK
  <2>3. arenaLock'[arena[q]] = q /\ pc'[q] = pc[q] /\ cargo' = cargo
    BY <1>12, <2>1 DEF Crash, Goto, ReleaseArena, TypeOK, worldVars
  <2> QED
    BY <2>1, <2>2, <2>3 DEF LeaseOK
<1>13. ASSUME NEW a \in Arena, CargoWrites(a) PROVE LeaseOK'
  BY <1>13 DEF CargoWrites, LeaseOK, lockVars
<1>14. ASSUME NEW a \in Arena, CargoExits(a) PROVE LeaseOK'
  BY <1>14 DEF CargoExits, LeaseOK, TypeOK, lockVars
<1>15. ASSUME NEW a \in Arena, Recover(a) PROVE LeaseOK'
  <2>1. \A q \in Process : arena[q] # a
    BY <1>15 DEF Recover, LeaseOK
  <2> QED
    BY <1>15, <2>1 DEF Recover, Write, LeaseOK, TypeOK, worldVars, lockVars
<1>16. ASSUME NEW a \in Arena, NEW pin \in BOOLEAN, SetPin(a, pin) PROVE LeaseOK'
  <2>1. \A b \in Arena : manifest'[b].stage = manifest[b].stage
    BY <1>16, PinWrites
  <2> QED
    BY <1>16, <2>1 DEF SetPin, LeaseOK, TypeOK, worldVars, lockVars
<1>17. CASE UNCHANGED vars
  BY <1>17 DEF vars, worldVars, lockVars, LeaseOK
<1> QED
  BY <1>1, <1>2, <1>3, <1>4, <1>5, <1>6, <1>7, <1>8,
     <1>9, <1>10, <1>11, <1>12, <1>13, <1>14, <1>15, <1>16, <1>17
     DEF Next, Step, Environment

\* A Cargo tree's arena is unfinished and has room for it.
LEMMA UnfinishedStep == Inv /\ [Next]_vars => UnfinishedOK'
<1> SUFFICES ASSUME Inv, [Next]_vars PROVE UnfinishedOK'
  OBVIOUS
<1>0. TypeOK /\ PlaceOK /\ LeaseOK /\ UnfinishedOK /\ IdleStaysIdle /\ SnapshotCovers
  BY DEF Inv
<1> USE CapacityAssumption, <1>0
<1>1. ASSUME NEW p \in Process, NEW a \in Arena, NEW r \in Reservation, Admit(p, a, r) PROVE UnfinishedOK'
  <2>1. r \in Nat
    OBVIOUS
  <2>2. manifest'[a] = Begin(manifest[a], r, size[a]) /\ size' = size /\ cargo' = cargo
    BY <1>1 DEF Admit, Write, TypeOK, worldVars
  <2>3. manifest'[a].stage = "unfinished" /\ manifest'[a].known = size[a] /\ manifest'[a].reservation = r
    BY <2>1, <2>2, ManifestWrites, ChargeType DEF Begin
  <2>4. manifest'[a].known # Unknown /\ size'[a] <= Charge(a)'
    BY <2>1, <2>2, <2>3, ChargeType DEF Charge
  <2>5. \A b \in Arena \ {a} : manifest'[b] = manifest[b]
    BY <1>1 DEF Admit, Write, TypeOK
  <2> QED
    BY <2>2, <2>3, <2>4, <2>5 DEF UnfinishedOK, Charge
<1>2. ASSUME NEW p \in Process, Collect(p) PROVE UnfinishedOK'
  BY <1>2 DEF Collect, UnfinishedOK, Charge, worldVars
<1>3. ASSUME NEW p \in Process, Observe(p) PROVE UnfinishedOK'
  BY <1>3 DEF Observe, UnfinishedOK, Charge, worldVars
<1>4. ASSUME NEW p \in Process, GiveUp(p) PROVE UnfinishedOK'
  <2>a. CASE arena[p] = None
    BY <1>4, <2>a DEF GiveUp, UnfinishedOK, Charge, worldVars
  <2>b. CASE arena[p] # None
    <3>1. arena[p] \in Arena /\ ~cargo[arena[p]]
      BY <1>4, <2>b DEF GiveUp, TypeOK, LeaseOK
    <3>2. PICK n \in Measurements(arena[p]) :
              manifest' = [manifest EXCEPT ![arena[p]] = Finished(manifest[arena[p]], n)]
      BY <1>4, <2>b DEF GiveUp, Write
    <3>3. \A b \in Arena \ {arena[p]} : manifest'[b] = manifest[b]
      BY <3>2 DEF TypeOK
    <3>4. manifest'[arena[p]].stage = "finalized"
      BY <3>1, <3>2 DEF Finished, TypeOK
    <3>5. size' = size /\ cargo' = cargo
      BY <1>4 DEF GiveUp, worldVars
    <3> QED
      BY <3>1, <3>3, <3>4, <3>5 DEF UnfinishedOK, Charge
  <2> QED
    BY <2>a, <2>b
<1>5. ASSUME NEW p \in Process, PlanEvictions(p) PROVE UnfinishedOK'
  BY <1>5 DEF PlanEvictions, UnfinishedOK, Charge, worldVars
<1>6. ASSUME NEW p \in Process, Evict(p) PROVE UnfinishedOK'
  <2>1. PICK a \in pending : /\ manifest' = [manifest EXCEPT ![a] = Absent]
                            /\ size' = [size EXCEPT ![a] = 0]
    BY <1>6 DEF Evict, Write
  <2>2. a \in Arena /\ manifest[a].stage # "unfinished"
    BY <1>6, <2>1 DEF Evict, IdleStaysIdle, Observing, Candidates, TypeOK
  <2>3. ~cargo[a] /\ cargo' = cargo
    BY <1>6, <2>2 DEF Evict, UnfinishedOK
  <2>4. manifest'[a].stage = "absent"
    BY <2>1, <2>2 DEF Absent, TypeOK
  <2>5. \A b \in Arena \ {a} : manifest'[b] = manifest[b] /\ size'[b] = size[b]
    BY <2>1 DEF TypeOK
  <2> QED
    BY <2>2, <2>3, <2>4, <2>5 DEF UnfinishedOK, Charge
<1>7. ASSUME NEW p \in Process, SkipEviction(p) PROVE UnfinishedOK'
  BY <1>7 DEF SkipEviction, UnfinishedOK, Charge, worldVars
<1>8. ASSUME NEW p \in Process, Confirm(p) PROVE UnfinishedOK'
  BY <1>8 DEF Confirm, UnfinishedOK, Charge, worldVars
<1>9. ASSUME NEW p \in Process, Decide(p) PROVE UnfinishedOK'
  BY <1>9 DEF Decide, UnfinishedOK, Charge, worldVars
<1>10. ASSUME NEW p \in Process, Spawn(p) PROVE UnfinishedOK'
  <2>1. arena[p] \in Arena /\ manifest[arena[p]].stage = "unfinished"
    BY <1>10 DEF Spawn, TypeOK, PlaceOK, LeaseOK
  <2> QED
    BY <1>10, <2>1 DEF Spawn, UnfinishedOK, Charge, TypeOK
<1>11. ASSUME NEW p \in Process, Finish(p) PROVE UnfinishedOK'
  <2>1. arena[p] \in Arena /\ ~cargo[arena[p]]
    BY <1>11 DEF Finish, TypeOK, PlaceOK, LeaseOK
  <2>2. PICK n \in Measurements(arena[p]) :
            manifest' = [manifest EXCEPT ![arena[p]] = Finished(manifest[arena[p]], n)]
    BY <1>11 DEF Finish, Write
  <2>3. \A b \in Arena \ {arena[p]} : manifest'[b] = manifest[b]
    BY <2>2 DEF TypeOK
  <2>4. manifest'[arena[p]].stage = "finalized"
    BY <2>1, <2>2 DEF Finished, TypeOK
  <2>5. size' = size /\ cargo' = cargo
    BY <1>11 DEF Finish, worldVars
  <2> QED
    BY <2>1, <2>3, <2>4, <2>5 DEF UnfinishedOK, Charge
<1>12. ASSUME NEW p \in Process, Crash(p) PROVE UnfinishedOK'
  BY <1>12 DEF Crash, UnfinishedOK, Charge, worldVars
<1>13. ASSUME NEW a \in Arena, CargoWrites(a) PROVE UnfinishedOK'
  <2>1. PICK n \in 0..Charge(a) : size' = [size EXCEPT ![a] = n]
    BY <1>13 DEF CargoWrites
  <2>2. manifest' = manifest /\ cargo' = cargo /\ size'[a] <= Charge(a)
    BY <1>13, <2>1, ChargeType DEF CargoWrites, TypeOK
  <2>3. \A b \in Arena : Charge(b)' = Charge(b)
    BY <2>2 DEF Charge
  <2>4. \A b \in Arena \ {a} : size'[b] = size[b]
    BY <2>1 DEF TypeOK
  <2> QED
    BY <2>2, <2>3, <2>4 DEF UnfinishedOK
<1>14. ASSUME NEW a \in Arena, CargoExits(a) PROVE UnfinishedOK'
  BY <1>14 DEF CargoExits, UnfinishedOK, Charge, TypeOK
<1>15. ASSUME NEW a \in Arena, Recover(a) PROVE UnfinishedOK'
  <2>1. ~cargo[a]
    BY <1>15 DEF Recover
  <2>2. PICK n \in Measurements(a) : manifest' = [manifest EXCEPT ![a] = Finished(manifest[a], n)]
    BY <1>15 DEF Recover, Write
  <2>3. \A b \in Arena \ {a} : manifest'[b] = manifest[b]
    BY <2>2 DEF TypeOK
  <2>4. manifest'[a].stage = "finalized"
    BY <2>1, <2>2 DEF Finished, TypeOK
  <2>5. size' = size /\ cargo' = cargo
    BY <1>15 DEF Recover, worldVars
  <2> QED
    BY <2>1, <2>3, <2>4, <2>5 DEF UnfinishedOK, Charge
<1>16. ASSUME NEW a \in Arena, NEW pin \in BOOLEAN, SetPin(a, pin) PROVE UnfinishedOK'
  <2>1. \A b \in Arena : /\ manifest'[b].stage = manifest[b].stage
                         /\ manifest'[b].known = manifest[b].known
                         /\ manifest'[b].reservation = manifest[b].reservation
    BY <1>16, PinWrites
  <2> QED
    BY <1>16, <2>1 DEF SetPin, UnfinishedOK, Charge, worldVars
<1>17. CASE UNCHANGED vars
  BY <1>17 DEF vars, worldVars, UnfinishedOK, Charge
<1> QED
  BY <1>1, <1>2, <1>3, <1>4, <1>5, <1>6, <1>7, <1>8,
     <1>9, <1>10, <1>11, <1>12, <1>13, <1>14, <1>15, <1>16, <1>17
     DEF Next, Step, Environment

\* No arena that a snapshot has found idle is built in before its pass is over.
LEMMA IdleStep == Inv /\ [Next]_vars => IdleStaysIdle'
<1> SUFFICES ASSUME Inv, [Next]_vars PROVE IdleStaysIdle'
  OBVIOUS
<1>0. TypeOK /\ PlaceOK /\ LeaseOK /\ UnfinishedOK /\ IdleStaysIdle /\ SnapshotCovers
  BY DEF Inv
<1> USE CapacityAssumption, <1>0
<1>1. ASSUME NEW p \in Process, NEW a \in Arena, NEW r \in Reservation, Admit(p, a, r) PROVE IdleStaysIdle'
  BY <1>1 DEF Admit, Goto, StartSnapshot, Unread, IdleStaysIdle, PlaceOK, Observing, TypeOK
<1>2. ASSUME NEW p \in Process, Collect(p) PROVE IdleStaysIdle'
  BY <1>2 DEF Collect, Goto, StartSnapshot, Unread, IdleStaysIdle, PlaceOK, Observing, TypeOK
<1>3. ASSUME NEW p \in Process, Observe(p) PROVE IdleStaysIdle'
  <2>1. PICK a \in pending, held \in BOOLEAN, measurable \in BOOLEAN :
            view' = [view EXCEPT ![a] = Observed(a, held, measurable)]
    BY <1>3 DEF Observe
  <2>2. view'[a].state = "idle" => manifest[a].stage # "unfinished"
    BY <2>1 DEF Observed, ObservedState, TypeOK
  <2>3. \A b \in Arena \ {a} : view'[b] = view[b]
    BY <2>1 DEF TypeOK
  <2>4. \A q \in Process : pc'[q] # "evict" /\ (pc'[q] \in Observing => q = p /\ pc[p] \in Observing)
    BY <1>3 DEF Observe, PlaceOK, Observing
  <2> QED
    BY <1>3, <2>2, <2>3, <2>4 DEF Observe, IdleStaysIdle
<1>4. ASSUME NEW p \in Process, GiveUp(p) PROVE IdleStaysIdle'
  BY <1>4 DEF GiveUp, Goto, ForgetPass, IdleStaysIdle, PlaceOK, Observing, TypeOK
<1>5. ASSUME NEW p \in Process, PlanEvictions(p) PROVE IdleStaysIdle'
  <2>1. plan' \subseteq Candidates
    BY <1>5 DEF PlanEvictions, Plans
  <2>2. Candidates' = Candidates
    BY <1>5 DEF PlanEvictions, Candidates
  <2> QED
    BY <1>5, <2>1, <2>2 DEF PlanEvictions, Goto, IdleStaysIdle, PlaceOK, Observing, TypeOK
<1>6. ASSUME NEW p \in Process, Evict(p) PROVE IdleStaysIdle'
  <2>1. PICK a \in pending : /\ manifest' = [manifest EXCEPT ![a] = Absent]
                            /\ pending' = pending \ {a}
    BY <1>6 DEF Evict, Write
  <2>2. manifest'[a].stage = "absent" /\ \A b \in Arena \ {a} : manifest'[b] = manifest[b]
    BY <2>1 DEF Absent, TypeOK
  <2> QED
    BY <1>6, <2>1, <2>2 DEF Evict, IdleStaysIdle, Candidates, Observing
<1>7. ASSUME NEW p \in Process, SkipEviction(p) PROVE IdleStaysIdle'
  BY <1>7 DEF SkipEviction, Goto, IdleStaysIdle, Candidates, Observing, TypeOK, worldVars, lockVars, passVars
<1>8. ASSUME NEW p \in Process, Confirm(p) PROVE IdleStaysIdle'
  BY <1>8 DEF Confirm, Goto, StartSnapshot, Unread, IdleStaysIdle, PlaceOK, Observing, TypeOK
<1>9. ASSUME NEW p \in Process, Decide(p) PROVE IdleStaysIdle'
  BY <1>9 DEF Decide, Goto, ForgetPass, IdleStaysIdle, PlaceOK, Observing, TypeOK
<1>10. ASSUME NEW p \in Process, Spawn(p) PROVE IdleStaysIdle'
  BY <1>10 DEF Spawn, Goto, IdleStaysIdle, Candidates, Observing, TypeOK, worldVars, lockVars, passVars
<1>11. ASSUME NEW p \in Process, Finish(p) PROVE IdleStaysIdle'
  <2>1. arena[p] \in Arena
    BY <1>11 DEF Finish, TypeOK, PlaceOK
  <2>2. PICK n \in Measurements(arena[p]) :
            manifest' = [manifest EXCEPT ![arena[p]] = Finished(manifest[arena[p]], n)]
    BY <1>11 DEF Finish, Write
  <2>3. \A b \in Arena : manifest'[b].stage = "finalized" \/ manifest'[b] = manifest[b]
    BY <2>1, <2>2 DEF Finished, TypeOK
  <2> QED
    BY <1>11, <2>3 DEF Finish, Goto, IdleStaysIdle, Candidates, Observing, TypeOK, passVars
<1>12. ASSUME NEW p \in Process, Crash(p) PROVE IdleStaysIdle'
  <2>1. CASE collection = p
    BY <1>12, <2>1 DEF Crash, Goto, ForgetPass, IdleStaysIdle, PlaceOK, Observing, TypeOK
  <2>2. CASE collection # p
    BY <1>12, <2>2 DEF Crash, Goto, passVars, IdleStaysIdle, Candidates, PlaceOK, Observing, TypeOK
  <2> QED
    BY <2>1, <2>2
<1>13. ASSUME NEW a \in Arena, CargoWrites(a) PROVE IdleStaysIdle'
  BY <1>13 DEF CargoWrites, Goto, IdleStaysIdle, Candidates, Observing, TypeOK, worldVars, lockVars, passVars
<1>14. ASSUME NEW a \in Arena, CargoExits(a) PROVE IdleStaysIdle'
  BY <1>14 DEF CargoExits, Goto, IdleStaysIdle, Candidates, Observing, TypeOK, worldVars, lockVars, passVars
<1>15. ASSUME NEW a \in Arena, Recover(a) PROVE IdleStaysIdle'
  BY <1>15 DEF Recover, IdleStaysIdle, PlaceOK, Observing
<1>16. ASSUME NEW a \in Arena, NEW pin \in BOOLEAN, SetPin(a, pin) PROVE IdleStaysIdle'
  <2>1. \A b \in Arena : /\ manifest'[b].stage = manifest[b].stage
                         /\ manifest'[b].known = manifest[b].known
                         /\ manifest'[b].reservation = manifest[b].reservation
    BY <1>16, PinWrites
  <2> QED
    BY <1>16, <2>1 DEF SetPin, IdleStaysIdle, Candidates, Observing, passVars
<1>17. CASE UNCHANGED vars
  BY <1>17 DEF vars, passVars, IdleStaysIdle, Candidates
<1> QED
  BY <1>1, <1>2, <1>3, <1>4, <1>5, <1>6, <1>7, <1>8,
     <1>9, <1>10, <1>11, <1>12, <1>13, <1>14, <1>15, <1>16, <1>17
     DEF Next, Step, Environment

\* While anyone holds the collection lock, no arena is charged more than before.
LEMMA ChargeFalls == Inv /\ [Next]_vars => (\A b \in Arena : collection # None => Charge(b)' <= Charge(b))
<1> SUFFICES ASSUME Inv, [Next]_vars PROVE \A b \in Arena : collection # None => Charge(b)' <= Charge(b)
  OBVIOUS
<1>0. TypeOK /\ PlaceOK /\ LeaseOK /\ UnfinishedOK /\ IdleStaysIdle /\ SnapshotCovers
  BY DEF Inv
<1> USE CapacityAssumption, <1>0
<1>1. ASSUME NEW p \in Process, NEW a \in Arena, NEW r \in Reservation, Admit(p, a, r) PROVE \A b \in Arena : collection # None => Charge(b)' <= Charge(b)
  BY <1>1 DEF Admit
<1>2. ASSUME NEW p \in Process, Collect(p) PROVE \A b \in Arena : collection # None => Charge(b)' <= Charge(b)
  <2>1. manifest' = manifest
    BY <1>2 DEF Collect, worldVars
  <2> QED
    BY <2>1, ChargeType DEF Charge
<1>3. ASSUME NEW p \in Process, Observe(p) PROVE \A b \in Arena : collection # None => Charge(b)' <= Charge(b)
  <2>1. manifest' = manifest
    BY <1>3 DEF Observe, worldVars
  <2> QED
    BY <2>1, ChargeType DEF Charge
<1>4. ASSUME NEW p \in Process, GiveUp(p) PROVE \A b \in Arena : collection # None => Charge(b)' <= Charge(b)
  <2>a. CASE arena[p] = None
    <3>1. manifest' = manifest
      BY <1>4, <2>a DEF GiveUp
    <3> QED
      BY <3>1, ChargeType DEF Charge
  <2>b. CASE arena[p] # None
    <3>1. PICK a \in Arena : a = arena[p] /\ manifest[a].stage = "unfinished"
      BY <1>4, <2>b DEF TypeOK, LeaseOK
    <3>2. PICK n \in Measurements(a) : manifest' = [manifest EXCEPT ![a] = Finished(manifest[a], n)]
      BY <1>4, <2>b, <3>1 DEF GiveUp, Write
    <3>3. n \in Nat /\ n <= Charge(a)
      BY <3>1, <3>2, MeasurementEffect
    <3>4. manifest'[a].known = n /\ manifest'[a].reservation = 0
      BY <3>1, <3>2 DEF Finished, TypeOK
    <3>5. Charge(a)' = n
      <4>1. manifest'[a].known # Unknown
        BY <3>3, <3>4
      <4> QED
        BY <3>3, <3>4, <4>1 DEF Charge
    <3>6. ASSUME NEW b \in Arena \ {a} PROVE Charge(b)' <= Charge(b)
      <4>1. manifest'[b] = manifest[b]
        BY <3>2 DEF TypeOK
      <4> QED
        BY <4>1, ChargeType DEF Charge
    <3>7. Charge(a)' <= Charge(a)
      BY <3>3, <3>5
    <3> QED
      BY <3>6, <3>7
  <2> QED
    BY <2>a, <2>b
<1>5. ASSUME NEW p \in Process, PlanEvictions(p) PROVE \A b \in Arena : collection # None => Charge(b)' <= Charge(b)
  <2>1. manifest' = manifest
    BY <1>5 DEF PlanEvictions, worldVars
  <2> QED
    BY <2>1, ChargeType DEF Charge
<1>6. ASSUME NEW p \in Process, Evict(p) PROVE \A b \in Arena : collection # None => Charge(b)' <= Charge(b)
  <2>1. PICK a \in pending : manifest' = [manifest EXCEPT ![a] = Absent]
    BY <1>6 DEF Evict, Write
  <2>2. manifest'[a].known = 0 /\ manifest'[a].reservation = 0
    BY <2>1 DEF Absent, TypeOK
  <2>3. a \in Arena
    BY <2>1 DEF TypeOK
  <2>4. Charge(a)' = 0
    BY <2>2 DEF Charge
  <2>5. Charge(a)' <= Charge(a)
    BY <2>3, <2>4, ChargeType
  <2>6. ASSUME NEW b \in Arena \ {a} PROVE Charge(b)' <= Charge(b)
    <3>1. manifest'[b] = manifest[b]
      BY <2>1 DEF TypeOK
    <3> QED
      BY <3>1, ChargeType DEF Charge
  <2> QED
    BY <2>5, <2>6
<1>7. ASSUME NEW p \in Process, SkipEviction(p) PROVE \A b \in Arena : collection # None => Charge(b)' <= Charge(b)
  <2>1. manifest' = manifest
    BY <1>7 DEF SkipEviction, worldVars
  <2> QED
    BY <2>1, ChargeType DEF Charge
<1>8. ASSUME NEW p \in Process, Confirm(p) PROVE \A b \in Arena : collection # None => Charge(b)' <= Charge(b)
  <2>1. manifest' = manifest
    BY <1>8 DEF Confirm, worldVars
  <2> QED
    BY <2>1, ChargeType DEF Charge
<1>9. ASSUME NEW p \in Process, Decide(p) PROVE \A b \in Arena : collection # None => Charge(b)' <= Charge(b)
  <2>1. manifest' = manifest
    BY <1>9 DEF Decide, worldVars
  <2> QED
    BY <2>1, ChargeType DEF Charge
<1>10. ASSUME NEW p \in Process, Spawn(p) PROVE \A b \in Arena : collection # None => Charge(b)' <= Charge(b)
  <2>1. manifest' = manifest
    BY <1>10 DEF Spawn, worldVars
  <2> QED
    BY <2>1, ChargeType DEF Charge
<1>11. ASSUME NEW p \in Process, Finish(p) PROVE \A b \in Arena : collection # None => Charge(b)' <= Charge(b)
  <2>1. PICK a \in Arena : a = arena[p] /\ manifest[a].stage = "unfinished"
    BY <1>11 DEF Finish, TypeOK, PlaceOK, LeaseOK
  <2>2. PICK n \in Measurements(a) : manifest' = [manifest EXCEPT ![a] = Finished(manifest[a], n)]
    BY <1>11, <2>1 DEF Finish, Write
  <2>3. n \in Nat /\ n <= Charge(a)
    BY <2>1, <2>2, MeasurementEffect
  <2>4. manifest'[a].known = n /\ manifest'[a].reservation = 0
    BY <2>1, <2>2 DEF Finished, TypeOK
  <2>5. Charge(a)' = n
    <3>1. manifest'[a].known # Unknown
      BY <2>3, <2>4
    <3> QED
      BY <2>3, <2>4, <3>1 DEF Charge
  <2>6. ASSUME NEW b \in Arena \ {a} PROVE Charge(b)' <= Charge(b)
    <3>1. manifest'[b] = manifest[b]
      BY <2>2 DEF TypeOK
    <3> QED
      BY <3>1, ChargeType DEF Charge
  <2>7. Charge(a)' <= Charge(a)
    BY <2>3, <2>5
  <2> QED
    BY <2>6, <2>7
<1>12. ASSUME NEW p \in Process, Crash(p) PROVE \A b \in Arena : collection # None => Charge(b)' <= Charge(b)
  <2>1. manifest' = manifest
    BY <1>12 DEF Crash, worldVars
  <2> QED
    BY <2>1, ChargeType DEF Charge
<1>13. ASSUME NEW a \in Arena, CargoWrites(a) PROVE \A b \in Arena : collection # None => Charge(b)' <= Charge(b)
  <2>1. manifest' = manifest
    BY <1>13 DEF CargoWrites, worldVars
  <2> QED
    BY <2>1, ChargeType DEF Charge
<1>14. ASSUME NEW a \in Arena, CargoExits(a) PROVE \A b \in Arena : collection # None => Charge(b)' <= Charge(b)
  <2>1. manifest' = manifest
    BY <1>14 DEF CargoExits, worldVars
  <2> QED
    BY <2>1, ChargeType DEF Charge
<1>15. ASSUME NEW a \in Arena, Recover(a) PROVE \A b \in Arena : collection # None => Charge(b)' <= Charge(b)
  BY <1>15 DEF Recover
<1>16. ASSUME NEW a \in Arena, NEW pin \in BOOLEAN, SetPin(a, pin) PROVE \A b \in Arena : collection # None => Charge(b)' <= Charge(b)
  <2>1. \A b \in Arena : /\ manifest'[b].stage = manifest[b].stage
                         /\ manifest'[b].known = manifest[b].known
                         /\ manifest'[b].reservation = manifest[b].reservation
    BY <1>16, PinWrites
  <2> QED
    BY <2>1, ChargeType DEF Charge
<1>17. CASE UNCHANGED vars
  <2>1. manifest' = manifest
    BY <1>17 DEF vars
  <2> QED
    BY <2>1, ChargeType DEF Charge
<1> QED
  BY <1>1, <1>2, <1>3, <1>4, <1>5, <1>6, <1>7, <1>8,
     <1>9, <1>10, <1>11, <1>12, <1>13, <1>14, <1>15, <1>16, <1>17
     DEF Next, Step, Environment

\* What a snapshot has read of an arena covers what it is charged.
LEMMA SnapshotStep == Inv /\ [Next]_vars => SnapshotCovers'
<1> SUFFICES ASSUME Inv, [Next]_vars PROVE SnapshotCovers'
  OBVIOUS
<1>0. TypeOK /\ PlaceOK /\ LeaseOK /\ UnfinishedOK /\ IdleStaysIdle /\ SnapshotCovers
  BY DEF Inv
<1> USE CapacityAssumption, <1>0
<1>t. TypeOK' /\ \A b \in Arena : Charge(b)' \in Nat
  <2>1. TypeOK'
    BY TypeStep
  <2>2. \A b \in Arena : manifest'[b] \in Manifest
    BY <2>1 DEF TypeOK
  <2> QED
    BY <2>1, <2>2 DEF Charge, Manifest
<1>1. ASSUME NEW p \in Process, NEW a \in Arena, NEW r \in Reservation, Admit(p, a, r) PROVE SnapshotCovers'
  BY <1>1 DEF Admit, StartSnapshot, Goto, SnapshotCovers, PlaceOK, Observing, TypeOK
<1>2. ASSUME NEW p \in Process, Collect(p) PROVE SnapshotCovers'
  BY <1>2 DEF Collect, StartSnapshot, Goto, SnapshotCovers, PlaceOK, Observing, TypeOK
<1>3. ASSUME NEW p \in Process, Observe(p) PROVE SnapshotCovers'
  <2>1. PICK a \in pending, held \in BOOLEAN, measurable \in BOOLEAN :
            /\ view' = [view EXCEPT ![a] = Observed(a, held, measurable)]
            /\ pending' = pending \ {a}
    BY <1>3 DEF Observe
  <2>2. a \in Arena /\ manifest' = manifest /\ pc' = pc /\ deep' = deep
    BY <1>3, <2>1 DEF Observe, TypeOK, worldVars
  <2>3. \A b \in Arena : Charge(b)' = Charge(b)
    BY <2>2 DEF Charge
  <2>4. ~deep /\ view'[a].trusted => Charge(a) <= view'[a].size + view'[a].reservation
    <3>1. view'[a] = Observed(a, held, measurable)
      BY <2>1, <2>2 DEF TypeOK
    <3>2. view'[a].reservation = manifest[a].reservation
      BY <3>1 DEF Observed
    <3>3. ~deep => view'[a].size = IF manifest[a].known = Unknown THEN 0 ELSE manifest[a].known
      BY <3>1 DEF Observed
    <3>4. ~deep => Charge(a) = view'[a].size + view'[a].reservation
      BY <3>2, <3>3 DEF Charge
    <3> QED
      BY <2>2, <3>4, ChargeType
  <2>5. \A b \in Arena \ {a} : view'[b] = view[b]
    BY <2>1 DEF TypeOK
  <2> QED
    BY <2>1, <2>2, <2>3, <2>4, <2>5 DEF SnapshotCovers
<1>4. ASSUME NEW p \in Process, GiveUp(p) PROVE SnapshotCovers'
  BY <1>4 DEF GiveUp, ForgetPass, Goto, SnapshotCovers, PlaceOK, Observing, TypeOK
<1>5. ASSUME NEW p \in Process, PlanEvictions(p) PROVE SnapshotCovers'
  BY <1>5 DEF PlanEvictions, Goto, SnapshotCovers, PlaceOK, Observing, TypeOK
<1>6. ASSUME NEW p \in Process, Evict(p) PROVE SnapshotCovers'
  <2> SUFFICES ASSUME ~deep', NEW q \in Process, NEW b \in Arena,
                      pc'[q] \in {"observe", "confirm"}, b \notin pending', view'[b].trusted
               PROVE  Charge(b)' <= view'[b].size + view'[b].reservation
    BY DEF SnapshotCovers
  <2>1. ~deep /\ pc[q] = pc'[q] /\ view'[b] = view[b] /\ b \notin pending
    BY <1>6 DEF Evict, Goto, passVars, TypeOK, PlaceOK, Observing, IdleStaysIdle, Candidates
  <2>2. Charge(b) <= view[b].size + view[b].reservation
    BY <2>1 DEF SnapshotCovers
  <2>3. Charge(b)' <= Charge(b)
    BY <2>1, ChargeFalls DEF PlaceOK, Observing
  <2>4. /\ Charge(b) \in Nat /\ Charge(b)' \in Nat
        /\ view[b].size \in Nat /\ view[b].reservation \in Nat
    BY <1>t, ChargeType DEF TypeOK, Observation
  <2> QED
    BY <2>1, <2>2, <2>3, <2>4
<1>7. ASSUME NEW p \in Process, SkipEviction(p) PROVE SnapshotCovers'
  <2> SUFFICES ASSUME ~deep', NEW q \in Process, NEW b \in Arena,
                      pc'[q] \in {"observe", "confirm"}, b \notin pending', view'[b].trusted
               PROVE  Charge(b)' <= view'[b].size + view'[b].reservation
    BY DEF SnapshotCovers
  <2>1. ~deep /\ pc[q] = pc'[q] /\ view'[b] = view[b] /\ b \notin pending
    BY <1>7 DEF SkipEviction, Goto, passVars, TypeOK, PlaceOK, Observing, IdleStaysIdle, Candidates
  <2>2. Charge(b) <= view[b].size + view[b].reservation
    BY <2>1 DEF SnapshotCovers
  <2>3. Charge(b)' <= Charge(b)
    BY <2>1, ChargeFalls DEF PlaceOK, Observing
  <2>4. /\ Charge(b) \in Nat /\ Charge(b)' \in Nat
        /\ view[b].size \in Nat /\ view[b].reservation \in Nat
    BY <1>t, ChargeType DEF TypeOK, Observation
  <2> QED
    BY <2>1, <2>2, <2>3, <2>4
<1>8. ASSUME NEW p \in Process, Confirm(p) PROVE SnapshotCovers'
  BY <1>8 DEF Confirm, StartSnapshot, Goto, SnapshotCovers, PlaceOK, Observing, TypeOK
<1>9. ASSUME NEW p \in Process, Decide(p) PROVE SnapshotCovers'
  BY <1>9 DEF Decide, ForgetPass, Goto, SnapshotCovers, PlaceOK, Observing, TypeOK
<1>10. ASSUME NEW p \in Process, Spawn(p) PROVE SnapshotCovers'
  <2> SUFFICES ASSUME ~deep', NEW q \in Process, NEW b \in Arena,
                      pc'[q] \in {"observe", "confirm"}, b \notin pending', view'[b].trusted
               PROVE  Charge(b)' <= view'[b].size + view'[b].reservation
    BY DEF SnapshotCovers
  <2>1. ~deep /\ pc[q] = pc'[q] /\ view'[b] = view[b] /\ b \notin pending
    BY <1>10 DEF Spawn, Goto, passVars, TypeOK, PlaceOK, Observing, IdleStaysIdle, Candidates
  <2>2. Charge(b) <= view[b].size + view[b].reservation
    BY <2>1 DEF SnapshotCovers
  <2>3. Charge(b)' <= Charge(b)
    BY <2>1, ChargeFalls DEF PlaceOK, Observing
  <2>4. /\ Charge(b) \in Nat /\ Charge(b)' \in Nat
        /\ view[b].size \in Nat /\ view[b].reservation \in Nat
    BY <1>t, ChargeType DEF TypeOK, Observation
  <2> QED
    BY <2>1, <2>2, <2>3, <2>4
<1>11. ASSUME NEW p \in Process, Finish(p) PROVE SnapshotCovers'
  <2> SUFFICES ASSUME ~deep', NEW q \in Process, NEW b \in Arena,
                      pc'[q] \in {"observe", "confirm"}, b \notin pending', view'[b].trusted
               PROVE  Charge(b)' <= view'[b].size + view'[b].reservation
    BY DEF SnapshotCovers
  <2>1. ~deep /\ pc[q] = pc'[q] /\ view'[b] = view[b] /\ b \notin pending
    BY <1>11 DEF Finish, Goto, passVars, TypeOK, PlaceOK, Observing, IdleStaysIdle, Candidates
  <2>2. Charge(b) <= view[b].size + view[b].reservation
    BY <2>1 DEF SnapshotCovers
  <2>3. Charge(b)' <= Charge(b)
    BY <2>1, ChargeFalls DEF PlaceOK, Observing
  <2>4. /\ Charge(b) \in Nat /\ Charge(b)' \in Nat
        /\ view[b].size \in Nat /\ view[b].reservation \in Nat
    BY <1>t, ChargeType DEF TypeOK, Observation
  <2> QED
    BY <2>1, <2>2, <2>3, <2>4
<1>12. ASSUME NEW p \in Process, Crash(p) PROVE SnapshotCovers'
  <2>1. CASE collection = p
    BY <1>12, <2>1 DEF Crash, Goto, ForgetPass, SnapshotCovers, PlaceOK, Observing, TypeOK
  <2>2. CASE collection # p
    <3>1. \A b \in Arena : Charge(b)' = Charge(b)
      BY <1>12 DEF Crash, Charge
    <3> QED
      BY <1>12, <2>2, <3>1 DEF Crash, Goto, passVars, SnapshotCovers, TypeOK
  <2> QED
    BY <2>1, <2>2
<1>13. ASSUME NEW a \in Arena, CargoWrites(a) PROVE SnapshotCovers'
  <2> SUFFICES ASSUME ~deep', NEW q \in Process, NEW b \in Arena,
                      pc'[q] \in {"observe", "confirm"}, b \notin pending', view'[b].trusted
               PROVE  Charge(b)' <= view'[b].size + view'[b].reservation
    BY DEF SnapshotCovers
  <2>1. ~deep /\ pc[q] = pc'[q] /\ view'[b] = view[b] /\ b \notin pending
    BY <1>13 DEF CargoWrites, Goto, passVars, TypeOK, PlaceOK, Observing, IdleStaysIdle, Candidates
  <2>2. Charge(b) <= view[b].size + view[b].reservation
    BY <2>1 DEF SnapshotCovers
  <2>3. Charge(b)' <= Charge(b)
    BY <2>1, ChargeFalls DEF PlaceOK, Observing
  <2>4. /\ Charge(b) \in Nat /\ Charge(b)' \in Nat
        /\ view[b].size \in Nat /\ view[b].reservation \in Nat
    BY <1>t, ChargeType DEF TypeOK, Observation
  <2> QED
    BY <2>1, <2>2, <2>3, <2>4
<1>14. ASSUME NEW a \in Arena, CargoExits(a) PROVE SnapshotCovers'
  <2> SUFFICES ASSUME ~deep', NEW q \in Process, NEW b \in Arena,
                      pc'[q] \in {"observe", "confirm"}, b \notin pending', view'[b].trusted
               PROVE  Charge(b)' <= view'[b].size + view'[b].reservation
    BY DEF SnapshotCovers
  <2>1. ~deep /\ pc[q] = pc'[q] /\ view'[b] = view[b] /\ b \notin pending
    BY <1>14 DEF CargoExits, Goto, passVars, TypeOK, PlaceOK, Observing, IdleStaysIdle, Candidates
  <2>2. Charge(b) <= view[b].size + view[b].reservation
    BY <2>1 DEF SnapshotCovers
  <2>3. Charge(b)' <= Charge(b)
    BY <2>1, ChargeFalls DEF PlaceOK, Observing
  <2>4. /\ Charge(b) \in Nat /\ Charge(b)' \in Nat
        /\ view[b].size \in Nat /\ view[b].reservation \in Nat
    BY <1>t, ChargeType DEF TypeOK, Observation
  <2> QED
    BY <2>1, <2>2, <2>3, <2>4
<1>15. ASSUME NEW a \in Arena, Recover(a) PROVE SnapshotCovers'
  <2> SUFFICES ASSUME ~deep', NEW q \in Process, NEW b \in Arena,
                      pc'[q] \in {"observe", "confirm"}, b \notin pending', view'[b].trusted
               PROVE  Charge(b)' <= view'[b].size + view'[b].reservation
    BY DEF SnapshotCovers
  <2>1. ~deep /\ pc[q] = pc'[q] /\ view'[b] = view[b] /\ b \notin pending
    BY <1>15 DEF Recover, Goto, passVars, TypeOK, PlaceOK, Observing, IdleStaysIdle, Candidates
  <2>2. Charge(b) <= view[b].size + view[b].reservation
    BY <2>1 DEF SnapshotCovers
  <2>3. Charge(b)' <= Charge(b)
    BY <2>1, ChargeFalls DEF PlaceOK, Observing
  <2>4. /\ Charge(b) \in Nat /\ Charge(b)' \in Nat
        /\ view[b].size \in Nat /\ view[b].reservation \in Nat
    BY <1>t, ChargeType DEF TypeOK, Observation
  <2> QED
    BY <2>1, <2>2, <2>3, <2>4
<1>16. ASSUME NEW a \in Arena, NEW pin \in BOOLEAN, SetPin(a, pin) PROVE SnapshotCovers'
  <2> SUFFICES ASSUME ~deep', NEW q \in Process, NEW b \in Arena,
                      pc'[q] \in {"observe", "confirm"}, b \notin pending', view'[b].trusted
               PROVE  Charge(b)' <= view'[b].size + view'[b].reservation
    BY DEF SnapshotCovers
  <2>1. ~deep /\ pc[q] = pc'[q] /\ view'[b] = view[b] /\ b \notin pending
    BY <1>16 DEF SetPin, Goto, passVars, TypeOK, PlaceOK, Observing, IdleStaysIdle, Candidates
  <2>2. Charge(b) <= view[b].size + view[b].reservation
    BY <2>1 DEF SnapshotCovers
  <2>3. Charge(b)' <= Charge(b)
    BY <2>1, ChargeFalls DEF PlaceOK, Observing
  <2>4. /\ Charge(b) \in Nat /\ Charge(b)' \in Nat
        /\ view[b].size \in Nat /\ view[b].reservation \in Nat
    BY <1>t, ChargeType DEF TypeOK, Observation
  <2> QED
    BY <2>1, <2>2, <2>3, <2>4
<1>17. CASE UNCHANGED vars
  <2>1. \A b \in Arena : Charge(b)' = Charge(b)
    BY <1>17 DEF vars, Charge
  <2> QED
    BY <1>17, <2>1 DEF vars, passVars, SnapshotCovers
<1> QED
  BY <1>1, <1>2, <1>3, <1>4, <1>5, <1>6, <1>7, <1>8,
     <1>9, <1>10, <1>11, <1>12, <1>13, <1>14, <1>15, <1>16, <1>17
     DEF Next, Step, Environment

\* Every transition records what is there, as long as it can be measured.
LEMMA RecordStep == ~UnreadableTrees /\ Inv /\ [Next]_vars => CompletedSizesRecorded'
<1> SUFFICES ASSUME Inv, [Next]_vars, ~UnreadableTrees PROVE CompletedSizesRecorded'
  OBVIOUS
<1>0. TypeOK /\ PlaceOK /\ LeaseOK /\ UnfinishedOK /\ IdleStaysIdle /\ SnapshotCovers
  BY DEF Inv
<1> USE CapacityAssumption, <1>0
<1>c. CompletedSizesRecorded
  BY DEF Inv
<1> USE <1>c
<1>1. ASSUME NEW p \in Process, NEW a \in Arena, NEW r \in Reservation, Admit(p, a, r) PROVE CompletedSizesRecorded'
  <2>1. manifest'[a].stage = "unfinished" /\ size' = size
    BY <1>1 DEF Admit, Write, Begin, TypeOK, worldVars
  <2>2. \A b \in Arena \ {a} : manifest'[b] = manifest[b]
    BY <1>1 DEF Admit, Write, TypeOK
  <2> QED
    BY <2>1, <2>2 DEF CompletedSizesRecorded
<1>2. ASSUME NEW p \in Process, Collect(p) PROVE CompletedSizesRecorded'
  BY <1>2 DEF Collect, CompletedSizesRecorded, worldVars
<1>3. ASSUME NEW p \in Process, Observe(p) PROVE CompletedSizesRecorded'
  BY <1>3 DEF Observe, CompletedSizesRecorded, worldVars
<1>4. ASSUME NEW p \in Process, GiveUp(p) PROVE CompletedSizesRecorded'
  <2>a. CASE arena[p] = None
    BY <1>4, <2>a DEF GiveUp, CompletedSizesRecorded, worldVars
  <2>b. CASE arena[p] # None
    <3>1. arena[p] \in Arena /\ manifest[arena[p]].stage = "unfinished"
      BY <1>4, <2>b DEF TypeOK, LeaseOK
    <3>2. PICK n \in Measurements(arena[p]) :
              manifest' = [manifest EXCEPT ![arena[p]] = Finished(manifest[arena[p]], n)]
      BY <1>4, <2>b DEF GiveUp, Write
    <3>3. manifest'[arena[p]].known = size[arena[p]] /\ size[arena[p]] \in Nat
      BY <3>1, <3>2, MeasurementEffect DEF Finished, TypeOK
    <3>4. \A b \in Arena \ {arena[p]} : manifest'[b] = manifest[b]
      BY <3>2 DEF TypeOK
    <3>5. size' = size
      BY <1>4 DEF GiveUp, worldVars
    <3> QED
      BY <3>3, <3>4, <3>5 DEF CompletedSizesRecorded
  <2> QED
    BY <2>a, <2>b
<1>5. ASSUME NEW p \in Process, PlanEvictions(p) PROVE CompletedSizesRecorded'
  BY <1>5 DEF PlanEvictions, CompletedSizesRecorded, worldVars
<1>6. ASSUME NEW p \in Process, Evict(p) PROVE CompletedSizesRecorded'
  <2>1. PICK a \in pending : /\ manifest' = [manifest EXCEPT ![a] = Absent]
                            /\ size' = [size EXCEPT ![a] = 0]
    BY <1>6 DEF Evict, Write
  <2>2. a \in Arena
    BY <2>1 DEF TypeOK
  <2>3. manifest'[a].known = 0 /\ size'[a] = 0
    BY <2>1, <2>2 DEF Absent, TypeOK
  <2>4. \A b \in Arena \ {a} : manifest'[b] = manifest[b] /\ size'[b] = size[b]
    BY <2>1 DEF TypeOK
  <2> QED
    BY <2>3, <2>4 DEF CompletedSizesRecorded
<1>7. ASSUME NEW p \in Process, SkipEviction(p) PROVE CompletedSizesRecorded'
  BY <1>7 DEF SkipEviction, CompletedSizesRecorded, worldVars
<1>8. ASSUME NEW p \in Process, Confirm(p) PROVE CompletedSizesRecorded'
  BY <1>8 DEF Confirm, CompletedSizesRecorded, worldVars
<1>9. ASSUME NEW p \in Process, Decide(p) PROVE CompletedSizesRecorded'
  BY <1>9 DEF Decide, CompletedSizesRecorded, worldVars
<1>10. ASSUME NEW p \in Process, Spawn(p) PROVE CompletedSizesRecorded'
  BY <1>10 DEF Spawn, CompletedSizesRecorded, worldVars
<1>11. ASSUME NEW p \in Process, Finish(p) PROVE CompletedSizesRecorded'
  <2>1. arena[p] \in Arena /\ manifest[arena[p]].stage = "unfinished"
    BY <1>11 DEF Finish, TypeOK, PlaceOK, LeaseOK
  <2>2. PICK n \in Measurements(arena[p]) :
            manifest' = [manifest EXCEPT ![arena[p]] = Finished(manifest[arena[p]], n)]
    BY <1>11 DEF Finish, Write
  <2>3. manifest'[arena[p]].known = size[arena[p]] /\ size[arena[p]] \in Nat
    BY <2>1, <2>2, MeasurementEffect DEF Finished, TypeOK
  <2>4. \A b \in Arena \ {arena[p]} : manifest'[b] = manifest[b]
    BY <2>2 DEF TypeOK
  <2>5. size' = size
    BY <1>11 DEF Finish, worldVars
  <2> QED
    BY <2>3, <2>4, <2>5 DEF CompletedSizesRecorded
<1>12. ASSUME NEW p \in Process, Crash(p) PROVE CompletedSizesRecorded'
  BY <1>12 DEF Crash, CompletedSizesRecorded, worldVars
<1>13. ASSUME NEW a \in Arena, CargoWrites(a) PROVE CompletedSizesRecorded'
  <2>1. \A b \in Arena : manifest[b].stage # "unfinished" => size'[b] = size[b]
    BY <1>13 DEF CargoWrites, UnfinishedOK, TypeOK
  <2>2. manifest' = manifest
    BY <1>13 DEF CargoWrites
  <2> QED
    BY <2>1, <2>2 DEF CompletedSizesRecorded
<1>14. ASSUME NEW a \in Arena, CargoExits(a) PROVE CompletedSizesRecorded'
  BY <1>14 DEF CargoExits, CompletedSizesRecorded, worldVars
<1>15. ASSUME NEW a \in Arena, Recover(a) PROVE CompletedSizesRecorded'
  <2>1. manifest[a].stage = "unfinished"
    BY <1>15 DEF Recover
  <2>2. PICK n \in Measurements(a) : manifest' = [manifest EXCEPT ![a] = Finished(manifest[a], n)]
    BY <1>15 DEF Recover, Write
  <2>3. manifest'[a].known = size[a] /\ size[a] \in Nat
    BY <2>1, <2>2, MeasurementEffect DEF Finished, TypeOK
  <2>4. \A b \in Arena \ {a} : manifest'[b] = manifest[b]
    BY <2>2 DEF TypeOK
  <2>5. size' = size
    BY <1>15 DEF Recover, worldVars
  <2> QED
    BY <2>3, <2>4, <2>5 DEF CompletedSizesRecorded
<1>16. ASSUME NEW a \in Arena, NEW pin \in BOOLEAN, SetPin(a, pin) PROVE CompletedSizesRecorded'
  <2>1. \A b \in Arena : /\ manifest'[b].stage = manifest[b].stage
                         /\ manifest'[b].known = manifest[b].known
                         /\ manifest'[b].reservation = manifest[b].reservation
    BY <1>16, PinWrites
  <2> QED
    BY <1>16, <2>1 DEF SetPin, CompletedSizesRecorded, worldVars
<1>17. CASE UNCHANGED vars
  BY <1>17 DEF vars, worldVars, CompletedSizesRecorded
<1> QED
  BY <1>1, <1>2, <1>3, <1>4, <1>5, <1>6, <1>7, <1>8,
     <1>9, <1>10, <1>11, <1>12, <1>13, <1>14, <1>15, <1>16, <1>17
     DEF Next, Step, Environment

-----------------------------------------------------------------------------
(* What is granted is there: no arena may come to hold more than before,    *)
(* unless a decision has added it up.                                       *)

\* What is growing is unfinished, and the process that it was granted to has its lock.
LEMMA GrowingIsLeased ==
    ASSUME Inv, NEW a \in Arena
    PROVE  /\ Growing(a) => manifest[a].stage = "unfinished" /\ size[a] <= Charge(a)
           /\ arenaLock[a] = None /\ ~cargo[a] => ~Growing(a)
           /\ \A p \in Process : arena[p] = a /\ pc[p] # "granted" /\ ~cargo[a] => ~Growing(a)
           /\ \A p \in Process : arena[p] = a /\ arena[p] # None /\ pc[p] # "running" => ~cargo[a]
BY CapacityAssumption DEF Inv, TypeOK, LeaseOK, UnfinishedOK, Growing

\* When a ceiling is not raised.
LEMMA CeilingEffect ==
    ASSUME Inv, TypeOK', NEW a \in Arena,
           Growing(a)' => Growing(a) /\ Charge(a)' <= Charge(a),
           ~Growing(a)' => size'[a] <= size[a]
    PROVE  Ceiling(a)' <= Ceiling(a)
<1>0. TypeOK
  BY DEF Inv
<1>1. Charge(a) \in Nat /\ size[a] \in Nat
  BY <1>0, ChargeType
<1>2. CASE Growing(a)'
  BY <1>2 DEF Ceiling
<1>3. CASE ~Growing(a)' /\ Growing(a)
  <2>1. size'[a] <= size[a] /\ size[a] <= Charge(a) /\ size'[a] \in Nat
    BY <1>3, GrowingIsLeased DEF TypeOK
  <2>2. size'[a] <= Charge(a)
    BY <1>1, <2>1
  <2> QED
    BY <1>3, <2>2 DEF Ceiling
<1>4. CASE ~Growing(a)' /\ ~Growing(a)
  BY <1>4 DEF Ceiling
<1> QED
  BY <1>2, <1>3, <1>4

\* A step that leaves size, cargo and manifest alone and grants nothing.
LEMMA CeilingFrame ==
    ASSUME Inv, TypeOK', size' = size, cargo' = cargo, manifest' = manifest,
           NEW p \in Process, pc'[p] # "granted",
           \A q \in Process \ {p} : pc'[q] = pc[q] /\ arena'[q] = arena[q]
    PROVE  \A b \in Arena : (Growing(b)' => Growing(b)) /\ Ceiling(b)' <= Ceiling(b)
<1> SUFFICES ASSUME NEW b \in Arena
             PROVE  (Growing(b)' => Growing(b)) /\ Ceiling(b)' <= Ceiling(b)
  OBVIOUS
<1>1. Growing(b)' => Growing(b)
  BY DEF Growing
<1>2. Charge(b)' = Charge(b) /\ Charge(b) \in Nat /\ size[b] \in Nat
  BY ChargeType DEF Charge, Inv
<1> QED
  BY <1>1, <1>2, CeilingEffect

\* A step that finishes the manifest of an arena that does not grow, or begins it.
LEMMA CeilingOfOthers ==
    ASSUME Inv, TypeOK', size' = size, cargo' = cargo, NEW a \in Arena,
           ~Growing(a)', \A b \in Arena \ {a} : manifest'[b] = manifest[b],
           \A b \in Arena : Growing(b)' => Growing(b)
    PROVE  \A b \in Arena : Ceiling(b)' <= Ceiling(b)
<1> SUFFICES ASSUME NEW b \in Arena PROVE Ceiling(b)' <= Ceiling(b)
  OBVIOUS
<1>1. Growing(b)' => Charge(b)' = Charge(b)
  BY DEF Charge
<1>2. Charge(b) \in Nat /\ size[b] \in Nat
  BY ChargeType DEF Inv
<1> QED
  BY <1>1, <1>2, CeilingEffect

\* Only a decision raises what the arenas may come to hold.
LEMMA CeilingsFall ==
    ASSUME Inv, [Next]_vars, \A p \in Process : ~Decide(p)
    PROVE  \A b \in Arena : (Growing(b)' => Growing(b)) /\ Ceiling(b)' <= Ceiling(b)
<1>0. TypeOK /\ PlaceOK /\ LeaseOK /\ UnfinishedOK /\ IdleStaysIdle
  BY DEF Inv
<1>t. TypeOK'
  BY TypeStep
<1> USE CapacityAssumption, <1>0, <1>t
<1> DEFINE Goal == \A b \in Arena : (Growing(b)' => Growing(b)) /\ Ceiling(b)' <= Ceiling(b)
<1>1. ASSUME NEW p \in Process, NEW a \in Arena, NEW r \in Reservation, Admit(p, a, r) PROVE Goal
  <2>1. ~cargo[a] /\ arenaLock[a] = None
    BY <1>1 DEF Admit, UnfinishedOK
  <2>2. ~Growing(a)
    BY <2>1, GrowingIsLeased
  <2>3. size' = size /\ cargo' = cargo /\ \A b \in Arena \ {a} : manifest'[b] = manifest[b]
    BY <1>1 DEF Admit, worldVars, Write, TypeOK
  <2>4. pc'[p] = "observe" /\ \A q \in Process \ {p} : pc'[q] = pc[q] /\ arena'[q] = arena[q]
    BY <1>1 DEF Admit, Goto, TypeOK
  <2>5. \A b \in Arena : Growing(b)' => Growing(b)
    BY <2>3, <2>4 DEF Growing
  <2> QED
    BY <2>2, <2>3, <2>5, CeilingOfOthers
<1>2. ASSUME NEW p \in Process, Collect(p) PROVE Goal
  <2>1. /\ size' = size /\ cargo' = cargo /\ manifest' = manifest /\ pc'[p] # "granted"
        /\ \A q \in Process \ {p} : pc'[q] = pc[q] /\ arena'[q] = arena[q]
    BY <1>2 DEF Collect, worldVars, Goto, TypeOK
  <2> QED
    BY <2>1, CeilingFrame
<1>3. ASSUME NEW p \in Process, Observe(p) PROVE Goal
  <2>1. /\ size' = size /\ cargo' = cargo /\ manifest' = manifest /\ pc'[p] # "granted"
        /\ \A q \in Process \ {p} : pc'[q] = pc[q] /\ arena'[q] = arena[q]
    BY <1>3 DEF Observe, worldVars
  <2> QED
    BY <2>1, CeilingFrame
<1>4. ASSUME NEW p \in Process, GiveUp(p) PROVE Goal
  <2>0. /\ size' = size /\ cargo' = cargo /\ pc'[p] # "granted" /\ pc[p] = "observe"
        /\ \A q \in Process \ {p} : pc'[q] = pc[q] /\ arena'[q] = arena[q]
    BY <1>4 DEF GiveUp, ReleaseArena, worldVars, Goto, TypeOK
  <2>a. CASE arena[p] = None
    <3>1. manifest' = manifest
      BY <1>4, <2>a DEF GiveUp
    <3> QED
      BY <2>0, <3>1, CeilingFrame
  <2>b. CASE arena[p] # None
    <3>1. arena[p] \in Arena /\ \A b \in Arena \ {arena[p]} : manifest'[b] = manifest[b]
      BY <1>4, <2>b DEF GiveUp, Write, TypeOK
    <3>2. ~Growing(arena[p])
      BY <2>0, <2>b, <3>1, GrowingIsLeased
    <3>3. \A b \in Arena : Growing(b)' => Growing(b)
      BY <2>0 DEF Growing
    <3> QED
      BY <2>0, <3>1, <3>2, <3>3, CeilingOfOthers
  <2> QED
    BY <2>a, <2>b
<1>5. ASSUME NEW p \in Process, PlanEvictions(p) PROVE Goal
  <2>1. /\ size' = size /\ cargo' = cargo /\ manifest' = manifest /\ pc'[p] # "granted"
        /\ \A q \in Process \ {p} : pc'[q] = pc[q] /\ arena'[q] = arena[q]
    BY <1>5 DEF PlanEvictions, worldVars, Goto, TypeOK
  <2> QED
    BY <2>1, CeilingFrame
<1>6. ASSUME NEW p \in Process, Evict(p) PROVE Goal
  <2>1. PICK a \in pending : /\ arenaLock[a] = None
                            /\ manifest' = [manifest EXCEPT ![a] = Absent]
                            /\ size' = [size EXCEPT ![a] = 0]
    BY <1>6 DEF Evict, Write
  <2>2. a \in Arena /\ manifest[a].stage # "unfinished"
    BY <1>6, <2>1 DEF Evict, IdleStaysIdle, Observing, Candidates, TypeOK
  <2>3. ~Growing(a)
    BY <2>2, GrowingIsLeased
  <2>4. \A b \in Arena : Growing(b)' => Growing(b)
    BY <1>6 DEF Evict, Growing, lockVars
  <2> SUFFICES ASSUME NEW b \in Arena PROVE Ceiling(b)' <= Ceiling(b)
    BY <2>4
  <2>5. size[b] \in Nat /\ Charge(b) \in Nat
    BY ChargeType
  <2>6. b # a => Charge(b)' = Charge(b) /\ size'[b] = size[b]
    BY <2>1 DEF Charge, TypeOK
  <2>7. b = a => size'[b] = 0
    BY <2>1, <2>2 DEF TypeOK
  <2> QED
    BY <2>3, <2>4, <2>5, <2>6, <2>7, CeilingEffect
<1>7. ASSUME NEW p \in Process, SkipEviction(p) PROVE Goal
  <2>1. /\ size' = size /\ cargo' = cargo /\ manifest' = manifest /\ pc'[p] # "granted"
        /\ \A q \in Process \ {p} : pc'[q] = pc[q] /\ arena'[q] = arena[q]
    BY <1>7 DEF SkipEviction, worldVars
  <2> QED
    BY <2>1, CeilingFrame
<1>8. ASSUME NEW p \in Process, Confirm(p) PROVE Goal
  <2>1. /\ size' = size /\ cargo' = cargo /\ manifest' = manifest /\ pc'[p] # "granted"
        /\ \A q \in Process \ {p} : pc'[q] = pc[q] /\ arena'[q] = arena[q]
    BY <1>8 DEF Confirm, worldVars, Goto, TypeOK
  <2> QED
    BY <2>1, CeilingFrame
<1>9. ASSUME NEW p \in Process, Decide(p) PROVE Goal
  BY <1>9
<1>10. ASSUME NEW p \in Process, Spawn(p) PROVE Goal
  <2>1. arena[p] \in Arena /\ pc[p] = "granted"
    BY <1>10 DEF Spawn, PlaceOK, TypeOK
  <2>2. /\ size' = size /\ manifest' = manifest /\ arena' = arena /\ pc'[p] = "running"
        /\ \A q \in Process \ {p} : pc'[q] = pc[q]
        /\ \A b \in Arena : cargo'[b] => cargo[b] \/ b = arena[p]
    BY <1>10 DEF Spawn, Goto, TypeOK
  <2>3. \A b \in Arena : Growing(b)' => Growing(b)
    BY <2>1, <2>2 DEF Growing
  <2>4. \A b \in Arena : Charge(b)' = Charge(b) /\ Charge(b) \in Nat /\ size[b] \in Nat
    BY <2>2, ChargeType DEF Charge
  <2> QED
    BY <2>2, <2>3, <2>4, CeilingEffect
<1>11. ASSUME NEW p \in Process, Finish(p) PROVE Goal
  <2>1. PICK a \in Arena : a = arena[p] /\ a # None /\ ~cargo[a]
    BY <1>11 DEF Finish, TypeOK, PlaceOK, LeaseOK
  <2>2. /\ size' = size /\ cargo' = cargo /\ pc'[p] \in {"idle", "ended"}
        /\ \A q \in Process \ {p} : pc'[q] = pc[q] /\ arena'[q] = arena[q]
    BY <1>11 DEF Finish, ReleaseArena, worldVars, Goto, TypeOK
  <2>3. \A b \in Arena : Growing(b)' => Growing(b)
    BY <2>2 DEF Growing
  <2>4. \A q \in Process \ {p} : arena[q] # a
    BY <2>1 DEF LeaseOK
  <2>5. ~Growing(a)'
    BY <2>1, <2>2, <2>4 DEF Growing
  <2>6. \A b \in Arena \ {a} : manifest'[b] = manifest[b]
    BY <1>11, <2>1 DEF Finish, Write, TypeOK
  <2> QED
    BY <2>1, <2>2, <2>3, <2>5, <2>6, CeilingOfOthers
<1>12. ASSUME NEW p \in Process, Crash(p) PROVE Goal
  <2>1. /\ size' = size /\ cargo' = cargo /\ manifest' = manifest /\ pc'[p] # "granted"
        /\ \A q \in Process \ {p} : pc'[q] = pc[q] /\ arena'[q] = arena[q]
    BY <1>12 DEF Crash, ReleaseArena, worldVars, Goto, TypeOK
  <2> QED
    BY <2>1, CeilingFrame
<1>13. ASSUME NEW a \in Arena, CargoWrites(a) PROVE Goal
  <2>1. /\ cargo[a] /\ cargo' = cargo /\ manifest' = manifest /\ pc' = pc /\ arena' = arena
        /\ \A b \in Arena \ {a} : size'[b] = size[b]
    BY <1>13 DEF CargoWrites, TypeOK
  <2>2. \A b \in Arena : Growing(b)' = Growing(b)
    BY <2>1 DEF Growing
  <2>3. Growing(a)'
    BY <2>1 DEF Growing
  <2>4. \A b \in Arena : Charge(b)' = Charge(b) /\ Charge(b) \in Nat /\ size[b] \in Nat
    BY <2>1, ChargeType DEF Charge
  <2> QED
    BY <2>1, <2>2, <2>3, <2>4, CeilingEffect
<1>14. ASSUME NEW a \in Arena, CargoExits(a) PROVE Goal
  <2>1. /\ size' = size /\ manifest' = manifest /\ pc' = pc /\ arena' = arena
        /\ \A b \in Arena : cargo'[b] => cargo[b]
    BY <1>14 DEF CargoExits, TypeOK
  <2>2. \A b \in Arena : Growing(b)' => Growing(b)
    BY <2>1 DEF Growing
  <2>3. \A b \in Arena : Charge(b)' = Charge(b) /\ Charge(b) \in Nat /\ size[b] \in Nat
    BY <2>1, ChargeType DEF Charge
  <2> QED
    BY <2>1, <2>2, <2>3, CeilingEffect
<1>15. ASSUME NEW a \in Arena, Recover(a) PROVE Goal
  <2>1. ~Growing(a)
    BY <1>15, GrowingIsLeased DEF Recover
  <2>2. /\ size' = size /\ cargo' = cargo /\ pc' = pc /\ arena' = arena
        /\ \A b \in Arena \ {a} : manifest'[b] = manifest[b]
    BY <1>15 DEF Recover, worldVars, Write, TypeOK
  <2>3. \A b \in Arena : Growing(b)' => Growing(b)
    BY <2>2 DEF Growing
  <2> QED
    BY <2>1, <2>2, <2>3, CeilingOfOthers
<1>16. ASSUME NEW a \in Arena, NEW pin \in BOOLEAN, SetPin(a, pin) PROVE Goal
  <2>1. size' = size /\ cargo' = cargo /\ pc' = pc /\ arena' = arena
    BY <1>16 DEF SetPin, worldVars
  <2>2. \A b \in Arena : Charge(b)' = Charge(b) /\ Charge(b) \in Nat /\ size[b] \in Nat
    BY <1>16, PinWrites, ChargeType DEF Charge
  <2>3. \A b \in Arena : Growing(b)' => Growing(b)
    BY <2>1 DEF Growing
  <2> QED
    BY <2>1, <2>2, <2>3, CeilingEffect
<1>17. CASE UNCHANGED vars
  <2>1. size' = size /\ cargo' = cargo /\ manifest' = manifest /\ pc' = pc /\ arena' = arena
    BY <1>17 DEF vars, worldVars
  <2>2. \A b \in Arena : Charge(b)' = Charge(b) /\ Charge(b) \in Nat /\ size[b] \in Nat
    BY <2>1, ChargeType DEF Charge
  <2>3. \A b \in Arena : Growing(b)' => Growing(b)
    BY <2>1 DEF Growing
  <2> QED
    BY <2>1, <2>2, <2>3, CeilingEffect
<1> QED
  BY <1>1, <1>2, <1>3, <1>4, <1>5, <1>6, <1>7, <1>8,
     <1>9, <1>10, <1>11, <1>12, <1>13, <1>14, <1>15, <1>16, <1>17
     DEF Next, Step, Environment

\* A size that is known once is known from then on.
LEMMA KnownStays ==
    ASSUME Inv, [Next]_vars, ~UnreadableTrees
    PROVE  \A b \in Arena : manifest[b].known # Unknown => manifest'[b].known # Unknown
<1>0. TypeOK /\ LeaseOK /\ UnfinishedOK /\ PlaceOK
  BY DEF Inv
<1> USE CapacityAssumption, <1>0
<1> DEFINE Goal == \A b \in Arena : manifest[b].known # Unknown => manifest'[b].known # Unknown
<1>a. ASSUME NEW a \in Arena, NEW n \in Measurements(a), manifest[a].stage = "unfinished",
             manifest' = [manifest EXCEPT ![a] = Finished(manifest[a], n)]
      PROVE  Goal
  <2>1. n \in Nat
    BY <1>a, MeasurementEffect
  <2>2. manifest'[a].known = n /\ \A b \in Arena \ {a} : manifest'[b] = manifest[b]
    BY <1>a DEF Finished, TypeOK
  <2> QED
    BY <2>1, <2>2
<1>1. ASSUME NEW p \in Process, NEW a \in Arena, NEW r \in Reservation, Admit(p, a, r) PROVE Goal
  <2>1. /\ manifest'[a].known = size[a] /\ size[a] \in Nat
        /\ \A b \in Arena \ {a} : manifest'[b] = manifest[b]
    BY <1>1 DEF Admit, Write, Begin, TypeOK
  <2> QED
    BY <2>1
<1>2. ASSUME NEW p \in Process, Collect(p) \/ Observe(p) \/ PlanEvictions(p) \/ SkipEviction(p)
                                \/ Confirm(p) \/ Decide(p) \/ Spawn(p) \/ Crash(p)
      PROVE  Goal
  <2>1. manifest' = manifest
    BY <1>2 DEF Collect, Observe, PlanEvictions, SkipEviction, Confirm, Decide, Spawn, Crash
  <2> QED
    BY <2>1
<1>4. ASSUME NEW p \in Process, GiveUp(p) PROVE Goal
  <2>a. CASE arena[p] = None
    BY <1>4, <2>a DEF GiveUp
  <2>b. CASE arena[p] # None
    <3>1. arena[p] \in Arena /\ manifest[arena[p]].stage = "unfinished"
      BY <2>b DEF TypeOK, LeaseOK
    <3>2. PICK n \in Measurements(arena[p]) :
              manifest' = [manifest EXCEPT ![arena[p]] = Finished(manifest[arena[p]], n)]
      BY <1>4, <2>b DEF GiveUp, Write
    <3> QED
      BY <3>1, <3>2, <1>a
  <2> QED
    BY <2>a, <2>b
<1>6. ASSUME NEW p \in Process, Evict(p) PROVE Goal
  <2>1. PICK a \in pending : manifest' = [manifest EXCEPT ![a] = Absent]
    BY <1>6 DEF Evict, Write
  <2>2. a \in Arena /\ manifest'[a].known = 0 /\ \A b \in Arena \ {a} : manifest'[b] = manifest[b]
    BY <2>1 DEF Absent, TypeOK
  <2> QED
    BY <2>2
<1>11. ASSUME NEW p \in Process, Finish(p) PROVE Goal
  <2>1. arena[p] \in Arena /\ manifest[arena[p]].stage = "unfinished"
    BY <1>11 DEF Finish, TypeOK, PlaceOK, LeaseOK
  <2>2. PICK n \in Measurements(arena[p]) :
            manifest' = [manifest EXCEPT ![arena[p]] = Finished(manifest[arena[p]], n)]
    BY <1>11 DEF Finish, Write
  <2> QED
    BY <2>1, <2>2, <1>a
<1>13. ASSUME NEW a \in Arena, CargoWrites(a) \/ CargoExits(a) PROVE Goal
  BY <1>13 DEF CargoWrites, CargoExits
<1>15. ASSUME NEW a \in Arena, Recover(a) PROVE Goal
  <2>1. PICK n \in Measurements(a) : manifest' = [manifest EXCEPT ![a] = Finished(manifest[a], n)]
    BY <1>15 DEF Recover, Write
  <2> QED
    BY <1>15, <2>1, <1>a DEF Recover
<1>16. ASSUME NEW a \in Arena, NEW pin \in BOOLEAN, SetPin(a, pin) PROVE Goal
  BY <1>16, PinWrites
<1>17. CASE UNCHANGED vars
  BY <1>17 DEF vars
<1> QED
  BY <1>1, <1>2, <1>4, <1>6, <1>11, <1>13, <1>15, <1>16, <1>17 DEF Next, Step, Environment

\* What a snapshot that trusts the manifests has trusted names a size.
LEMMA TrustStep ==
    ASSUME Inv, FundingOK, [Next]_vars, ~UnreadableTrees, ~deep',
           NEW q \in Process, NEW b \in Arena,
           pc'[q] \in {"observe", "confirm"}, b \notin pending', view'[b].trusted
    PROVE  manifest'[b].known # Unknown
<1>0. TypeOK /\ PlaceOK
  BY DEF Inv
<1> USE CapacityAssumption, <1>0
<1> DEFINE Seen == ~deep /\ pc[q] \in {"observe", "confirm"} /\ b \notin pending /\ view[b].trusted
<1>s. Seen => manifest'[b].known # Unknown
  BY KnownStays DEF FundingOK
<1>1. ASSUME NEW p \in Process, NEW a \in Arena, NEW r \in Reservation, Admit(p, a, r) PROVE Seen
  BY <1>1 DEF Admit, StartSnapshot
<1>2. ASSUME NEW p \in Process, Collect(p) \/ Confirm(p) PROVE Seen
  BY <1>2 DEF Collect, Confirm, StartSnapshot
<1>3. ASSUME NEW p \in Process, Observe(p) PROVE Seen \/ manifest'[b].known # Unknown
  <2>1. PICK a \in pending, held \in BOOLEAN, measurable \in BOOLEAN :
            /\ view' = [view EXCEPT ![a] = Observed(a, held, measurable)]
            /\ pending' = pending \ {a}
    BY <1>3 DEF Observe
  <2>2. ~deep /\ pc' = pc /\ manifest' = manifest /\ a \in Arena
    BY <1>3 DEF Observe, TypeOK
  <2>3. CASE b = a
    <3>1. view'[b].trusted = (manifest[b].known # Unknown)
      BY <2>1, <2>2, <2>3 DEF Observed, TypeOK
    <3> QED
      BY <2>2, <3>1
  <2>4. CASE b # a
    BY <2>1, <2>2, <2>4 DEF TypeOK
  <2> QED
    BY <2>3, <2>4
<1>4. ASSUME NEW p \in Process, GiveUp(p) \/ PlanEvictions(p) \/ Decide(p) PROVE Seen
  <2>1. collection = p /\ pc'[p] \notin {"observe", "confirm"}
        /\ \A o \in Process \ {p} : pc'[o] = pc[o]
    BY <1>4 DEF GiveUp, PlanEvictions, Decide, Goto, TypeOK, PlaceOK, Observing
  <2> QED
    BY <2>1 DEF PlaceOK, Observing
<1>5. ASSUME NEW p \in Process, Evict(p) \/ SkipEviction(p) PROVE Seen
  <2>1. collection = p /\ pc[p] = "evict" /\ pc' = pc
    BY <1>5 DEF Evict, SkipEviction, PlaceOK, Observing
  <2> QED
    BY <2>1 DEF PlaceOK, Observing
<1>6. ASSUME NEW p \in Process, Spawn(p) \/ Finish(p) PROVE Seen
  BY <1>6 DEF Spawn, Finish, Goto, passVars, TypeOK
<1>7. ASSUME NEW p \in Process, Crash(p) PROVE Seen
  <2>1. pc'[p] = "idle" /\ \A o \in Process \ {p} : pc'[o] = pc[o]
    BY <1>7 DEF Crash, Goto, TypeOK
  <2>2. collection = q /\ p # q
    BY <2>1 DEF PlaceOK, Observing
  <2>3. UNCHANGED passVars
    BY <1>7, <2>2 DEF Crash
  <2> QED
    BY <2>1, <2>2, <2>3 DEF passVars
<1>8. ASSUME \/ UNCHANGED vars
             \/ \E a \in Arena : Environment(a)
      PROVE  Seen
  <2>1. deep' = deep /\ pc' = pc /\ pending' = pending /\ view' = view
    BY <1>8 DEF vars, Environment, CargoWrites, CargoExits, Recover, SetPin, passVars
  <2> QED
    BY <2>1
<1> QED
  BY <1>s, <1>1, <1>2, <1>3, <1>4, <1>5, <1>6, <1>7, <1>8 DEF Next, Step

\* Whoever wants to build does not measure the trees.
LEMMA ShallowStep ==
    ASSUME Inv, FundingOK, [Next]_vars, NEW q \in Process, arena'[q] # None, pc'[q] \in Observing
    PROVE  ~deep'
<1>0. TypeOK /\ PlaceOK
  BY DEF Inv
<1>f. arena[q] # None /\ pc[q] \in Observing => ~deep
  BY DEF FundingOK
<1> USE CapacityAssumption, <1>0, <1>f
<1>1. ASSUME NEW p \in Process, NEW a \in Arena, NEW r \in Reservation, Admit(p, a, r) PROVE ~deep'
  BY <1>1 DEF Admit, StartSnapshot
<1>2. ASSUME NEW p \in Process, Collect(p) PROVE ~deep'
  <2>1. arena' = arena /\ collection = None /\ arena[p] = None
        /\ \A o \in Process \ {p} : pc'[o] = pc[o]
    BY <1>2 DEF Collect, Goto, TypeOK, PlaceOK
  <2>2. pc[q] \notin Observing /\ q # p
    BY <2>1 DEF PlaceOK
  <2> QED
    BY <2>1, <2>2
<1>3. ASSUME NEW p \in Process, Observe(p) \/ PlanEvictions(p) \/ Evict(p) \/ SkipEviction(p) \/ Confirm(p)
      PROVE  ~deep'
  <2>1. deep' = deep /\ arena' = arena /\ pc[p] \in Observing /\ \A o \in Process \ {p} : pc'[o] = pc[o]
    BY <1>3 DEF Observe, PlanEvictions, Evict, SkipEviction, Confirm, StartSnapshot, Goto, TypeOK, Observing
  <2> QED
    BY <2>1
<1>4. ASSUME NEW p \in Process, GiveUp(p) \/ Decide(p) PROVE ~deep'
  BY <1>4 DEF GiveUp, Decide, ForgetPass
<1>5. ASSUME NEW p \in Process, Spawn(p) \/ Finish(p) \/ Crash(p) PROVE ~deep'
  <2>1. deep' = deep \/ ~deep'
    BY <1>5 DEF Spawn, Finish, Crash, ForgetPass, passVars
  <2>2. pc'[p] \notin Observing /\ \A o \in Process \ {p} : pc'[o] = pc[o] /\ arena'[o] = arena[o]
    BY <1>5 DEF Spawn, Finish, Crash, Goto, ReleaseArena, Observing, TypeOK
  <2> QED
    BY <2>1, <2>2
<1>8. ASSUME NEW a \in Arena, Environment(a) PROVE ~deep'
  BY <1>8 DEF Environment, CargoWrites, CargoExits, Recover, SetPin, passVars
<1>9. CASE UNCHANGED vars
  BY <1>9 DEF vars, passVars
<1> QED
  BY <1>1, <1>2, <1>3, <1>4, <1>5, <1>8, <1>9 DEF Next, Step

\* What the arenas may come to hold, added up, is a number, and so is what they hold.
LEMMA CeilingSums ==
    ASSUME Inv
    PROVE  /\ \A a \in Arena : size[a] \in Nat /\ Ceiling(a) \in Nat /\ size[a] <= Ceiling(a)
           /\ Occupied \in Nat /\ SumFunction([a \in Arena |-> Ceiling(a)]) \in Nat
           /\ Occupied <= SumFunction([a \in Arena |-> Ceiling(a)])
<1> DEFINE ceiling == [a \in Arena |-> Ceiling(a)]
<1>0. TypeOK
  BY DEF Inv
<1>1. \A a \in Arena : size[a] \in Nat /\ Ceiling(a) \in Nat /\ size[a] <= Ceiling(a)
  <2> SUFFICES ASSUME NEW a \in Arena
               PROVE  size[a] \in Nat /\ Ceiling(a) \in Nat /\ size[a] <= Ceiling(a)
    OBVIOUS
  <2>1. size[a] \in Nat /\ Charge(a) \in Nat
    BY <1>0, ChargeType
  <2>2. Growing(a) => size[a] <= Charge(a)
    BY GrowingIsLeased
  <2> QED
    BY <2>1, <2>2 DEF Ceiling
<1>2. \A a \in Arena : size[a] \in Nat /\ ceiling[a] \in Nat /\ size[a] <= ceiling[a]
  BY <1>1
<1>3. /\ SumFunction(size) = SumFunctionOnSet(size, Arena)
      /\ SumFunction(ceiling) = SumFunctionOnSet(ceiling, Arena)
  BY <1>0 DEF SumFunction, TypeOK
<1> HIDE DEF ceiling
<1>4. /\ SumFunctionOnSet(size, Arena) \in Nat /\ SumFunctionOnSet(ceiling, Arena) \in Nat
      /\ SumFunctionOnSet(size, Arena) <= SumFunctionOnSet(ceiling, Arena)
  BY <1>2, CapacityAssumption, SumType, SumLeq
<1> QED
  BY <1>1, <1>3, <1>4 DEF Occupied, ceiling

\* A decision that grants has added up what every arena may come to.
LEMMA GrantFunded ==
    ASSUME Inv, FundingOK, CompletedSizesRecorded, NEW p \in Process, Decide(p),
           pc'[p] = "granted"
    PROVE  SumFunction([a \in Arena |-> Ceiling(a)])' <= Budget
<1>0. TypeOK /\ PlaceOK /\ SnapshotCovers /\ UnfinishedOK
  BY DEF Inv
<1>1. /\ pc[p] = "confirm" /\ pending = {} /\ arena[p] # None /\ BudgetMet
      /\ size' = size /\ cargo' = cargo /\ manifest' = manifest /\ arena' = arena
  BY <1>0 DEF Decide, Goto, worldVars, TypeOK
<1>2. ~deep /\ \A a \in Arena : view[a].trusted
  BY <1>1 DEF FundingOK, Observing, BudgetMet, Uncertain
<1> DEFINE bytes == [a \in Arena |-> view[a].size]
           reserved == [a \in Arena |-> view[a].reservation]
           both == [a \in Arena |-> view[a].size + view[a].reservation]
           ceiling == [a \in Arena |-> Ceiling(a)']
<1>3. ASSUME NEW a \in Arena
      PROVE  /\ bytes[a] \in Nat /\ reserved[a] \in Nat /\ both[a] = bytes[a] + reserved[a]
             /\ both[a] \in Nat /\ ceiling[a] \in Nat /\ ceiling[a] <= both[a]
  <2>1. view[a].size \in Nat /\ view[a].reservation \in Nat
    BY <1>0 DEF TypeOK, Observation
  <2>2. Charge(a) <= view[a].size + view[a].reservation /\ manifest[a].known # Unknown
    BY <1>0, <1>1, <1>2 DEF SnapshotCovers, FundingOK
  <2>3. Charge(a) \in Nat /\ size[a] \in Nat /\ Charge(a) = manifest[a].known + manifest[a].reservation
        /\ manifest[a].known \in Nat /\ manifest[a].reservation \in Nat
    BY <1>0, <2>2, ChargeType
  <2>4. size[a] <= Charge(a)
    <3>1. CASE manifest[a].stage = "unfinished"
      BY <1>0, <3>1 DEF UnfinishedOK
    <3>2. CASE manifest[a].stage # "unfinished"
      <4>1. size[a] <= manifest[a].known
        BY <2>2, <3>2 DEF CompletedSizesRecorded
      <4> QED
        BY <2>3, <4>1
    <3> QED
      BY <3>1, <3>2
  <2>5. Ceiling(a)' \in {Charge(a), size[a]}
    BY <1>1 DEF Ceiling, Charge
  <2>6. Ceiling(a)' \in Nat /\ Ceiling(a)' <= Charge(a)
    BY <2>3, <2>4, <2>5
  <2> QED
    BY <2>1, <2>2, <2>3, <2>6
<1>4. SumFunctionOnSet(bytes, Arena) + SumFunctionOnSet(reserved, Arena) <= Budget
  BY <1>1 DEF BudgetMet, Total, Bytes, Reserved, SumFunction
<1>5. SumFunction([a \in Arena |-> Ceiling(a)])' = SumFunctionOnSet(ceiling, Arena)
  BY DEF SumFunction
<1> HIDE DEF bytes, reserved, both, ceiling
<1>6. SumFunctionOnSet(ceiling, Arena) <= SumFunctionOnSet(both, Arena)
  BY <1>3, CapacityAssumption, SumLeq
<1>7. SumFunctionOnSet(both, Arena) = SumFunctionOnSet(bytes, Arena) + SumFunctionOnSet(reserved, Arena)
  BY <1>3, CapacityAssumption, SumPlus
<1>8. SumFunctionOnSet(ceiling, Arena) \in Nat /\ SumFunctionOnSet(both, Arena) \in Nat /\ Budget \in Nat
  BY <1>3, CapacityAssumption, SumType
<1> QED
  BY <1>4, <1>5, <1>6, <1>7, <1>8

\* What is granted stays funded, whoever builds, ends, dies or is retired.
LEMMA FundingStep ==
    ASSUME Inv, FundingOK, CompletedSizesRecorded, [Next]_vars, ~UnreadableTrees
    PROVE  FundingOK'
<1>1. \A p \in Process : arena'[p] # None /\ pc'[p] \in Observing => ~deep'
  BY ShallowStep
<1>2. \A p \in Process, a \in Arena :
          ~deep' /\ pc'[p] \in {"observe", "confirm"} /\ a \notin pending' /\ view'[a].trusted
              => manifest'[a].known # Unknown
  BY TrustStep
<1>3. (\E a \in Arena : Growing(a))' => SumFunction([a \in Arena |-> Ceiling(a)])' <= Budget
  <2> SUFFICES ASSUME NEW a \in Arena, Growing(a)'
               PROVE  SumFunction([b \in Arena |-> Ceiling(b)])' <= Budget
    OBVIOUS
  <2>1. CASE \E p \in Process : Decide(p) /\ pc'[p] = "granted"
    BY <2>1, GrantFunded
  <2>2. CASE ~ \E p \in Process : Decide(p) /\ pc'[p] = "granted"
    <3> DEFINE before == [b \in Arena |-> Ceiling(b)]
               after == [b \in Arena |-> Ceiling(b)']
    <3>1. \A b \in Arena : (Growing(b)' => Growing(b)) /\ Ceiling(b)' <= Ceiling(b)
      <4>1. CASE \A p \in Process : ~Decide(p)
        BY <4>1, CeilingsFall
      <4>2. ASSUME NEW p \in Process, Decide(p)
            PROVE  \A b \in Arena : (Growing(b)' => Growing(b)) /\ Ceiling(b)' <= Ceiling(b)
        <5>1. /\ size' = size /\ cargo' = cargo /\ manifest' = manifest /\ pc'[p] # "granted"
              /\ \A q \in Process \ {p} : pc'[q] = pc[q] /\ arena'[q] = arena[q]
          BY <2>2, <4>2 DEF Decide, Goto, worldVars, Inv, TypeOK
        <5> QED
          BY <5>1, TypeStep, CeilingFrame
      <4> QED
        BY <4>1, <4>2
    <3>2. SumFunction([b \in Arena |-> Ceiling(b)]) <= Budget
      BY <3>1 DEF FundingOK
    <3>3. \A b \in Arena : before[b] \in Nat /\ after[b] \in Nat /\ after[b] <= before[b]
      <4> SUFFICES ASSUME NEW b \in Arena PROVE Ceiling(b) \in Nat /\ Ceiling(b)' \in Nat
        BY <3>1
      <4>1. TypeOK'
        BY TypeStep
      <4>2. size'[b] \in Nat /\ manifest'[b] \in Manifest
        BY <4>1 DEF TypeOK
      <4>3. Charge(b)' \in Nat
        BY <4>2 DEF Charge, Manifest
      <4> QED
        BY <4>2, <4>3, CeilingSums DEF Ceiling
    <3>4. /\ SumFunction([b \in Arena |-> Ceiling(b)]) = SumFunctionOnSet(before, Arena)
          /\ SumFunction([b \in Arena |-> Ceiling(b)])' = SumFunctionOnSet(after, Arena)
      BY DEF SumFunction
    <3> HIDE DEF before, after
    <3>5. SumFunctionOnSet(after, Arena) <= SumFunctionOnSet(before, Arena)
      BY <3>3, CapacityAssumption, SumLeq
    <3>6. SumFunctionOnSet(after, Arena) \in Nat /\ SumFunctionOnSet(before, Arena) \in Nat
      BY <3>3, CapacityAssumption, SumType
    <3> QED
      BY <3>2, <3>4, <3>5, <3>6, CapacityAssumption
  <2> QED
    BY <2>1, <2>2
<1> QED
  BY <1>1, <1>2, <1>3 DEF FundingOK

\* Where the arenas hold more than before, Cargo wrote in one, and all that was granted
\* is there.
LEMMA GrowthStep ==
    ASSUME Inv, FundingOK, Inv', [Next]_vars, Occupied' > Occupied
    PROVE  Occupied' <= Budget
<1>0. TypeOK /\ TypeOK'
  BY DEF Inv
<1>1. /\ \A a \in Arena : size[a] \in Nat /\ size'[a] \in Nat
      /\ Occupied = SumFunctionOnSet(size, Arena) /\ Occupied' = SumFunctionOnSet(size', Arena)
  BY <1>0 DEF TypeOK, Occupied, SumFunction
<1>2. PICK a \in Arena : ~ (size'[a] <= size[a])
  <2>1. SUFFICES ASSUME \A a \in Arena : size'[a] <= size[a] PROVE FALSE
    OBVIOUS
  <2>2. Occupied' <= Occupied
    BY <1>1, <2>1, CapacityAssumption, SumLeq
  <2>3. Occupied \in Nat /\ Occupied' \in Nat
    BY <1>1, CapacityAssumption, SumType
  <2> QED
    BY <2>2, <2>3
<1>3. PICK b \in Arena : CargoWrites(b)
  <2>1. size' # size
    BY <1>1, <1>2
  <2>2. ASSUME NEW p \in Process, Evict(p) PROVE FALSE
    BY <1>0, <1>1, <1>2, <2>2 DEF Evict, TypeOK
  <2> QED
    BY <2>1, <2>2
       DEF Next, Step, Environment, vars, worldVars, Admit, Collect, Observe, GiveUp, PlanEvictions,
           SkipEviction, Confirm, Decide, Spawn, Finish, Crash, CargoExits, Recover, SetPin
<1>4. \A p \in Process : ~Decide(p)
  BY <1>2, <1>1 DEF Decide, worldVars
<1>5. Growing(b)
  BY <1>3 DEF CargoWrites, Growing
<1> DEFINE before == [c \in Arena |-> Ceiling(c)]
<1>6. SumFunctionOnSet(before, Arena) <= Budget
  BY <1>5 DEF FundingOK, SumFunction
<1>7. \A c \in Arena : before[c] \in Nat /\ size'[c] <= before[c]
  <2> SUFFICES ASSUME NEW c \in Arena PROVE Ceiling(c) \in Nat /\ size'[c] <= Ceiling(c)
    OBVIOUS
  <2>1. Ceiling(c) \in Nat /\ size[c] <= Ceiling(c)
    BY CeilingSums
  <2>2. CASE c = b
    <3>1. Charge(b) \in Nat /\ Ceiling(b) = Charge(b)
      BY <1>0, <1>5, ChargeType DEF Ceiling
    <3>2. size'[b] \in 0..Charge(b)
      BY <1>0, <1>3 DEF CargoWrites, TypeOK
    <3> QED
      BY <2>2, <3>1, <3>2
  <2>3. CASE c # b
    BY <1>0, <1>3, <2>1, <2>3 DEF CargoWrites, TypeOK
  <2> QED
    BY <2>1, <2>2, <2>3
<1> HIDE DEF before
<1>8. SumFunctionOnSet(size', Arena) <= SumFunctionOnSet(before, Arena)
  BY <1>1, <1>7, CapacityAssumption, SumLeq
<1>9. SumFunctionOnSet(size', Arena) \in Nat /\ SumFunctionOnSet(before, Arena) \in Nat
  BY <1>1, <1>7, CapacityAssumption, SumType
<1> QED
  BY <1>1, <1>6, <1>8, <1>9, CapacityAssumption

-----------------------------------------------------------------------------
(* What a plan leaves.                                                      *)

\* A percentage up to 100 is not above the whole.
LEMMA PercentBounds ==
    ASSUME NEW n \in Nat, NEW q \in 1..100
    PROVE  Percent(n, q) \in Nat /\ Percent(n, q) <= n
<1>1. n * q \in Nat /\ n * q <= n * 100
  OBVIOUS
<1> QED
  BY <1>1 DEF Percent

\* Within the budget there is nothing to evict; else the watermark is reached, or every
\* candidate goes, or what live builds reserved leaves no bytes to any arena.
LEMMA PlanEffect ==
    ASSUME TypeOK, NEW E \in Plans
    PROVE  /\ E \in SUBSET Arena
           /\ \/ Bytes(Arena \ E) + Reserved <= Budget
              \/ \A a \in Candidates \ E : view[a].size = 0
<1> USE CapacityAssumption
<1> DEFINE bytes == [a \in Arena |-> view[a].size]
           reserved == [a \in Arena |-> view[a].reservation]
           excess == Minus(Total, Target)
           percent == Percent(Budget, LowWatermark)
<1>1. \A a \in Arena : bytes[a] \in Nat /\ reserved[a] \in Nat
  BY DEF TypeOK, Observation
<1>2. \A S \in SUBSET Arena : Bytes(S) = SumFunctionOnSet(bytes, S)
  BY DEF Bytes
<1>3. Reserved = SumFunctionOnSet(reserved, Arena) /\ Total = SumFunctionOnSet(bytes, Arena)
  BY DEF Reserved, Total, Bytes, SumFunction
<1>4. E \in SUBSET Arena
  BY DEF Plans, Candidates
<1> HIDE DEF bytes, reserved
<1>5. Reserved \in Nat /\ Total \in Nat /\ \A S \in SUBSET Arena : Bytes(S) \in Nat
  BY <1>1, <1>2, <1>3, SumType, FS_Subset
<1>6. Total = Bytes(E) + Bytes(Arena \ E)
  BY <1>1, <1>2, <1>3, <1>4, SumSplit
<1>7. CASE Total + Reserved <= Budget
  <2>1. E = {}
    BY <1>7 DEF Plans
  <2>2. Bytes(Arena \ E) = Total
    BY <2>1, <1>2, <1>3
  <2> QED
    BY <1>4, <1>7, <2>2
<1>8. CASE ~(Total + Reserved <= Budget)
  <2>1. E = Candidates \/ Bytes(E) >= excess
    BY <1>8 DEF Plans
  <2>2. CASE E = Candidates
    BY <1>4, <2>2
  <2>3. CASE Bytes(E) >= excess
    <3>1. percent \in Nat /\ percent <= Budget
      BY PercentBounds
    <3> HIDE DEF percent
    <3>2. CASE Reserved < percent
      <4>1. Target = percent - Reserved
        BY <3>2 DEF Target, Minus, percent
      <4>2. excess = IF Target < Total THEN Total - Target ELSE 0
        BY DEF Minus
      <4>3. Bytes(E) \in Nat /\ Bytes(Arena \ E) \in Nat
        BY <1>4, <1>5
      <4>4. Total <= Bytes(E) + Target
        BY <1>5, <2>3, <3>1, <4>1, <4>2, <4>3
      <4> QED
        BY <1>4, <1>5, <1>6, <3>1, <4>1, <4>3, <4>4
    <3>3. CASE ~(Reserved < percent)
      <4>1. Target = 0
        BY <3>3 DEF Target, Minus, percent
      <4>2. excess = IF 0 < Total THEN Total ELSE 0
        BY <1>5, <4>1 DEF Minus
      <4>3. Bytes(E) \in Nat /\ Bytes(Arena \ E) \in Nat
        BY <1>4, <1>5
      <4>4. Bytes(Arena \ E) = 0
        BY <1>5, <1>6, <2>3, <4>2, <4>3
      <4>5. ASSUME NEW a \in Candidates \ E PROVE view[a].size = 0
        <5>1. a \in Arena \ E
          BY DEF Candidates
        <5>2. bytes[a] <= SumFunctionOnSet(bytes, Arena \ E)
          BY <1>1, <5>1, FS_Subset, SumAtLeast
        <5>3. bytes[a] = 0
          BY <1>1, <1>2, <4>4, <5>1, <5>2
        <5> QED
          BY <5>1, <5>3 DEF bytes
      <4> QED
        BY <1>4, <4>5
    <3> QED
      BY <3>2, <3>3
  <2> QED
    BY <2>1, <2>2, <2>3
<1> QED
  BY <1>7, <1>8

\* A plan is enough when it is made, and neither it nor its snapshot changes afterwards.
LEMMA PlanStep ==
    ASSUME Inv, PlanIsEnough, [Next]_vars
    PROVE  PlanIsEnough'
<1>0. TypeOK /\ PlaceOK
  BY DEF Inv
<1> DEFINE Enough == \/ Bytes(Arena \ plan) + Reserved <= Budget
                     \/ \A a \in Candidates \ plan : view[a].size = 0
<1> SUFFICES ASSUME NEW q \in Process, pc'[q] = "evict" PROVE Enough'
  BY DEF PlanIsEnough
<1>1. CASE \E p \in Process : PlanEvictions(p)
  <2>1. plan' \in Plans /\ view' = view
    BY <1>1 DEF PlanEvictions
  <2>2. \/ Bytes(Arena \ plan') + Reserved <= Budget
        \/ \A a \in Candidates \ plan' : view[a].size = 0
    BY <1>0, <2>1, PlanEffect
  <2> QED
    BY <2>1, <2>2 DEF Bytes, Reserved, Candidates
<1>2. CASE pc[q] = "evict" /\ view' = view /\ plan' = plan
  <2>1. Enough
    BY <1>2 DEF PlanIsEnough
  <2> QED
    BY <1>2, <2>1 DEF Bytes, Reserved, Candidates
<1>3. CASE ~ \E p \in Process : PlanEvictions(p)
  <2> DEFINE Kept == pc[q] = "evict" /\ view' = view /\ plan' = plan
  <2> USE <1>0
  <2>1. ASSUME NEW p \in Process, NEW a \in Arena, NEW r \in Reservation, Admit(p, a, r) PROVE Kept
    <3>1. pc[q] = "evict" /\ collection = None
      BY <2>1 DEF Admit, Goto, TypeOK
    <3> QED
      BY <3>1, CapacityAssumption DEF PlaceOK, Observing
  <2>2. ASSUME NEW p \in Process, Collect(p) PROVE Kept
    <3>1. pc[q] = "evict" /\ collection = None
      BY <2>2 DEF Collect, Goto, TypeOK
    <3> QED
      BY <3>1, CapacityAssumption DEF PlaceOK, Observing
  <2>3. ASSUME NEW p \in Process, Observe(p) \/ GiveUp(p) \/ Confirm(p) \/ Decide(p) PROVE Kept
    <3>1. pc[p] \in Observing /\ pc[q] = "evict" /\ p = q
      BY <2>3 DEF Observe, GiveUp, Confirm, Decide, Goto, PlaceOK, Observing, TypeOK
    <3> QED
      BY <2>3, <3>1 DEF Observe, GiveUp, Confirm, Decide, Goto, TypeOK
  <2>4. ASSUME NEW p \in Process, Evict(p) \/ SkipEviction(p) PROVE Kept
    BY <2>4 DEF Evict, SkipEviction
  <2>5. ASSUME NEW p \in Process, Spawn(p) \/ Finish(p) PROVE Kept
    BY <2>5 DEF Spawn, Finish, Goto, passVars, TypeOK
  <2>6. ASSUME NEW p \in Process, Crash(p) PROVE Kept
    <3>1. pc[q] = "evict" /\ collection # p
      BY <2>6 DEF Crash, Goto, PlaceOK, Observing, TypeOK
    <3> QED
      BY <2>6, <3>1 DEF Crash, passVars
  <2>7. ASSUME UNCHANGED vars \/ \E a \in Arena : Environment(a) PROVE Kept
    <3>1. pc' = pc /\ view' = view /\ plan' = plan
      BY <2>7 DEF vars, Environment, CargoWrites, CargoExits, Recover, SetPin, passVars
    <3> QED
      BY <3>1
  <2>8. Kept
    BY <1>3, <2>1, <2>2, <2>3, <2>4, <2>5, <2>6, <2>7 DEF Next, Step
  <2> QED
    BY <1>2, <2>8
<1> QED
  BY <1>1, <1>3

-----------------------------------------------------------------------------
(* The theorems.                                                            *)

\* Inv holds in every reachable state: each action of every process preserves it.
THEOREM InductiveInvariant == Spec => []Inv
<1>1. Inv /\ [Next]_vars => Inv'
  <2> SUFFICES ASSUME Inv, [Next]_vars PROVE Inv'
    OBVIOUS
  <2>1. ~UnreadableTrees => CompletedSizesRecorded' /\ FundingOK'
    BY RecordStep, FundingStep DEF Inv
  <2> QED
    BY <2>1, TypeStep, PlaceStep, LeaseStep, UnfinishedStep, IdleStep, SnapshotStep DEF Inv
<1> QED
  BY <1>1, InitInv, PTL DEF Spec

\* The snapshot on which an admission is granted covers every arena's charge, whoever
\* finishes, dies, recovers or pins while read_arena_snapshot goes through the arenas.
THEOREM SnapshotsCover == Spec => []SnapshotCovers
<1>1. Inv => SnapshotCovers
  BY DEF Inv
<1> QED
  BY <1>1, InductiveInvariant, PTL

\* While the collection lock is held, no arena's charge rises: only an admission
\* raises one, and finish_primary and recover_suspect stay below the reservation.
THEOREM ChargesFall ==
    Spec => [][\A a \in Arena : collection # None => Charge(a)' <= Charge(a)]_vars
<1>1. Inv /\ [Next]_vars => [\A a \in Arena : collection # None => Charge(a)' <= Charge(a)]_vars
  BY ChargeFalls
<1> QED
  BY <1>1, InductiveInvariant, PTL DEF Spec

\* Where every tree can be measured, what the manifest of a finished arena records
\* covers what is there, as admissions that trust cached sizes need it to.
THEOREM SizesRecorded ==
    ASSUME ~UnreadableTrees
    PROVE  Spec => []CompletedSizesRecorded
<1>1. Inv => CompletedSizesRecorded
  BY DEF Inv
<1> QED
  BY <1>1, InductiveInvariant, PTL

\* Every plan makes room for what is reserved, or leaves nothing that could help: an
\* admission is refused only when retiring all it may would not have been enough.
THEOREM PlansAreEnough == Spec => []PlanIsEnough
<1>1. Init => PlanIsEnough
  BY DEF Init, PlanIsEnough
<1>2. Inv /\ PlanIsEnough /\ [Next]_vars => PlanIsEnough'
  BY PlanStep
<1> QED
  BY <1>1, <1>2, InductiveInvariant, PTL DEF Spec

\* docs/locking.md:39-41, for any number of builds, arenas and bytes: as long as every
\* Cargo tree keeps to what it reserved, and every tree can be measured, the arenas
\* grow only within the budget.
THEOREM GrowthIsFunded ==
    ASSUME ~UnreadableTrees
    PROVE  Spec => GrowthWithinBudget
<1>1. Inv /\ Inv' /\ [Next]_vars => [Occupied' > Occupied => Occupied' <= Budget]_vars
  BY GrowthStep DEF Inv
<1> QED
  BY <1>1, InductiveInvariant, PTL DEF Spec, GrowthWithinBudget

=============================================================================
