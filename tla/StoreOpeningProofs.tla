------------------------- MODULE StoreOpeningProofs -------------------------
(***************************************************************************)
(* Theorems about StoreOpening, for any number of processes, arenas, store *)
(* identities, faults and losses of power.                                 *)
(***************************************************************************)
EXTENDS StoreOpening, TLAPS

\* The tuples of variables and the one-line assignments are always expanded.
USE DEF rootVars, lockVars, arenaVars, processVars, vars, Goto, Quiet, Release

-----------------------------------------------------------------------------
(* What the actions have in common.                                        *)

RootFacts == LocksOK /\ OneMarker /\ ProbesKept

ArenaFacts == ArenaOK /\ OneJournal /\ StagingJournaled /\ OneStore

\* Only p moves, and takes or frees no lock but its own.
Others(p) ==
    \A q \in Process \ {p} :
        /\ pc'[q] = pc[q] /\ loaded'[q] = loaded[q]
        /\ wants'[q] = wants[q] /\ current'[q] = current[q]
        /\ initialization' = q <=> initialization = q
        /\ collection' = q <=> collection = q

\* A step that leaves the marker and the probes of the others alone.
LEMMA RootStep ==
    ASSUME Consistent, NEW p \in Process, Others(p), UNCHANGED marker,
           \A q \in Process \ {p} : q \in probes => q \in probes',
           LocksAt(p)',
           loaded'[p] # None => loaded'[p] = marker,
           pc'[p] \in {"unprobe", "unprobeClaimed"} => p \in probes'
    PROVE  RootFacts'
<1>1. LocksOK'
  <2>1. ASSUME NEW q \in Process, q # p PROVE LocksAt(q)'
      BY <2>1 DEF Consistent, LocksOK, LocksAt, Others
  <2> QED
      BY <2>1 DEF LocksOK
<1>2. OneMarker'
    BY DEF Consistent, OneMarker, Others
<1>3. ProbesKept'
    BY DEF Consistent, ProbesKept, Others
<1> QED
    BY <1>1, <1>2, <1>3 DEF RootFacts

\* A step that leaves the arenas and the marker alone.
LEMMA ArenaStep ==
    ASSUME Consistent, NEW p \in Process, Others(p), UNCHANGED <<marker, disk, journal, owner, losses>>,
           ArenaAt(p)',
           pc'[p] \in {"sync", "commit", "leased"} =>
               pc[p] \in {"sync", "commit", "leased"} /\ wants'[p] = wants[p]
               /\ (pc'[p] = "leased" => pc[p] = "leased")
    PROVE  ArenaFacts'
<1>1. \A q \in Process : ArenaAt(q)'
  <2>1. ASSUME NEW q \in Process, q # p PROVE ArenaAt(q)'
      BY <2>1 DEF Consistent, ArenaOK, ArenaAt, Others
  <2> QED
      BY <2>1
<1>2. LeasedAlone'
  <2>1. ASSUME NEW q \in Process, pc'[q] \in {"sync", "commit", "leased"}
        PROVE  /\ pc[q] \in {"sync", "commit", "leased"} /\ wants'[q] = wants[q]
               /\ (pc'[q] = "leased" => pc[q] = "leased")
      BY <2>1 DEF Others
  <2>2. ASSUME NEW q \in Process, NEW r \in Process,
               pc'[q] = "leased", pc'[r] \in {"sync", "commit", "leased"}, wants'[q] = wants'[r]
        PROVE  q = r
      BY <2>1, <2>2 DEF Consistent, ArenaOK, LeasedAlone
  <2> QED
      BY <2>2 DEF LeasedAlone
<1>3. OneJournal' /\ StagingJournaled'
    BY DEF Consistent, OneJournal, StagingJournaled, Orphaned
<1>4. OneStore'
    BY DEF Consistent, OneStore
<1> QED
    BY <1>1, <1>2, <1>3, <1>4 DEF ArenaFacts, ArenaOK

\* Two processes are never both at work on the arenas.
LEMMA HolderAlone ==
    ASSUME Consistent, NEW p \in Process, pc[p] \in Collecting,
           NEW q \in Process, pc[q] \in Collecting
    PROVE  p = q
BY DEF Consistent, LocksOK, LocksAt

\* The holder of the collection lock works on the arena a, and changes it only if nobody
\* has leased it.
LEMMA HolderStep ==
    ASSUME Consistent, NEW p \in Process, Others(p), pc[p] \in Collecting, UNCHANGED marker,
           NEW a \in Arena,
           \A b \in Arena \ {a} :
               disk'[b] = disk[b] /\ journal'[b] = journal[b] /\ owner'[b] = owner[b],
           \A q \in Process \ {p} :
               pc[q] = "leased" /\ wants[q] = a =>
                   disk'[a] = disk[a] /\ pc'[p] \notin {"sync", "commit", "leased"},
           losses' = losses,
           ArenaAt(p)',
           pc'[p] \in {"sync", "commit", "leased"} => wants'[p] = a,
           journal'[a] # None => \A b \in Arena \ {a} : journal[b] = None,
           losses = 0 /\ disk'[a] \in Staging => journal'[a] # None,
           {journal'[a], owner'[a]} \subseteq {journal[a], owner[a], None, loaded[p].id}
    PROVE  ArenaFacts'
<1>1. \A q \in Process : ArenaAt(q)'
  <2>1. ASSUME NEW q \in Process, q # p PROVE ArenaAt(q)'
    <3>1. pc[q] \notin Collecting
        BY <2>1, HolderAlone
    <3>2. pc[q] = "leased" => /\ wants[q] \in Arena /\ disk[wants[q]] = "leased"
                              /\ disk'[wants[q]] = disk[wants[q]]
        BY <2>1 DEF Consistent, ArenaOK, ArenaAt
    <3> QED
        BY <2>1, <3>1, <3>2 DEF ArenaAt, Others, Collecting, Creating
  <2> QED
      BY <2>1
<1>2. LeasedAlone'
  <2>1. ASSUME NEW q \in Process, q # p, pc'[q] \in {"sync", "commit", "leased"}
        PROVE  /\ pc[q] = "leased" /\ pc'[q] = "leased" /\ wants'[q] = wants[q]
               /\ wants[q] = a => pc'[p] \notin {"sync", "commit", "leased"}
    <3>1. pc[q] \notin Collecting
        BY <2>1, HolderAlone
    <3> QED
        BY <2>1, <3>1 DEF Others, Collecting
  <2>2. ASSUME NEW q \in Process, NEW r \in Process,
               pc'[q] = "leased", pc'[r] \in {"sync", "commit", "leased"}, wants'[q] = wants'[r]
        PROVE  q = r
    <3>1. CASE q # p /\ r # p
        BY <2>1, <2>2, <3>1 DEF Consistent, ArenaOK, LeasedAlone
    <3>2. CASE q = p \/ r = p
        BY <2>1, <2>2, <3>2
    <3> QED
        BY <3>1, <3>2
  <2> QED
      BY <2>2 DEF LeasedAlone
<1>3. OneJournal'
    BY DEF Consistent, OneJournal
<1>4. StagingJournaled'
    BY DEF Consistent, StagingJournaled, Orphaned
<1>5. OneStore'
  <2>1. loaded[p] # None /\ loaded[p] = marker
      BY DEF Consistent, LocksOK, LocksAt, Opened, OneMarker
  <2>2. loaded[p].id \in {m.id : m \in {marker} \cap Marker}
      BY <2>1 DEF Consistent, TypeOK
  <2>3. \A b \in Arena : {journal[b], owner[b]} \subseteq {None} \cup {m.id : m \in {marker} \cap Marker}
      BY DEF Consistent, OneStore
  <2>4. \A b \in Arena : {journal'[b], owner'[b]} \subseteq {None} \cup {m.id : m \in {marker} \cap Marker}
      BY <2>2, <2>3
  <2> QED
      BY <2>4 DEF OneStore
<1> QED
    BY <1>1, <1>2, <1>3, <1>4, <1>5 DEF ArenaFacts, ArenaOK

LEMMA ConsistentFrom ==
    ASSUME TypeOK', RootFacts', ArenaFacts'
    PROVE  Consistent'
BY DEF Consistent, RootFacts, ArenaFacts

\* An operation that ends with an error leaves its process without a lock, in the open
\* store or outside.
LEMMA RefuseEffect ==
    ASSUME Consistent, NEW p \in Process, Refuse(p)
    PROVE  /\ Others(p) /\ pc'[p] \in {"refused", "open"} /\ wants'[p] = None
           /\ loaded'[p] \in {loaded[p], None} /\ (pc'[p] = "open" => loaded'[p] # None)
           /\ initialization' # p /\ collection' # p
           /\ pc' \in [Process -> Place] /\ loaded' \in [Process -> Marker \cup {None}]
           /\ wants' \in [Process -> Arena \cup {None}]
           /\ current' \in [Process -> Arena \cup {None}]
           /\ initialization' \in Process \cup {None} /\ collection' \in Process \cup {None}
<1>1. Others(p)
    BY StoreOpeningAssumption DEF Consistent, TypeOK, Refuse, Others
<1>2. /\ pc'[p] \in {"refused", "open"} /\ wants'[p] = None
      /\ loaded'[p] \in {loaded[p], None} /\ (pc'[p] = "open" => loaded'[p] # None)
    BY DEF Consistent, TypeOK, LocksOK, LocksAt, Refuse
<1>3. initialization' # p /\ collection' # p
    BY StoreOpeningAssumption DEF Refuse
<1>4. /\ pc' \in [Process -> Place] /\ loaded' \in [Process -> Marker \cup {None}]
      /\ wants' \in [Process -> Arena \cup {None}]
      /\ current' \in [Process -> Arena \cup {None}]
      /\ initialization' \in Process \cup {None} /\ collection' \in Process \cup {None}
    BY DEF Consistent, TypeOK, Place, Refuse
<1> QED
    BY <1>1, <1>2, <1>3, <1>4

LEMMA RefuseRoots ==
    ASSUME Consistent, NEW p \in Process, Refuse(p), UNCHANGED marker,
           \A q \in Process \ {p} : q \in probes => q \in probes'
    PROVE  RootFacts'
<1>1. LocksAt(p)'
    BY RefuseEffect DEF Consistent, LocksOK, LocksAt, Claiming, Collecting, Creating, Opened
<1>2. loaded'[p] # None => loaded'[p] = marker
    BY RefuseEffect DEF Consistent, OneMarker
<1> QED
    BY <1>1, <1>2, RefuseEffect, RootStep

LEMMA RefuseArenas ==
    ASSUME Consistent, NEW p \in Process, Refuse(p), UNCHANGED <<marker, disk, journal, owner, losses>>
    PROVE  ArenaFacts'
<1>1. ArenaAt(p)'
    BY RefuseEffect DEF ArenaAt, Creating
<1> QED
    BY <1>1, RefuseEffect, ArenaStep

-----------------------------------------------------------------------------
(* Claiming the root preserves the invariant.                              *)

\* A process begins to open the store.
LEMMA OpenStep ==
    ASSUME Consistent, NEW p \in Process, Open(p)
    PROVE  Consistent'
<1>1. TypeOK'
    BY DEF Consistent, TypeOK, Place, Open
<1>2. Others(p)
    BY StoreOpeningAssumption DEF Consistent, TypeOK, Others, Open
<1>3. RootFacts'
  <2>1. LocksAt(p)'
      BY StoreOpeningAssumption DEF Consistent, TypeOK, LocksOK, LocksAt, OneMarker, Claiming,
         Collecting, Creating, Opened, Open
  <2>2. loaded'[p] # None => loaded'[p] = marker
      BY DEF Consistent, TypeOK, OneMarker, Open
  <2>3. pc'[p] \in {"unprobe", "unprobeClaimed"} => p \in probes'
      BY DEF Consistent, TypeOK, ProbesKept, Open
  <2>4. \A q \in Process \ {p} : q \in probes => q \in probes'
      BY DEF Open
  <2> QED
      BY <1>2, <2>1, <2>2, <2>3, <2>4, RootStep DEF Open
<1>4. ArenaFacts'
  <2>1. ArenaAt(p)'
      BY DEF Consistent, TypeOK, ArenaAt, Creating, Open
  <2>2. pc'[p] \notin {"sync", "commit", "leased"}
      BY DEF Consistent, TypeOK, Open
  <2> QED
      BY <1>2, <2>1, <2>2, ArenaStep DEF Open
<1> QED
    BY <1>1, <1>3, <1>4, ConsistentFrom

\* The first, lock-free look at the marker.
LEMMA LookForMarkerStep ==
    ASSUME Consistent, NEW p \in Process, LookForMarker(p)
    PROVE  Consistent'
<1>1. TypeOK'
    BY DEF Consistent, TypeOK, Place, LookForMarker, Marker
<1>2. Others(p)
    BY StoreOpeningAssumption DEF Consistent, TypeOK, Others, LookForMarker, Marker
<1>3. RootFacts'
  <2>1. LocksAt(p)'
      BY StoreOpeningAssumption DEF Consistent, TypeOK, LocksOK, LocksAt, OneMarker, Claiming,
         Collecting, Creating, Opened, LookForMarker, Marker
  <2>2. loaded'[p] # None => loaded'[p] = marker
      BY DEF Consistent, TypeOK, OneMarker, LookForMarker, Marker
  <2>3. pc'[p] \in {"unprobe", "unprobeClaimed"} => p \in probes'
      BY DEF Consistent, TypeOK, ProbesKept, LookForMarker, Marker
  <2>4. \A q \in Process \ {p} : q \in probes => q \in probes'
      BY DEF LookForMarker, Marker
  <2> QED
      BY <1>2, <2>1, <2>2, <2>3, <2>4, RootStep DEF LookForMarker, Marker
<1>4. ArenaFacts'
  <2>1. ArenaAt(p)'
      BY DEF Consistent, TypeOK, ArenaAt, Creating, LookForMarker, Marker
  <2>2. pc'[p] \notin {"sync", "commit", "leased"}
      BY DEF Consistent, TypeOK, LookForMarker, Marker
  <2> QED
      BY <1>2, <2>1, <2>2, ArenaStep DEF LookForMarker, Marker
<1> QED
    BY <1>1, <1>3, <1>4, ConsistentFrom

\* The lock-free look at a root without a marker.
LEMMA ScanRootStep ==
    ASSUME Consistent, NEW p \in Process, ScanRoot(p)
    PROVE  Consistent'
<1>1. CASE Refuse(p)
  <2>1. TypeOK'
      BY <1>1, RefuseEffect DEF Consistent, TypeOK, ScanRoot
  <2> QED
      BY <1>1, <2>1, RefuseEffect, RefuseArenas, RefuseRoots, ConsistentFrom DEF ScanRoot
<1>2. CASE Goto(p, "waitClaim") /\ UNCHANGED <<lockVars, loaded, wants, current>>
  <2>1. TypeOK'
      BY <1>2 DEF Consistent, TypeOK, Place, ScanRoot
  <2>2. Others(p) /\ pc'[p] = "waitClaim"
      BY <1>2 DEF Consistent, TypeOK, Others
  <2>3. LocksAt(p)'
      BY <1>2, <2>2 DEF Consistent, LocksOK, LocksAt, Claiming, Collecting, Creating, Opened,
         ScanRoot
  <2>4. RootFacts'
      BY <1>2, <2>2, <2>3, RootStep DEF Consistent, OneMarker, ScanRoot
  <2>5. ArenaFacts'
      BY <1>2, <2>2, ArenaStep DEF ArenaAt, Creating, ScanRoot
  <2> QED
      BY <2>1, <2>4, <2>5, ConsistentFrom
<1> QED
    BY <1>1, <1>2 DEF ScanRoot

\* The initialization lock is taken.
LEMMA AcquireInitializationStep ==
    ASSUME Consistent, NEW p \in Process, AcquireInitialization(p)
    PROVE  Consistent'
<1>1. TypeOK'
    BY DEF Consistent, TypeOK, Place, AcquireInitialization
<1>2. Others(p)
    BY StoreOpeningAssumption DEF Consistent, TypeOK, Others, AcquireInitialization
<1>3. RootFacts'
  <2>1. LocksAt(p)'
      BY StoreOpeningAssumption DEF Consistent, TypeOK, LocksOK, LocksAt, OneMarker, Claiming,
         Collecting, Creating, Opened, AcquireInitialization
  <2>2. loaded'[p] # None => loaded'[p] = marker
      BY DEF Consistent, TypeOK, OneMarker, AcquireInitialization
  <2>3. pc'[p] \in {"unprobe", "unprobeClaimed"} => p \in probes'
      BY DEF Consistent, TypeOK, ProbesKept, AcquireInitialization
  <2>4. \A q \in Process \ {p} : q \in probes => q \in probes'
      BY DEF AcquireInitialization
  <2> QED
      BY <1>2, <2>1, <2>2, <2>3, <2>4, RootStep DEF AcquireInitialization
<1>4. ArenaFacts'
  <2>1. ArenaAt(p)'
      BY DEF Consistent, TypeOK, ArenaAt, Creating, AcquireInitialization
  <2>2. pc'[p] \notin {"sync", "commit", "leased"}
      BY DEF Consistent, TypeOK, AcquireInitialization
  <2> QED
      BY <1>2, <2>1, <2>2, ArenaStep DEF AcquireInitialization
<1> QED
    BY <1>1, <1>3, <1>4, ConsistentFrom

\* A probe of the file system is made,
LEMMA ProbeStep ==
    ASSUME Consistent, NEW p \in Process, Probe(p)
    PROVE  Consistent'
<1>1. TypeOK'
    BY DEF Consistent, TypeOK, Place, Probe
<1>2. Others(p)
    BY StoreOpeningAssumption DEF Consistent, TypeOK, Others, Probe
<1>3. RootFacts'
  <2>1. LocksAt(p)'
      BY StoreOpeningAssumption DEF Consistent, TypeOK, LocksOK, LocksAt, OneMarker, Claiming,
         Collecting, Creating, Opened, Probe
  <2>2. loaded'[p] # None => loaded'[p] = marker
      BY DEF Consistent, TypeOK, OneMarker, Probe
  <2>3. pc'[p] \in {"unprobe", "unprobeClaimed"} => p \in probes'
      BY DEF Consistent, TypeOK, ProbesKept, Probe
  <2>4. \A q \in Process \ {p} : q \in probes => q \in probes'
      BY DEF Probe
  <2> QED
      BY <1>2, <2>1, <2>2, <2>3, <2>4, RootStep DEF Probe
<1>4. ArenaFacts'
  <2>1. ArenaAt(p)'
      BY DEF Consistent, TypeOK, ArenaAt, Creating, Probe
  <2>2. pc'[p] \notin {"sync", "commit", "leased"}
      BY DEF Consistent, TypeOK, Probe
  <2> QED
      BY <1>2, <2>1, <2>2, ArenaStep DEF Probe
<1> QED
    BY <1>1, <1>3, <1>4, ConsistentFrom

\* and removed by its process.
LEMMA RemoveProbeStep ==
    ASSUME Consistent, NEW p \in Process, RemoveProbe(p)
    PROVE  Consistent'
<1>1. TypeOK'
    BY DEF Consistent, TypeOK, Place, RemoveProbe
<1>2. Others(p)
  <2>1. initialization' = initialization \/ (initialization = p /\ initialization' = None)
      BY DEF Consistent, LocksOK, LocksAt, RemoveProbe, Claiming
  <2> QED
      BY <2>1, StoreOpeningAssumption DEF Consistent, TypeOK, Others, RemoveProbe
<1>3. RootFacts'
  <2>1. LocksAt(p)'
      BY StoreOpeningAssumption DEF Consistent, TypeOK, LocksOK, LocksAt, OneMarker, Claiming,
         Collecting, Creating, Opened, RemoveProbe
  <2>2. loaded'[p] # None => loaded'[p] = marker
      BY DEF Consistent, TypeOK, OneMarker, RemoveProbe
  <2>3. pc'[p] \in {"unprobe", "unprobeClaimed"} => p \in probes'
      BY DEF Consistent, TypeOK, ProbesKept, RemoveProbe
  <2>4. \A q \in Process \ {p} : q \in probes => q \in probes'
      BY DEF RemoveProbe
  <2> QED
      BY <1>2, <2>1, <2>2, <2>3, <2>4, RootStep DEF RemoveProbe
<1>4. ArenaFacts'
  <2>1. ArenaAt(p)'
      BY DEF Consistent, TypeOK, ArenaAt, Creating, RemoveProbe
  <2>2. pc'[p] \notin {"sync", "commit", "leased"}
      BY DEF Consistent, TypeOK, RemoveProbe
  <2> QED
      BY <1>2, <2>1, <2>2, ArenaStep DEF RemoveProbe
<1> QED
    BY <1>1, <1>3, <1>4, ConsistentFrom

\* The directories of the store are made.
LEMMA EnsureLayoutStep ==
    ASSUME Consistent, NEW p \in Process, EnsureLayout(p)
    PROVE  Consistent'
<1>1. TypeOK'
    BY DEF Consistent, TypeOK, Place, EnsureLayout
<1>2. Others(p)
    BY StoreOpeningAssumption DEF Consistent, TypeOK, Others, EnsureLayout
<1>3. RootFacts'
  <2>1. LocksAt(p)'
      BY StoreOpeningAssumption DEF Consistent, TypeOK, LocksOK, LocksAt, OneMarker, Claiming,
         Collecting, Creating, Opened, EnsureLayout
  <2>2. loaded'[p] # None => loaded'[p] = marker
      BY DEF Consistent, TypeOK, OneMarker, EnsureLayout
  <2>3. pc'[p] \in {"unprobe", "unprobeClaimed"} => p \in probes'
      BY DEF Consistent, TypeOK, ProbesKept, EnsureLayout
  <2>4. \A q \in Process \ {p} : q \in probes => q \in probes'
      BY DEF EnsureLayout
  <2> QED
      BY <1>2, <2>1, <2>2, <2>3, <2>4, RootStep DEF EnsureLayout
<1>4. ArenaFacts'
  <2>1. ArenaAt(p)'
      BY DEF Consistent, TypeOK, ArenaAt, Creating, EnsureLayout
  <2>2. pc'[p] \notin {"sync", "commit", "leased"}
      BY DEF Consistent, TypeOK, EnsureLayout
  <2> QED
      BY <1>2, <2>1, <2>2, ArenaStep DEF EnsureLayout
<1> QED
    BY <1>1, <1>3, <1>4, ConsistentFrom

\* Under the lock the marker that is there is loaded, and upgraded by one process at most.
LEMMA LoadMarkerStep ==
    ASSUME Consistent, NEW p \in Process, LoadMarker(p)
    PROVE  Consistent'
<1>1. PICK n \in Nonce : /\ marker' = Upgraded(n) /\ loaded' = [loaded EXCEPT ![p] = marker']
    BY DEF LoadMarker
<1>2. marker \in Marker /\ marker # None
    BY DEF LoadMarker, Consistent, TypeOK
<1>3. /\ marker' \in Marker /\ marker'.id = marker.id /\ marker'.schema = 2
      /\ marker.schema = 2 => marker' = marker
    BY <1>1, <1>2, SMT DEF Upgraded, Marker
<1>4. marker' # None /\ loaded'[p] = marker' /\ loaded' \in [Process -> Marker \cup {None}]
    BY <1>1, <1>3, StoreOpeningAssumption DEF Consistent, TypeOK
<1>5. Others(p)
  <2>1. initialization = p
      BY DEF LoadMarker, Consistent, LocksOK, LocksAt, Claiming
  <2> QED
      BY <1>1, <2>1, StoreOpeningAssumption DEF Consistent, TypeOK, Others, LoadMarker
<1>6. TypeOK'
    BY <1>3, <1>4 DEF Consistent, TypeOK, Place, LoadMarker
<1>7. LocksOK'
  <2>1. LocksAt(p)'
      BY <1>3, <1>4, StoreOpeningAssumption
      DEF Consistent, TypeOK, LocksOK, LocksAt, Claiming, Collecting, Creating, Opened, LoadMarker
  <2>2. ASSUME NEW q \in Process, q # p PROVE LocksAt(q)'
    <3>1. LocksAt(q) /\ LocksAt(p) /\ initialization = p
        BY DEF LoadMarker, Consistent, LocksOK, LocksAt, Claiming
    <3> QED
        BY <2>2, <3>1, <1>2, <1>4, <1>5 DEF LocksAt, Others
  <2> QED
      BY <2>1, <2>2 DEF LocksOK
<1>8. OneMarker'
  <2>1. ASSUME NEW q \in Process, q # p, loaded[q] # None PROVE loaded[q] = marker /\ marker' = marker
      BY <2>1, <1>3 DEF Consistent, LocksOK, LocksAt, OneMarker
  <2> QED
      BY <1>4, <1>5, <2>1 DEF OneMarker, Others
<1>9. ProbesKept'
    BY <1>5 DEF Consistent, TypeOK, ProbesKept, Others, LoadMarker
<1>10. ArenaFacts'
  <2>1. pc'[p] \in {"probe", "probeClaimed"} /\ UNCHANGED <<arenaVars, losses>>
      BY DEF Consistent, TypeOK, LoadMarker
  <2>2. \A q \in Process : ArenaAt(q)'
    <3>1. ArenaAt(p)'
        BY <2>1 DEF ArenaAt, Creating
    <3>2. ASSUME NEW q \in Process, q # p PROVE ArenaAt(q)'
        BY <3>2, <1>5, <2>1 DEF Consistent, ArenaOK, ArenaAt, Others
    <3> QED
        BY <3>1, <3>2
  <2>3. LeasedAlone'
      BY <1>5, <2>1 DEF Consistent, ArenaOK, LeasedAlone, Others
  <2>4. OneJournal' /\ StagingJournaled'
      BY <2>1 DEF Consistent, OneJournal, StagingJournaled, Orphaned
  <2>5. OneStore'
    <3>1. {m.id : m \in {marker} \cap Marker} = {marker.id}
        BY <1>2
    <3>2. {m.id : m \in {marker'} \cap Marker} = {marker.id}
        BY <1>3
    <3> QED
        BY <2>1, <3>1, <3>2 DEF Consistent, OneStore
  <2> QED
      BY <2>2, <2>3, <2>4, <2>5 DEF ArenaFacts, ArenaOK
<1> QED
    BY <1>6, <1>7, <1>8, <1>9, <1>10, ConsistentFrom DEF RootFacts

\* Abandoned probes are removed while nobody else's probe is about to be.
LEMMA ClaimRootStep ==
    ASSUME Consistent, NEW p \in Process, ClaimRoot(p)
    PROVE  Consistent'
<1>1. \A q \in Process : loaded[q] = None
    BY DEF Consistent, TypeOK, OneMarker, ClaimRoot, CleanupAbandoned
<1>2. \A q \in Process \ {p} : pc[q] \notin {"unprobe", "unprobeClaimed"}
    BY <1>1 DEF Consistent, LocksOK, LocksAt, Opened, Claiming, ClaimRoot, CleanupAbandoned
<1>3. ProbesKept' /\ UNCHANGED <<marker, disk, journal, owner, losses>> /\ probes' = {}
  <2>1. pc'[p] \in {"probeClaimed", "refused", "open"}
      BY RefuseEffect DEF Consistent, TypeOK, ClaimRoot, CleanupAbandoned
  <2>2. Others(p)
      BY RefuseEffect DEF Consistent, TypeOK, ClaimRoot, CleanupAbandoned, Others
  <2> QED
      BY <1>2, <2>1, <2>2 DEF ClaimRoot, CleanupAbandoned, ProbesKept, Others
<1>4. CASE Refuse(p)
  <2>1. TypeOK'
      BY <1>3, <1>4, RefuseEffect DEF Consistent, TypeOK, ClaimRoot, CleanupAbandoned
  <2>2. \A q \in Process : LocksAt(q)'
    <3>1. LocksAt(p)'
        BY <1>3, <1>4, RefuseEffect DEF Consistent, LocksOK, LocksAt, Claiming, Collecting,
           Creating, Opened
    <3>2. ASSUME NEW q \in Process, q # p PROVE LocksAt(q)'
        BY <3>2, <1>3, <1>4, RefuseEffect DEF Consistent, LocksOK, LocksAt, Others
    <3> QED
        BY <3>1, <3>2
  <2>3. OneMarker'
      BY <1>1, <1>3, <1>4, RefuseEffect DEF Consistent, OneMarker, Others
  <2> QED
      BY <1>3, <1>4, <2>1, <2>2, <2>3, RefuseArenas, ConsistentFrom DEF RootFacts, LocksOK
<1>5. CASE Goto(p, "probeClaimed") /\ UNCHANGED <<lockVars, loaded, wants, current>>
  <2>1. TypeOK'
      BY <1>3, <1>5 DEF Consistent, TypeOK, Place, ClaimRoot, CleanupAbandoned
  <2>2. Others(p) /\ pc'[p] = "probeClaimed"
      BY <1>5 DEF Consistent, TypeOK, Others
  <2>3. \A q \in Process : LocksAt(q)'
    <3>1. LocksAt(p)'
        BY <1>3, <1>5, <2>2 DEF Consistent, LocksOK, LocksAt, Claiming, Collecting, Creating,
           Opened, ClaimRoot, CleanupAbandoned
    <3>2. ASSUME NEW q \in Process, q # p PROVE LocksAt(q)'
        BY <3>2, <1>3, <2>2 DEF Consistent, LocksOK, LocksAt, Others
    <3> QED
        BY <3>1, <3>2
  <2>4. OneMarker'
      BY <1>1, <1>5 DEF OneMarker
  <2>5. ArenaFacts'
      BY <1>3, <2>2, ArenaStep DEF ArenaAt, Creating
  <2> QED
      BY <1>3, <2>1, <2>3, <2>4, <2>5, ConsistentFrom DEF RootFacts, LocksOK
<1> QED
    BY <1>4, <1>5 DEF ClaimRoot, CleanupAbandoned

\* A marker is created under the lock, for a store that holds nothing.
LEMMA CreateMarkerStep ==
    ASSUME Consistent, NEW p \in Process, CreateMarker(p)
    PROVE  Consistent'
<1>1. PICK n \in Nonce :
          /\ marker' = IF marker = None THEN [schema |-> 2, id |-> n, key |-> n] ELSE marker
          /\ loaded' = [loaded EXCEPT ![p] = marker']
    BY DEF CreateMarker
<1>2. initialization = p
    BY DEF CreateMarker, Consistent, LocksOK, LocksAt, Claiming
<1>3. Others(p) /\ pc'[p] = "probe" /\ loaded'[p] = marker'
    BY <1>1, <1>2, StoreOpeningAssumption DEF Consistent, TypeOK, Others, CreateMarker
<1>4. marker' # None /\ marker' \in Marker /\ (marker # None => marker' = marker)
  <2>1. [schema |-> 2, id |-> n, key |-> n] \in Marker
      BY DEF Marker
  <2> QED
      BY <1>1, <2>1, StoreOpeningAssumption DEF Consistent, TypeOK
<1>5. TypeOK'
    BY <1>1, <1>4 DEF Consistent, TypeOK, Place, CreateMarker
<1>6. loaded[p] # None \/ marker = None
    BY DEF Consistent, LocksOK, LocksAt, Claiming, CreateMarker
<1>7. marker'.schema = 2
  <2>1. CASE marker = None
      BY <1>1, <2>1
  <2>2. CASE marker # None
      BY <1>4, <1>6, <2>2 DEF Consistent, OneMarker, LocksOK, LocksAt
  <2> QED
      BY <2>1, <2>2
<1>8. LocksOK'
  <2>1. LocksAt(p)'
      BY <1>2, <1>3, <1>4, <1>7, StoreOpeningAssumption
      DEF Consistent, LocksOK, LocksAt, Claiming, Collecting, Creating, Opened, CreateMarker
  <2>2. ASSUME NEW q \in Process, q # p PROVE LocksAt(q)'
    <3>1. LocksAt(q) /\ initialization = p
        BY <1>2 DEF Consistent, LocksOK
    <3> QED
        BY <2>2, <3>1, <1>3, <1>4 DEF LocksAt, Others
  <2> QED
      BY <2>1, <2>2 DEF LocksOK
<1>9. OneMarker'
  <2>1. \A q \in Process : loaded[q] # None => marker # None
      BY DEF Consistent, OneMarker
  <2> QED
      BY <1>3, <1>4, <2>1 DEF Consistent, OneMarker, Others
<1>10. ProbesKept'
    BY <1>3 DEF Consistent, ProbesKept, Others, CreateMarker
<1>11. ArenaFacts'
  <2>1. UNCHANGED <<arenaVars, losses>>
      BY DEF CreateMarker
  <2>2. \A q \in Process : ArenaAt(q)'
    <3>1. ArenaAt(p)'
        BY <1>3 DEF ArenaAt, Creating
    <3>2. ASSUME NEW q \in Process, q # p PROVE ArenaAt(q)'
        BY <3>2, <1>3, <2>1 DEF Consistent, ArenaOK, ArenaAt, Others
    <3> QED
        BY <3>1, <3>2
  <2>3. LeasedAlone'
      BY <1>3 DEF Consistent, ArenaOK, LeasedAlone, Others
  <2>4. OneJournal' /\ StagingJournaled'
      BY <2>1 DEF Consistent, OneJournal, StagingJournaled, Orphaned
  <2>5. OneStore'
    <3>1. CASE marker = None
      <4>1. {m.id : m \in {marker} \cap Marker} = {}
          BY <3>1, StoreOpeningAssumption
      <4> QED
          BY <2>1, <4>1 DEF Consistent, OneStore
    <3>2. CASE marker # None
        BY <3>2, <1>4, <2>1 DEF Consistent, OneStore
    <3> QED
        BY <3>1, <3>2
  <2> QED
      BY <2>2, <2>3, <2>4, <2>5 DEF ArenaFacts, ArenaOK
<1> QED
    BY <1>5, <1>8, <1>9, <1>10, <1>11, ConsistentFrom DEF RootFacts

-----------------------------------------------------------------------------
(* Reconciliation and leases preserve the invariant.                       *)

\* An open store wants an arena.
LEMMA LeaseStep ==
    ASSUME Consistent, NEW p \in Process, NEW a \in Arena, Lease(p, a)
    PROVE  Consistent'
<1>1. TypeOK'
    BY DEF Consistent, TypeOK, Place, Lease
<1>2. Others(p) /\ pc'[p] = "waitCollection"
    BY StoreOpeningAssumption DEF Consistent, TypeOK, Others, Lease
<1>3. LocksAt(p)'
    BY <1>2, StoreOpeningAssumption
    DEF Consistent, TypeOK, LocksOK, LocksAt, Claiming, Collecting, Creating, Opened, Lease
<1>4. RootFacts'
    BY <1>2, <1>3, RootStep DEF Consistent, TypeOK, OneMarker, Lease
<1>5. ArenaFacts'
    BY <1>2, ArenaStep DEF ArenaAt, Creating, Lease
<1> QED
    BY <1>1, <1>4, <1>5, ConsistentFrom

\* The collection lock is taken.
LEMMA AcquireCollectionStep ==
    ASSUME Consistent, NEW p \in Process, AcquireCollection(p)
    PROVE  Consistent'
<1>1. TypeOK'
    BY DEF Consistent, TypeOK, Place, AcquireCollection
<1>2. Others(p) /\ pc'[p] = "reconcile"
    BY StoreOpeningAssumption DEF Consistent, TypeOK, Others, AcquireCollection
<1>3. LocksAt(p)'
    BY <1>2, StoreOpeningAssumption
    DEF Consistent, TypeOK, LocksOK, LocksAt, Claiming, Collecting, Creating, Opened,
       AcquireCollection
<1>4. RootFacts'
    BY <1>2, <1>3, RootStep DEF Consistent, TypeOK, OneMarker, AcquireCollection
<1>5. ArenaFacts'
    BY <1>2, ArenaStep DEF ArenaAt, Creating, AcquireCollection
<1> QED
    BY <1>1, <1>4, <1>5, ConsistentFrom

\* An open store is closed.
LEMMA CloseStep ==
    ASSUME Consistent, NEW p \in Process, Close(p)
    PROVE  Consistent'
<1>1. TypeOK'
    BY DEF Consistent, TypeOK, Place, Close
<1>2. Others(p) /\ pc'[p] = "idle"
    BY StoreOpeningAssumption DEF Consistent, TypeOK, Others, Close
<1>3. LocksAt(p)'
    BY <1>2, StoreOpeningAssumption
    DEF Consistent, TypeOK, LocksOK, LocksAt, Claiming, Collecting, Creating, Opened, Close
<1>4. RootFacts'
    BY <1>2, <1>3, RootStep DEF Consistent, TypeOK, OneMarker, Close
<1>5. ArenaFacts'
    BY <1>2, ArenaStep DEF ArenaAt, Creating, Close
<1> QED
    BY <1>1, <1>4, <1>5, ConsistentFrom

\* A staged manifest is settled,
LEMMA SettleStagedStep ==
    ASSUME Consistent, NEW p \in Process, SettleStaged(p)
    PROVE  Consistent'
<1>1. PICK a \in Arena : a = current[p]
    BY DEF Consistent, ArenaOK, ArenaAt, Creating, SettleStaged
<1>2. /\ Others(p) /\ pc'[p] = "promote"
      /\ UNCHANGED <<rootVars, loaded, losses>> /\ pc[p] \in Collecting
    BY StoreOpeningAssumption DEF Consistent, TypeOK, Others, Collecting, SettleStaged
<1>3. TypeOK'
    BY <1>1, <1>2 DEF Consistent, TypeOK, Place, Staging, Final, Begun, Settled, Marker, LocksOK,
       LocksAt, Opened, SettleStaged, Rewrite, Settled
<1>4. RootFacts'
  <2>1. LocksAt(p)'
      BY <1>2, StoreOpeningAssumption
      DEF Consistent, TypeOK, LocksOK, LocksAt, Claiming, Collecting, Creating, Opened, SettleStaged
  <2> QED
      BY <1>2, <2>1, RootStep DEF Consistent, OneMarker
<1>5. ArenaFacts'
  <2>1. /\ ArenaAt(p) /\ OneJournal /\ disk \in [Arena -> Staging \cup Final \cup {"none"}]
        /\ journal \in [Arena -> Nonce \cup {None}] /\ owner \in [Arena -> Nonce \cup {None}]
      BY DEF Consistent, ArenaOK, TypeOK
  <2>2. \A b \in Arena \ {a} :
            disk'[b] = disk[b] /\ journal'[b] = journal[b] /\ owner'[b] = owner[b]
      BY <1>1, <2>1 DEF SettleStaged, Rewrite, Settled
  <2>3. ArenaAt(p)'
      BY <1>1, <1>2, <2>1, <2>2, StoreOpeningAssumption
      DEF ArenaAt, Creating, Staging, Final, Consistent, TypeOK, LocksOK, LocksAt, Opened,
         Collecting, Marker, SettleStaged, Rewrite, Settled
  <2>4. ASSUME NEW q \in Process \ {p}, pc[q] = "leased", wants[q] = a
        PROVE  disk'[a] = disk[a] /\ pc'[p] \notin {"sync", "commit", "leased"}
      BY <1>1, <1>2, <2>1, <2>4 DEF Consistent, ArenaOK, ArenaAt, LeasedAlone, Staging,
         SettleStaged, Rewrite, Settled
  <2>5. losses = 0 /\ disk'[a] \in Staging => journal'[a] # None
      BY <1>1, <1>2, <2>1 DEF Consistent, ArenaAt, Creating, Staging, StagingJournaled, Orphaned,
         SettleStaged, Rewrite, Settled
  <2>6. journal'[a] # None => \A b \in Arena \ {a} : journal[b] = None
      BY <1>1, <2>1 DEF ArenaAt, Creating, OneJournal, SettleStaged, Rewrite, Settled
  <2>7. {journal'[a], owner'[a]} \subseteq {journal[a], owner[a], None, loaded[p].id}
      BY <1>1, <2>1 DEF SettleStaged, Rewrite, Settled
  <2>8. pc'[p] \in {"sync", "commit", "leased"} => wants'[p] = a
      BY <1>1, <1>2 DEF SettleStaged
  <2> QED
      BY <1>2, <2>2, <2>3, <2>4, <2>5, <2>6, <2>7, <2>8, HolderStep
<1> QED
    BY <1>3, <1>4, <1>5, ConsistentFrom

\* its arena is promoted,
LEMMA PromoteStagedStep ==
    ASSUME Consistent, NEW p \in Process, PromoteStaged(p)
    PROVE  Consistent'
<1>1. PICK a \in Arena : a = current[p]
    BY DEF Consistent, ArenaOK, ArenaAt, Creating, PromoteStaged
<1>2. /\ Others(p) /\ pc'[p] = "syncStaged"
      /\ UNCHANGED <<rootVars, loaded, losses>> /\ pc[p] \in Collecting
    BY StoreOpeningAssumption DEF Consistent, TypeOK, Others, Collecting, PromoteStaged
<1>3. TypeOK'
    BY <1>1, <1>2 DEF Consistent, TypeOK, Place, Staging, Final, Begun, Settled, Marker, LocksOK,
       LocksAt, Opened, PromoteStaged, SetEntry
<1>4. RootFacts'
  <2>1. LocksAt(p)'
      BY <1>2, StoreOpeningAssumption
      DEF Consistent, TypeOK, LocksOK, LocksAt, Claiming, Collecting, Creating, Opened,
         PromoteStaged
  <2> QED
      BY <1>2, <2>1, RootStep DEF Consistent, OneMarker
<1>5. ArenaFacts'
  <2>1. /\ ArenaAt(p) /\ OneJournal /\ disk \in [Arena -> Staging \cup Final \cup {"none"}]
        /\ journal \in [Arena -> Nonce \cup {None}] /\ owner \in [Arena -> Nonce \cup {None}]
      BY DEF Consistent, ArenaOK, TypeOK
  <2>2. \A b \in Arena \ {a} :
            disk'[b] = disk[b] /\ journal'[b] = journal[b] /\ owner'[b] = owner[b]
      BY <1>1, <2>1 DEF PromoteStaged, SetEntry
  <2>3. ArenaAt(p)'
      BY <1>1, <1>2, <2>1, <2>2, StoreOpeningAssumption
      DEF ArenaAt, Creating, Staging, Final, Consistent, TypeOK, LocksOK, LocksAt, Opened,
         Collecting, Marker, PromoteStaged, SetEntry
  <2>4. ASSUME NEW q \in Process \ {p}, pc[q] = "leased", wants[q] = a
        PROVE  disk'[a] = disk[a] /\ pc'[p] \notin {"sync", "commit", "leased"}
      BY <1>1, <1>2, <2>1, <2>4 DEF Consistent, ArenaOK, ArenaAt, LeasedAlone, Staging,
         PromoteStaged, SetEntry
  <2>5. losses = 0 /\ disk'[a] \in Staging => journal'[a] # None
      BY <1>1, <1>2, <2>1 DEF Consistent, ArenaAt, Creating, Staging, StagingJournaled, Orphaned,
         PromoteStaged, SetEntry
  <2>6. journal'[a] # None => \A b \in Arena \ {a} : journal[b] = None
      BY <1>1, <2>1 DEF ArenaAt, Creating, OneJournal, PromoteStaged, SetEntry
  <2>7. {journal'[a], owner'[a]} \subseteq {journal[a], owner[a], None, loaded[p].id}
      BY <1>1, <2>1 DEF PromoteStaged, SetEntry
  <2>8. pc'[p] \in {"sync", "commit", "leased"} => wants'[p] = a
      BY <1>1, <1>2 DEF PromoteStaged
  <2> QED
      BY <1>2, <2>2, <2>3, <2>4, <2>5, <2>6, <2>7, <2>8, HolderStep
<1> QED
    BY <1>3, <1>4, <1>5, ConsistentFrom

\* synchronized,
LEMMA SyncStagedStep ==
    ASSUME Consistent, NEW p \in Process, SyncStaged(p)
    PROVE  Consistent'
<1>1. PICK a \in Arena : a = current[p]
    BY DEF Consistent, ArenaOK, ArenaAt, Creating, SyncStaged
<1>2. /\ Others(p) /\ pc'[p] = "unjournal"
      /\ UNCHANGED <<rootVars, loaded, losses>> /\ pc[p] \in Collecting
    BY StoreOpeningAssumption DEF Consistent, TypeOK, Others, Collecting, SyncStaged
<1>3. TypeOK'
    BY <1>1, <1>2 DEF Consistent, TypeOK, Place, Staging, Final, Begun, Settled, Marker, LocksOK,
       LocksAt, Opened, SyncStaged, Synchronize
<1>4. RootFacts'
  <2>1. LocksAt(p)'
      BY <1>2, StoreOpeningAssumption
      DEF Consistent, TypeOK, LocksOK, LocksAt, Claiming, Collecting, Creating, Opened, SyncStaged
  <2> QED
      BY <1>2, <2>1, RootStep DEF Consistent, OneMarker
<1>5. ArenaFacts'
  <2>1. /\ ArenaAt(p) /\ OneJournal /\ disk \in [Arena -> Staging \cup Final \cup {"none"}]
        /\ journal \in [Arena -> Nonce \cup {None}] /\ owner \in [Arena -> Nonce \cup {None}]
      BY DEF Consistent, ArenaOK, TypeOK
  <2>2. \A b \in Arena \ {a} :
            disk'[b] = disk[b] /\ journal'[b] = journal[b] /\ owner'[b] = owner[b]
      BY <1>1, <2>1 DEF SyncStaged, Synchronize
  <2>3. ArenaAt(p)'
      BY <1>1, <1>2, <2>1, <2>2, StoreOpeningAssumption
      DEF ArenaAt, Creating, Staging, Final, Consistent, TypeOK, LocksOK, LocksAt, Opened,
         Collecting, Marker, SyncStaged, Synchronize
  <2>4. ASSUME NEW q \in Process \ {p}, pc[q] = "leased", wants[q] = a
        PROVE  disk'[a] = disk[a] /\ pc'[p] \notin {"sync", "commit", "leased"}
      BY <1>1, <1>2, <2>1, <2>4 DEF Consistent, ArenaOK, ArenaAt, LeasedAlone, Staging,
         SyncStaged, Synchronize
  <2>5. losses = 0 /\ disk'[a] \in Staging => journal'[a] # None
      BY <1>1, <1>2, <2>1 DEF Consistent, ArenaAt, Creating, Staging, StagingJournaled, Orphaned,
         SyncStaged, Synchronize
  <2>6. journal'[a] # None => \A b \in Arena \ {a} : journal[b] = None
      BY <1>1, <2>1 DEF ArenaAt, Creating, OneJournal, SyncStaged, Synchronize
  <2>7. {journal'[a], owner'[a]} \subseteq {journal[a], owner[a], None, loaded[p].id}
      BY <1>1, <2>1 DEF SyncStaged, Synchronize
  <2>8. pc'[p] \in {"sync", "commit", "leased"} => wants'[p] = a
      BY <1>1, <1>2 DEF SyncStaged
  <2> QED
      BY <1>2, <2>2, <2>3, <2>4, <2>5, <2>6, <2>7, <2>8, HolderStep
<1> QED
    BY <1>3, <1>4, <1>5, ConsistentFrom

\* and its journal removed.
LEMMA UnjournalStagedStep ==
    ASSUME Consistent, NEW p \in Process, UnjournalStaged(p)
    PROVE  Consistent'
<1>1. PICK a \in Arena : a = current[p]
    BY DEF Consistent, ArenaOK, ArenaAt, Creating, UnjournalStaged
<1>2. /\ Others(p) /\ pc'[p] = "reconcile"
      /\ UNCHANGED <<rootVars, loaded, losses>> /\ pc[p] \in Collecting
    BY StoreOpeningAssumption DEF Consistent, TypeOK, Others, Collecting, UnjournalStaged
<1>3. TypeOK'
    BY <1>1, <1>2 DEF Consistent, TypeOK, Place, Staging, Final, Begun, Settled, Marker, LocksOK,
       LocksAt, Opened, UnjournalStaged, RemoveJournal
<1>4. RootFacts'
  <2>1. LocksAt(p)'
      BY <1>2, StoreOpeningAssumption
      DEF Consistent, TypeOK, LocksOK, LocksAt, Claiming, Collecting, Creating, Opened,
         UnjournalStaged
  <2> QED
      BY <1>2, <2>1, RootStep DEF Consistent, OneMarker
<1>5. ArenaFacts'
  <2>1. /\ ArenaAt(p) /\ OneJournal /\ disk \in [Arena -> Staging \cup Final \cup {"none"}]
        /\ journal \in [Arena -> Nonce \cup {None}] /\ owner \in [Arena -> Nonce \cup {None}]
      BY DEF Consistent, ArenaOK, TypeOK
  <2>2. \A b \in Arena \ {a} :
            disk'[b] = disk[b] /\ journal'[b] = journal[b] /\ owner'[b] = owner[b]
      BY <1>1, <2>1 DEF UnjournalStaged, RemoveJournal
  <2>3. ArenaAt(p)'
      BY <1>1, <1>2, <2>1, <2>2, StoreOpeningAssumption
      DEF ArenaAt, Creating, Staging, Final, Consistent, TypeOK, LocksOK, LocksAt, Opened,
         Collecting, Marker, UnjournalStaged, RemoveJournal
  <2>4. ASSUME NEW q \in Process \ {p}, pc[q] = "leased", wants[q] = a
        PROVE  disk'[a] = disk[a] /\ pc'[p] \notin {"sync", "commit", "leased"}
      BY <1>1, <1>2, <2>1, <2>4 DEF Consistent, ArenaOK, ArenaAt, LeasedAlone, Staging,
         UnjournalStaged, RemoveJournal
  <2>5. losses = 0 /\ disk'[a] \in Staging => journal'[a] # None
      BY <1>1, <1>2, <2>1 DEF Consistent, ArenaAt, Creating, Staging, StagingJournaled, Orphaned,
         UnjournalStaged, RemoveJournal
  <2>6. journal'[a] # None => \A b \in Arena \ {a} : journal[b] = None
      BY <1>1, <2>1 DEF ArenaAt, Creating, OneJournal, UnjournalStaged, RemoveJournal
  <2>7. {journal'[a], owner'[a]} \subseteq {journal[a], owner[a], None, loaded[p].id}
      BY <1>1, <2>1 DEF UnjournalStaged, RemoveJournal
  <2>8. pc'[p] \in {"sync", "commit", "leased"} => wants'[p] = a
      BY <1>1, <1>2 DEF UnjournalStaged
  <2> QED
      BY <1>2, <2>2, <2>3, <2>4, <2>5, <2>6, <2>7, <2>8, HolderStep
<1> QED
    BY <1>3, <1>4, <1>5, ConsistentFrom

\* A new arena begins with a journal,
LEMMA JournalArenaStep ==
    ASSUME Consistent, NEW p \in Process, JournalArena(p)
    PROVE  Consistent'
<1>1. PICK a \in Arena : a = wants[p]
    BY DEF Consistent, ArenaOK, ArenaAt, Creating, JournalArena
<1>2. /\ Others(p) /\ pc'[p] = "stage"
      /\ UNCHANGED <<rootVars, loaded, losses>> /\ pc[p] \in Collecting
    BY StoreOpeningAssumption DEF Consistent, TypeOK, Others, Collecting, JournalArena
<1>3. TypeOK'
    BY <1>1, <1>2 DEF Consistent, TypeOK, Place, Staging, Final, Begun, Settled, Marker, LocksOK,
       LocksAt, Opened, JournalArena, RemoveJournal
<1>4. RootFacts'
  <2>1. LocksAt(p)'
      BY <1>2, StoreOpeningAssumption
      DEF Consistent, TypeOK, LocksOK, LocksAt, Claiming, Collecting, Creating, Opened, JournalArena
  <2> QED
      BY <1>2, <2>1, RootStep DEF Consistent, OneMarker
<1>5. ArenaFacts'
  <2>1. /\ ArenaAt(p) /\ OneJournal /\ disk \in [Arena -> Staging \cup Final \cup {"none"}]
        /\ journal \in [Arena -> Nonce \cup {None}] /\ owner \in [Arena -> Nonce \cup {None}]
      BY DEF Consistent, ArenaOK, TypeOK
  <2>2. \A b \in Arena \ {a} :
            disk'[b] = disk[b] /\ journal'[b] = journal[b] /\ owner'[b] = owner[b]
      BY <1>1, <2>1 DEF JournalArena, RemoveJournal
  <2>3. ArenaAt(p)'
      BY <1>1, <1>2, <2>1, <2>2, StoreOpeningAssumption
      DEF ArenaAt, Creating, Staging, Final, Consistent, TypeOK, LocksOK, LocksAt, Opened,
         Collecting, Marker, JournalArena, RemoveJournal
  <2>4. ASSUME NEW q \in Process \ {p}, pc[q] = "leased", wants[q] = a
        PROVE  disk'[a] = disk[a] /\ pc'[p] \notin {"sync", "commit", "leased"}
      BY <1>1, <1>2, <2>1, <2>4 DEF Consistent, ArenaOK, ArenaAt, LeasedAlone, Staging,
         JournalArena, RemoveJournal
  <2>5. losses = 0 /\ disk'[a] \in Staging => journal'[a] # None
      BY <1>1, <1>2, <2>1 DEF Consistent, ArenaAt, Creating, Staging, StagingJournaled, Orphaned,
         JournalArena, RemoveJournal
  <2>6. journal'[a] # None => \A b \in Arena \ {a} : journal[b] = None
      BY <1>1, <2>1 DEF ArenaAt, Creating, OneJournal, JournalArena, RemoveJournal
  <2>7. {journal'[a], owner'[a]} \subseteq {journal[a], owner[a], None, loaded[p].id}
      BY <1>1, <2>1 DEF JournalArena, RemoveJournal
  <2>8. pc'[p] \in {"sync", "commit", "leased"} => wants'[p] = a
      BY <1>1, <1>2 DEF JournalArena
  <2> QED
      BY <1>2, <2>2, <2>3, <2>4, <2>5, <2>6, <2>7, <2>8, HolderStep
<1> QED
    BY <1>3, <1>4, <1>5, ConsistentFrom

\* gets a staging directory,
LEMMA StageArenaStep ==
    ASSUME Consistent, NEW p \in Process, StageArena(p)
    PROVE  Consistent'
<1>1. PICK a \in Arena : a = wants[p]
    BY DEF Consistent, ArenaOK, ArenaAt, Creating, StageArena
<1>2. /\ Others(p) /\ pc'[p] = "manifest"
      /\ UNCHANGED <<rootVars, loaded, losses>> /\ pc[p] \in Collecting
    BY StoreOpeningAssumption DEF Consistent, TypeOK, Others, Collecting, StageArena
<1>3. TypeOK'
    BY <1>1, <1>2 DEF Consistent, TypeOK, Place, Staging, Final, Begun, Settled, Marker, LocksOK,
       LocksAt, Opened, StageArena, SetEntry
<1>4. RootFacts'
  <2>1. LocksAt(p)'
      BY <1>2, StoreOpeningAssumption
      DEF Consistent, TypeOK, LocksOK, LocksAt, Claiming, Collecting, Creating, Opened, StageArena
  <2> QED
      BY <1>2, <2>1, RootStep DEF Consistent, OneMarker
<1>5. ArenaFacts'
  <2>1. /\ ArenaAt(p) /\ OneJournal /\ disk \in [Arena -> Staging \cup Final \cup {"none"}]
        /\ journal \in [Arena -> Nonce \cup {None}] /\ owner \in [Arena -> Nonce \cup {None}]
      BY DEF Consistent, ArenaOK, TypeOK
  <2>2. \A b \in Arena \ {a} :
            disk'[b] = disk[b] /\ journal'[b] = journal[b] /\ owner'[b] = owner[b]
      BY <1>1, <2>1 DEF StageArena, SetEntry
  <2>3. ArenaAt(p)'
      BY <1>1, <1>2, <2>1, <2>2, StoreOpeningAssumption
      DEF ArenaAt, Creating, Staging, Final, Consistent, TypeOK, LocksOK, LocksAt, Opened,
         Collecting, Marker, StageArena, SetEntry
  <2>4. ASSUME NEW q \in Process \ {p}, pc[q] = "leased", wants[q] = a
        PROVE  disk'[a] = disk[a] /\ pc'[p] \notin {"sync", "commit", "leased"}
      BY <1>1, <1>2, <2>1, <2>4 DEF Consistent, ArenaOK, ArenaAt, LeasedAlone, Staging,
         StageArena, SetEntry
  <2>5. losses = 0 /\ disk'[a] \in Staging => journal'[a] # None
      BY <1>1, <1>2, <2>1 DEF Consistent, ArenaAt, Creating, Staging, StagingJournaled, Orphaned,
         StageArena, SetEntry
  <2>6. journal'[a] # None => \A b \in Arena \ {a} : journal[b] = None
      BY <1>1, <2>1 DEF ArenaAt, Creating, OneJournal, StageArena, SetEntry
  <2>7. {journal'[a], owner'[a]} \subseteq {journal[a], owner[a], None, loaded[p].id}
      BY <1>1, <2>1 DEF StageArena, SetEntry
  <2>8. pc'[p] \in {"sync", "commit", "leased"} => wants'[p] = a
      BY <1>1, <1>2 DEF StageArena
  <2> QED
      BY <1>2, <2>2, <2>3, <2>4, <2>5, <2>6, <2>7, <2>8, HolderStep
<1> QED
    BY <1>3, <1>4, <1>5, ConsistentFrom

\* a manifest,
LEMMA StageManifestStep ==
    ASSUME Consistent, NEW p \in Process, StageManifest(p)
    PROVE  Consistent'
<1>1. PICK a \in Arena : a = wants[p]
    BY DEF Consistent, ArenaOK, ArenaAt, Creating, StageManifest
<1>2. /\ Others(p) /\ pc'[p] = "rename"
      /\ UNCHANGED <<rootVars, loaded, losses>> /\ pc[p] \in Collecting
    BY StoreOpeningAssumption DEF Consistent, TypeOK, Others, Collecting, StageManifest
<1>3. TypeOK'
    BY <1>1, <1>2 DEF Consistent, TypeOK, Place, Staging, Final, Begun, Settled, Marker, LocksOK,
       LocksAt, Opened, StageManifest, Rewrite, Begun
<1>4. RootFacts'
  <2>1. LocksAt(p)'
      BY <1>2, StoreOpeningAssumption
      DEF Consistent, TypeOK, LocksOK, LocksAt, Claiming, Collecting, Creating, Opened,
         StageManifest
  <2> QED
      BY <1>2, <2>1, RootStep DEF Consistent, OneMarker
<1>5. ArenaFacts'
  <2>1. /\ ArenaAt(p) /\ OneJournal /\ disk \in [Arena -> Staging \cup Final \cup {"none"}]
        /\ journal \in [Arena -> Nonce \cup {None}] /\ owner \in [Arena -> Nonce \cup {None}]
      BY DEF Consistent, ArenaOK, TypeOK
  <2>2. \A b \in Arena \ {a} :
            disk'[b] = disk[b] /\ journal'[b] = journal[b] /\ owner'[b] = owner[b]
      BY <1>1, <2>1 DEF StageManifest, Rewrite, Begun
  <2>3. ArenaAt(p)'
      BY <1>1, <1>2, <2>1, <2>2, StoreOpeningAssumption
      DEF ArenaAt, Creating, Staging, Final, Consistent, TypeOK, LocksOK, LocksAt, Opened,
         Collecting, Marker, StageManifest, Rewrite, Begun
  <2>4. ASSUME NEW q \in Process \ {p}, pc[q] = "leased", wants[q] = a
        PROVE  disk'[a] = disk[a] /\ pc'[p] \notin {"sync", "commit", "leased"}
      BY <1>1, <1>2, <2>1, <2>4 DEF Consistent, ArenaOK, ArenaAt, LeasedAlone, Staging,
         StageManifest, Rewrite, Begun
  <2>5. losses = 0 /\ disk'[a] \in Staging => journal'[a] # None
      BY <1>1, <1>2, <2>1 DEF Consistent, ArenaAt, Creating, Staging, StagingJournaled, Orphaned,
         StageManifest, Rewrite, Begun
  <2>6. journal'[a] # None => \A b \in Arena \ {a} : journal[b] = None
      BY <1>1, <2>1 DEF ArenaAt, Creating, OneJournal, StageManifest, Rewrite, Begun
  <2>7. {journal'[a], owner'[a]} \subseteq {journal[a], owner[a], None, loaded[p].id}
      BY <1>1, <2>1 DEF StageManifest, Rewrite, Begun
  <2>8. pc'[p] \in {"sync", "commit", "leased"} => wants'[p] = a
      BY <1>1, <1>2 DEF StageManifest
  <2> QED
      BY <1>2, <2>2, <2>3, <2>4, <2>5, <2>6, <2>7, <2>8, HolderStep
<1> QED
    BY <1>3, <1>4, <1>5, ConsistentFrom

\* its final path,
LEMMA PromoteArenaStep ==
    ASSUME Consistent, NEW p \in Process, PromoteArena(p)
    PROVE  Consistent'
<1>1. PICK a \in Arena : a = wants[p]
    BY DEF Consistent, ArenaOK, ArenaAt, Creating, PromoteArena
<1>2. /\ Others(p) /\ pc'[p] = "sync"
      /\ UNCHANGED <<rootVars, loaded, losses>> /\ pc[p] \in Collecting
    BY StoreOpeningAssumption DEF Consistent, TypeOK, Others, Collecting, PromoteArena
<1>3. TypeOK'
    BY <1>1, <1>2 DEF Consistent, TypeOK, Place, Staging, Final, Begun, Settled, Marker, LocksOK,
       LocksAt, Opened, PromoteArena, SetEntry
<1>4. RootFacts'
  <2>1. LocksAt(p)'
      BY <1>2, StoreOpeningAssumption
      DEF Consistent, TypeOK, LocksOK, LocksAt, Claiming, Collecting, Creating, Opened, PromoteArena
  <2> QED
      BY <1>2, <2>1, RootStep DEF Consistent, OneMarker
<1>5. ArenaFacts'
  <2>1. /\ ArenaAt(p) /\ OneJournal /\ disk \in [Arena -> Staging \cup Final \cup {"none"}]
        /\ journal \in [Arena -> Nonce \cup {None}] /\ owner \in [Arena -> Nonce \cup {None}]
      BY DEF Consistent, ArenaOK, TypeOK
  <2>2. \A b \in Arena \ {a} :
            disk'[b] = disk[b] /\ journal'[b] = journal[b] /\ owner'[b] = owner[b]
      BY <1>1, <2>1 DEF PromoteArena, SetEntry
  <2>3. ArenaAt(p)'
      BY <1>1, <1>2, <2>1, <2>2, StoreOpeningAssumption
      DEF ArenaAt, Creating, Staging, Final, Consistent, TypeOK, LocksOK, LocksAt, Opened,
         Collecting, Marker, PromoteArena, SetEntry
  <2>4. ASSUME NEW q \in Process \ {p}, pc[q] = "leased", wants[q] = a
        PROVE  disk'[a] = disk[a] /\ pc'[p] \notin {"sync", "commit", "leased"}
      BY <1>1, <1>2, <2>1, <2>4 DEF Consistent, ArenaOK, ArenaAt, LeasedAlone, Staging,
         PromoteArena, SetEntry
  <2>5. losses = 0 /\ disk'[a] \in Staging => journal'[a] # None
      BY <1>1, <1>2, <2>1 DEF Consistent, ArenaAt, Creating, Staging, StagingJournaled, Orphaned,
         PromoteArena, SetEntry
  <2>6. journal'[a] # None => \A b \in Arena \ {a} : journal[b] = None
      BY <1>1, <2>1 DEF ArenaAt, Creating, OneJournal, PromoteArena, SetEntry
  <2>7. {journal'[a], owner'[a]} \subseteq {journal[a], owner[a], None, loaded[p].id}
      BY <1>1, <2>1 DEF PromoteArena, SetEntry
  <2>8. pc'[p] \in {"sync", "commit", "leased"} => wants'[p] = a
      BY <1>1, <1>2 DEF PromoteArena
  <2> QED
      BY <1>2, <2>2, <2>3, <2>4, <2>5, <2>6, <2>7, <2>8, HolderStep
<1> QED
    BY <1>3, <1>4, <1>5, ConsistentFrom

\* is synchronized,
LEMMA SyncArenaStep ==
    ASSUME Consistent, NEW p \in Process, SyncArena(p)
    PROVE  Consistent'
<1>1. PICK a \in Arena : a = wants[p]
    BY DEF Consistent, ArenaOK, ArenaAt, Creating, SyncArena
<1>2. /\ Others(p) /\ pc'[p] = "commit"
      /\ UNCHANGED <<rootVars, loaded, losses>> /\ pc[p] \in Collecting
    BY StoreOpeningAssumption DEF Consistent, TypeOK, Others, Collecting, SyncArena
<1>3. TypeOK'
    BY <1>1, <1>2 DEF Consistent, TypeOK, Place, Staging, Final, Begun, Settled, Marker, LocksOK,
       LocksAt, Opened, SyncArena, Synchronize
<1>4. RootFacts'
  <2>1. LocksAt(p)'
      BY <1>2, StoreOpeningAssumption
      DEF Consistent, TypeOK, LocksOK, LocksAt, Claiming, Collecting, Creating, Opened, SyncArena
  <2> QED
      BY <1>2, <2>1, RootStep DEF Consistent, OneMarker
<1>5. ArenaFacts'
  <2>1. /\ ArenaAt(p) /\ OneJournal /\ disk \in [Arena -> Staging \cup Final \cup {"none"}]
        /\ journal \in [Arena -> Nonce \cup {None}] /\ owner \in [Arena -> Nonce \cup {None}]
      BY DEF Consistent, ArenaOK, TypeOK
  <2>2. \A b \in Arena \ {a} :
            disk'[b] = disk[b] /\ journal'[b] = journal[b] /\ owner'[b] = owner[b]
      BY <1>1, <2>1 DEF SyncArena, Synchronize
  <2>3. ArenaAt(p)'
      BY <1>1, <1>2, <2>1, <2>2, StoreOpeningAssumption
      DEF ArenaAt, Creating, Staging, Final, Consistent, TypeOK, LocksOK, LocksAt, Opened,
         Collecting, Marker, SyncArena, Synchronize
  <2>4. ASSUME NEW q \in Process \ {p}, pc[q] = "leased", wants[q] = a
        PROVE  disk'[a] = disk[a] /\ pc'[p] \notin {"sync", "commit", "leased"}
      BY <1>1, <1>2, <2>1, <2>4 DEF Consistent, ArenaOK, ArenaAt, LeasedAlone, Staging,
         SyncArena, Synchronize
  <2>5. losses = 0 /\ disk'[a] \in Staging => journal'[a] # None
      BY <1>1, <1>2, <2>1 DEF Consistent, ArenaAt, Creating, Staging, StagingJournaled, Orphaned,
         SyncArena, Synchronize
  <2>6. journal'[a] # None => \A b \in Arena \ {a} : journal[b] = None
      BY <1>1, <2>1 DEF ArenaAt, Creating, OneJournal, SyncArena, Synchronize
  <2>7. {journal'[a], owner'[a]} \subseteq {journal[a], owner[a], None, loaded[p].id}
      BY <1>1, <2>1 DEF SyncArena, Synchronize
  <2>8. pc'[p] \in {"sync", "commit", "leased"} => wants'[p] = a
      BY <1>1, <1>2 DEF SyncArena
  <2> QED
      BY <1>2, <2>2, <2>3, <2>4, <2>5, <2>6, <2>7, <2>8, HolderStep
<1> QED
    BY <1>3, <1>4, <1>5, ConsistentFrom

\* and is leased.
LEMMA UnjournalArenaStep ==
    ASSUME Consistent, NEW p \in Process, UnjournalArena(p)
    PROVE  Consistent'
<1>1. PICK a \in Arena : a = wants[p]
    BY DEF Consistent, ArenaOK, ArenaAt, Creating, UnjournalArena
<1>2. /\ Others(p) /\ pc'[p] = "leased"
      /\ UNCHANGED <<rootVars, loaded, losses>> /\ pc[p] \in Collecting
    BY StoreOpeningAssumption DEF Consistent, TypeOK, Others, LocksOK, LocksAt, Collecting,
       UnjournalArena
<1>3. TypeOK'
    BY <1>1, <1>2 DEF Consistent, TypeOK, Place, Staging, Final, Begun, Settled, Marker, LocksOK,
       LocksAt, Opened, UnjournalArena, RemoveJournal
<1>4. RootFacts'
  <2>1. LocksAt(p)'
      BY <1>2, StoreOpeningAssumption
      DEF Consistent, TypeOK, LocksOK, LocksAt, Claiming, Collecting, Creating, Opened,
         UnjournalArena
  <2> QED
      BY <1>2, <2>1, RootStep DEF Consistent, OneMarker
<1>5. ArenaFacts'
  <2>1. /\ ArenaAt(p) /\ OneJournal /\ disk \in [Arena -> Staging \cup Final \cup {"none"}]
        /\ journal \in [Arena -> Nonce \cup {None}] /\ owner \in [Arena -> Nonce \cup {None}]
      BY DEF Consistent, ArenaOK, TypeOK
  <2>2. \A b \in Arena \ {a} :
            disk'[b] = disk[b] /\ journal'[b] = journal[b] /\ owner'[b] = owner[b]
      BY <1>1, <2>1 DEF UnjournalArena, RemoveJournal
  <2>3. ArenaAt(p)'
      BY <1>1, <1>2, <2>1, <2>2, StoreOpeningAssumption
      DEF ArenaAt, Creating, Staging, Final, Consistent, TypeOK, LocksOK, LocksAt, Opened,
         Collecting, Marker, UnjournalArena, RemoveJournal
  <2>4. ASSUME NEW q \in Process \ {p}, pc[q] = "leased", wants[q] = a
        PROVE  disk'[a] = disk[a] /\ pc'[p] \notin {"sync", "commit", "leased"}
      BY <1>1, <1>2, <2>1, <2>4 DEF Consistent, ArenaOK, ArenaAt, LeasedAlone, Staging,
         UnjournalArena, RemoveJournal
  <2>5. losses = 0 /\ disk'[a] \in Staging => journal'[a] # None
      BY <1>1, <1>2, <2>1 DEF Consistent, ArenaAt, Creating, Staging, StagingJournaled, Orphaned,
         UnjournalArena, RemoveJournal
  <2>6. journal'[a] # None => \A b \in Arena \ {a} : journal[b] = None
      BY <1>1, <2>1 DEF ArenaAt, Creating, OneJournal, UnjournalArena, RemoveJournal
  <2>7. {journal'[a], owner'[a]} \subseteq {journal[a], owner[a], None, loaded[p].id}
      BY <1>1, <2>1 DEF UnjournalArena, RemoveJournal
  <2>8. pc'[p] \in {"sync", "commit", "leased"} => wants'[p] = a
      BY <1>1, <1>2 DEF UnjournalArena
  <2> QED
      BY <1>2, <2>2, <2>3, <2>4, <2>5, <2>6, <2>7, <2>8, HolderStep
<1> QED
    BY <1>3, <1>4, <1>5, ConsistentFrom

\* What an error of a reconciliation or of a lease leaves.
LEMMA RejectedStep ==
    ASSUME Consistent, NEW p \in Process, Rejected(p)
    PROVE  Consistent'
<1>1. TypeOK'
    BY RefuseEffect DEF Consistent, TypeOK, Rejected
<1> QED
    BY <1>1, RefuseArenas, RefuseRoots, ConsistentFrom DEF Rejected

\* A journal is met: of a staging directory without a manifest nothing stays.
LEMMA ReconcileJournalStep ==
    ASSUME Consistent, NEW p \in Process, NEW a \in Arena, ReconcileJournal(p, a)
    PROVE  Consistent'
<1>1. CASE Rejected(p)
    BY <1>1, RejectedStep
<1>2. CASE ~Rejected(p)
  <2>1. /\ pc[p] = "reconcile" /\ journal[a] # None
        /\ current' = [current EXCEPT ![p] = a]
        /\ Goto(p, IF disk[a] = "begun" THEN "settle"
                   ELSE IF disk[a] = "settled" THEN "promote" ELSE "unjournal")
        /\ IF disk[a] = "empty" THEN SetEntry(a, "none") ELSE UNCHANGED <<disk, survives>>
        /\ UNCHANGED <<rootVars, lockVars, journal, owner, loaded, wants, faults, losses>>
      BY <1>2 DEF ReconcileJournal
  <2>2. /\ Others(p) /\ pc'[p] \in {"settle", "promote", "unjournal"} /\ current'[p] = a
        /\ pc[p] \in Collecting
      BY <2>1 DEF Consistent, TypeOK, Others, Collecting
  <2>3. TypeOK'
      BY <2>1 DEF Consistent, TypeOK, Place, Staging, Final, SetEntry
  <2>4. RootFacts'
    <3>1. LocksAt(p)'
        BY <2>1, <2>2 DEF Consistent, LocksOK, LocksAt, Claiming, Collecting, Creating, Opened
    <3> QED
        BY <2>1, <2>2, <3>1, RootStep DEF Consistent, OneMarker
  <2>5. ArenaFacts'
    <3>1. /\ ArenaAt(p) /\ OneJournal /\ disk \in [Arena -> Staging \cup Final \cup {"none"}]
          /\ journal \in [Arena -> Nonce \cup {None}] /\ owner \in [Arena -> Nonce \cup {None}]
        BY DEF Consistent, ArenaOK, TypeOK
    <3>2. \A b \in Arena \ {a} :
              disk'[b] = disk[b] /\ journal'[b] = journal[b] /\ owner'[b] = owner[b]
        BY <2>1, <2>2, <3>1 DEF SetEntry
    <3>3. ArenaAt(p)'
        BY <2>1, <2>2, <3>1, <3>2 DEF ArenaAt, Creating, Staging, Final, Consistent, TypeOK,
           SetEntry
    <3>4. ASSUME NEW q \in Process \ {p}, pc[q] = "leased", wants[q] = a
          PROVE  disk'[a] = disk[a] /\ pc'[p] \notin {"sync", "commit", "leased"}
        BY <2>1, <2>2, <3>1, <3>4 DEF Consistent, ArenaOK, ArenaAt, LeasedAlone, Staging, SetEntry
    <3>5. losses = 0 /\ disk'[a] \in Staging => journal'[a] # None
        BY <2>1, <2>2, <3>1 DEF Consistent, ArenaAt, Creating, Staging, StagingJournaled,
           Orphaned, SetEntry
    <3>6. journal'[a] # None => \A b \in Arena \ {a} : journal[b] = None
        BY <2>1, <2>2, <3>1 DEF ArenaAt, Creating, OneJournal, SetEntry
    <3>7. {journal'[a], owner'[a]} \subseteq {journal[a], owner[a], None, loaded[p].id}
        BY <2>1, <2>2, <3>1 DEF SetEntry
    <3>8. pc'[p] \in {"sync", "commit", "leased"} => wants'[p] = a
        BY <2>1, <2>2, <3>1 DEF SetEntry
    <3> QED
        BY <2>1, <2>2, <3>2, <3>3, <3>4, <3>5, <3>6, <3>7, <3>8, HolderStep
  <2> QED
      BY <2>3, <2>4, <2>5, ConsistentFrom
<1> QED
    BY <1>1, <1>2

\* The reconciliation is over.
LEMMA FinishReconciliationStep ==
    ASSUME Consistent, NEW p \in Process, FinishReconciliation(p)
    PROVE  Consistent'
<1>1. CASE Rejected(p)
    BY <1>1, RejectedStep
<1>2. CASE ~Rejected(p)
  <2>1. /\ pc[p] = "reconcile" /\ \A a \in Arena : journal[a] = None
        /\ IF wants[p] = None
              THEN Goto(p, "open") /\ collection' = None
              ELSE Goto(p, "lease") /\ UNCHANGED collection
        /\ Quiet /\ UNCHANGED <<rootVars, initialization, loaded>>
      BY <1>2 DEF FinishReconciliation
  <2>2. collection = p /\ pc'[p] \in {"open", "lease"} /\ (pc'[p] = "open" <=> wants[p] = None)
      BY <2>1 DEF Consistent, TypeOK, LocksOK, LocksAt, Collecting
  <2>3. TypeOK'
      BY <2>1 DEF Consistent, TypeOK, Place
  <2>4. Others(p)
      BY <2>1, <2>2, StoreOpeningAssumption DEF Consistent, TypeOK, Others
  <2>5. LocksAt(p)'
      BY <2>1, <2>2, StoreOpeningAssumption
      DEF Consistent, LocksOK, LocksAt, Claiming, Collecting, Creating, Opened
  <2>6. RootFacts'
      BY <2>1, <2>2, <2>4, <2>5, RootStep DEF Consistent, OneMarker
  <2>7. ArenaFacts'
      BY <2>1, <2>2, <2>4, ArenaStep DEF ArenaAt, Creating, Consistent, TypeOK
  <2> QED
      BY <2>3, <2>6, <2>7, ConsistentFrom
<1> QED
    BY <1>1, <1>2

\* An arena that is idle is leased as it is.
LEMMA LeaseExistingStep ==
    ASSUME Consistent, NEW p \in Process, LeaseExisting(p)
    PROVE  Consistent'
<1>1. CASE Rejected(p)
    BY <1>1, RejectedStep
<1>2. CASE ~Rejected(p)
  <2>1. PICK a \in Arena : a = wants[p]
      BY DEF LeaseExisting, Consistent, ArenaOK, ArenaAt, Creating
  <2>2. /\ pc[p] = "lease" /\ disk[a] = "idle"
        /\ Rewrite(a, Begun) /\ Goto(p, "leased") /\ collection' = None
        /\ UNCHANGED <<rootVars, initialization, journal, owner, loaded, wants, current, faults, losses>>
      BY <1>2, <2>1 DEF LeaseExisting, Final
  <2>3. collection = p /\ pc'[p] = "leased" /\ pc[p] \in Collecting
      BY <2>2 DEF Consistent, TypeOK, LocksOK, LocksAt, Collecting
  <2>4. TypeOK'
      BY <2>2 DEF Consistent, TypeOK, Place, Rewrite, Begun, Staging, Final
  <2>5. Others(p)
      BY <2>2, <2>3, StoreOpeningAssumption DEF Consistent, TypeOK, Others
  <2>6. LocksAt(p)'
      BY <2>2, <2>3, StoreOpeningAssumption
      DEF Consistent, LocksOK, LocksAt, Claiming, Collecting, Creating, Opened
  <2>7. RootFacts'
      BY <2>2, <2>3, <2>5, <2>6, RootStep DEF Consistent, OneMarker
  <2>8. ArenaFacts'
    <3>1. /\ ArenaAt(p) /\ OneJournal /\ disk \in [Arena -> Staging \cup Final \cup {"none"}]
          /\ journal \in [Arena -> Nonce \cup {None}] /\ owner \in [Arena -> Nonce \cup {None}]
        BY DEF Consistent, ArenaOK, TypeOK
    <3>2. \A b \in Arena \ {a} :
              disk'[b] = disk[b] /\ journal'[b] = journal[b] /\ owner'[b] = owner[b]
        BY <2>1, <2>2, <2>3, <2>5, <3>1 DEF Rewrite, Begun
    <3>3. ArenaAt(p)'
        BY <2>1, <2>2, <2>3, <2>5, <3>1, <3>2 DEF ArenaAt, Creating, Staging, Final, Consistent,
           TypeOK, Rewrite, Begun
    <3>4. ASSUME NEW q \in Process \ {p}, pc[q] = "leased", wants[q] = a
          PROVE  disk'[a] = disk[a] /\ pc'[p] \notin {"sync", "commit", "leased"}
        BY <2>1, <2>2, <2>3, <2>5, <3>1, <3>4 DEF Consistent, ArenaOK, ArenaAt, LeasedAlone,
           Staging, Rewrite, Begun
    <3>5. losses = 0 /\ disk'[a] \in Staging => journal'[a] # None
        BY <2>1, <2>2, <2>3, <2>5, <3>1 DEF Consistent, ArenaAt, Creating, Staging,
           StagingJournaled, Orphaned, Rewrite, Begun
    <3>6. journal'[a] # None => \A b \in Arena \ {a} : journal[b] = None
        BY <2>1, <2>2, <2>3, <2>5, <3>1 DEF ArenaAt, Creating, OneJournal, Rewrite, Begun
    <3>7. {journal'[a], owner'[a]} \subseteq {journal[a], owner[a], None, loaded[p].id}
        BY <2>1, <2>2, <2>3, <2>5, <3>1 DEF Rewrite, Begun
    <3>8. pc'[p] \in {"sync", "commit", "leased"} => wants'[p] = a
        BY <2>1, <2>2, <2>3, <2>5, <3>1 DEF Rewrite, Begun
    <3> QED
        BY <2>2, <2>3, <2>5, <3>2, <3>3, <3>4, <3>5, <3>6, <3>7, <3>8, HolderStep
  <2> QED
      BY <2>4, <2>7, <2>8, ConsistentFrom
<1> QED
    BY <1>1, <1>2 DEF LeaseExisting

-----------------------------------------------------------------------------
(* The end of a lease and faults preserve the invariant.                   *)

\* Nobody else is at work on the arena of a lease that ends.
LEMMA EndLeaseStep ==
    ASSUME Consistent, NEW p \in Process, EndLease(p)
    PROVE  Consistent'
<1>1. PICK a \in Arena : a = wants[p] /\ disk[a] = "leased"
    BY DEF EndLease, Consistent, ArenaOK, ArenaAt
<1>2. /\ Others(p) /\ pc'[p] = "open" /\ wants'[p] = None /\ pc[p] = "leased"
      /\ UNCHANGED <<rootVars, lockVars, journal, owner, loaded, losses>>
    BY DEF EndLease, Consistent, TypeOK, Others
<1>3. disk'[a] = "idle" /\ \A b \in Arena \ {a} : disk'[b] = disk[b]
    BY <1>1 DEF EndLease, Rewrite, Settled, Consistent, TypeOK
<1>4. TypeOK'
    BY <1>1, <1>2 DEF Consistent, TypeOK, Place, Staging, Final, Settled, Rewrite, EndLease
<1>5. RootFacts'
  <2>1. LocksAt(p)'
      BY <1>2 DEF Consistent, LocksOK, LocksAt, Claiming, Collecting, Creating, Opened
  <2> QED
      BY <1>2, <2>1, RootStep DEF Consistent, OneMarker
<1>6. \A q \in Process : ArenaAt(q)'
  <2>1. ArenaAt(p)'
      BY <1>2 DEF ArenaAt, Creating
  <2>2. ASSUME NEW q \in Process, q # p PROVE ArenaAt(q)'
    <3>1. pc[q] \in {"sync", "commit", "leased"} => wants[q] # a
        BY <1>1, <1>2, <2>2 DEF Consistent, ArenaOK, LeasedAlone
    <3> QED
        BY <1>1, <1>2, <1>3, <2>2, <3>1 DEF Consistent, ArenaOK, ArenaAt, Others, Creating, Staging
  <2> QED
      BY <2>1, <2>2
<1>7. LeasedAlone'
  <2>1. ASSUME NEW q \in Process, pc'[q] \in {"sync", "commit", "leased"}
        PROVE  pc'[q] = pc[q] /\ wants'[q] = wants[q]
      BY <1>2, <2>1 DEF Others
  <2> QED
      BY <2>1 DEF Consistent, ArenaOK, LeasedAlone
<1>8. OneJournal' /\ StagingJournaled' /\ OneStore'
    BY <1>2, <1>3 DEF Consistent, OneJournal, StagingJournaled, Orphaned, OneStore, Staging
<1> QED
    BY <1>4, <1>5, <1>6, <1>7, <1>8, ConsistentFrom DEF ArenaFacts, ArenaOK

\* An error in the middle of an operation: what it was doing stays half done.
LEMMA FailStep ==
    ASSUME Consistent, NEW p \in Process, Fail(p)
    PROVE  Consistent'
<1>1. /\ Others(p) /\ pc'[p] \in {"refused", "open"}
      /\ Refuse(p) /\ UNCHANGED <<rootVars, owner, losses>>
    BY RefuseEffect DEF Fail
<1>2. RootFacts'
    BY <1>1, RefuseRoots
<1>3. TypeOK'
  <2>1. faults' \in 0..MaxFaults
      BY StoreOpeningAssumption DEF Consistent, TypeOK, Fail
  <2>2. /\ disk' \in [Arena -> Staging \cup Final \cup {"none"}]
        /\ survives' \in [Arena -> SUBSET (Staging \cup Final \cup {"none"})]
      BY DEF Consistent, TypeOK, Fail, DropLease, Rewrite, Settled, Staging, Final
  <2>3. journal' \in [Arena -> Nonce \cup {None}]
      BY DEF Consistent, TypeOK, Fail, RemoveJournal
  <2> QED
      BY <1>1, <2>1, <2>2, <2>3, RefuseEffect DEF Consistent, TypeOK
<1>4. ArenaAt(p)'
    BY <1>1 DEF ArenaAt, Creating
<1>5. CASE UNCHANGED <<disk, journal>>
    BY <1>1, <1>2, <1>3, <1>5, RefuseArenas, ConsistentFrom
<1>6. CASE pc[p] \in {"rename", "sync", "commit"}
  <2>1. PICK a \in Arena : a = wants[p]
      BY <1>6 DEF Consistent, ArenaOK, ArenaAt, Creating
  <2>2. /\ Rewrite(a, Settled)
        /\ UNCHANGED journal \/ (pc[p] = "commit" /\ RemoveJournal(a))
      BY <1>6, <2>1 DEF Fail, DropLease
  <2>3. /\ \A b \in Arena \ {a} :
               disk'[b] = disk[b] /\ journal'[b] = journal[b] /\ owner'[b] = owner[b]
        /\ disk'[a] = Settled(disk[a])
        /\ journal'[a] = journal[a] \/ (pc[p] = "commit" /\ journal'[a] = None)
      BY <1>1, <2>2 DEF Rewrite, RemoveJournal, Consistent, TypeOK
  <2>4. ASSUME NEW q \in Process \ {p}, pc[q] = "leased", wants[q] = a
        PROVE  disk'[a] = disk[a]
      BY <1>6, <2>1, <2>4 DEF Consistent, ArenaOK, ArenaAt, LeasedAlone
  <2>5. losses = 0 /\ disk'[a] \in Staging => journal'[a] # None
      BY <1>6, <2>1, <2>3 DEF Settled, Staging, Consistent, ArenaOK, ArenaAt, Creating
  <2>6. \A b \in Arena \ {a} : journal[b] = None
      BY <1>6, <2>1 DEF Consistent, ArenaOK, ArenaAt, Creating
  <2>7. {journal'[a], owner'[a]} \subseteq {journal[a], owner[a], None, loaded[p].id}
      BY <1>1, <2>3
  <2>8. ArenaFacts'
      BY <1>1, <1>4, <1>6, <2>3, <2>4, <2>5, <2>6, <2>7, HolderStep DEF Collecting
  <2> QED
      BY <1>2, <1>3, <2>8, ConsistentFrom
<1>7. CASE pc[p] = "unjournal"
  <2>1. PICK a \in Arena : a = current[p] /\ disk[a] \notin Staging
      BY <1>7 DEF Consistent, ArenaOK, ArenaAt
  <2>2. /\ UNCHANGED disk
        /\ UNCHANGED journal \/ RemoveJournal(a)
      BY <1>7, <2>1 DEF Fail, DropLease
  <2>3. /\ \A b \in Arena \ {a} :
               disk'[b] = disk[b] /\ journal'[b] = journal[b] /\ owner'[b] = owner[b]
        /\ disk'[a] = disk[a] /\ journal'[a] \in {journal[a], None}
      BY <1>1, <2>2 DEF RemoveJournal, Consistent, TypeOK
  <2>4. \A b \in Arena \ {a} : journal[b] = None
      BY <1>7, <2>1 DEF Consistent, ArenaOK, ArenaAt, OneJournal
  <2>5. {journal'[a], owner'[a]} \subseteq {journal[a], owner[a], None, loaded[p].id}
      BY <1>1, <2>3
  <2>6. ArenaFacts'
      BY <1>1, <1>4, <1>7, <2>1, <2>3, <2>4, <2>5, HolderStep DEF Collecting
  <2> QED
      BY <1>2, <1>3, <2>6, ConsistentFrom
<1> QED
    BY <1>5, <1>6, <1>7 DEF Fail, DropLease

\* A process dies.
LEMMA DieStep ==
    ASSUME Consistent, NEW p \in Process, Die(p)
    PROVE  Consistent'
<1>1. /\ pc'[p] = "idle" /\ loaded'[p] = None /\ wants'[p] = None
      /\ initialization' # p /\ collection' # p
    BY StoreOpeningAssumption DEF Die, Forget, Consistent, TypeOK
<1>2. Others(p)
    BY StoreOpeningAssumption DEF Die, Forget, Consistent, TypeOK, Others
<1>3. TypeOK'
    BY StoreOpeningAssumption DEF Die, Forget, Consistent, TypeOK, Place
<1>4. UNCHANGED <<rootVars, arenaVars, losses>>
    BY DEF Die
<1>5. RootFacts'
  <2>1. LocksAt(p)'
      BY <1>1 DEF LocksAt, Claiming, Collecting, Creating, Opened
  <2> QED
      BY <1>1, <1>2, <1>4, <2>1, RootStep
<1>6. ArenaFacts'
    BY <1>1, <1>2, <1>4, ArenaStep DEF ArenaAt, Creating
<1> QED
    BY <1>3, <1>5, <1>6, ConsistentFrom

\* The power goes, and with it every process.
LEMMA PowerLossStep ==
    ASSUME Consistent, PowerLoss
    PROVE  Consistent'
<1>1. \A p \in Process : /\ pc'[p] = "idle" /\ loaded'[p] = None /\ wants'[p] = None
                          /\ initialization' # p /\ collection' # p
    BY StoreOpeningAssumption DEF PowerLoss, Forget, Consistent, TypeOK
<1>2. TypeOK'
  <2>1. /\ losses' \in 0..MaxLosses /\ probes' \in SUBSET Process
        /\ pc' \in [Process -> Place] /\ loaded' \in [Process -> Marker \cup {None}]
        /\ wants' \in [Process -> Arena \cup {None}]
        /\ current' \in [Process -> Arena \cup {None}]
        /\ initialization' \in Process \cup {None} /\ collection' \in Process \cup {None}
      BY StoreOpeningAssumption DEF PowerLoss, Forget, Consistent, TypeOK, Place
  <2>2. /\ disk' \in [Arena -> Staging \cup Final \cup {"none"}]
        /\ survives' \in [Arena -> SUBSET (Staging \cup Final \cup {"none"})]
      BY DEF PowerLoss
  <2> QED
      BY <2>1, <2>2 DEF PowerLoss, Consistent, TypeOK
<1>3. RootFacts'
    BY <1>1 DEF RootFacts, LocksOK, LocksAt, OneMarker, ProbesKept, Claiming, Collecting,
                Creating, Opened
<1>4. ArenaFacts'
  <2>1. losses' # 0 /\ UNCHANGED <<marker, journal, owner>>
      BY StoreOpeningAssumption DEF PowerLoss, Consistent, TypeOK
  <2>2. ArenaOK'
      BY <1>1 DEF ArenaOK, ArenaAt, LeasedAlone, Creating
  <2> QED
      BY <2>1, <2>2 DEF ArenaFacts, Consistent, OneJournal, OneStore, StagingJournaled
<1> QED
    BY <1>2, <1>3, <1>4, ConsistentFrom

-----------------------------------------------------------------------------
(* The theorems.                                                           *)

LEMMA InitConsistent == Init => Consistent
<1> SUFFICES ASSUME Init PROVE Consistent
    OBVIOUS
<1>1. TypeOK
  <2>1. marker \in Marker \cup {None}
      BY DEF Init, Marker
  <2>2. disk \in [Arena -> {"none", "idle"}] /\ (marker = None => \A a \in Arena : disk[a] = "none")
    <3>1. CASE marker = None
        BY <3>1 DEF Init
    <3>2. CASE marker # None
        BY <3>2 DEF Init
    <3> QED
        BY <3>1, <3>2
  <2>3. \A a \in Arena : disk[a] # "none" => marker.id \in Nonce
      BY <2>1, <2>2 DEF Marker
  <2>4. owner \in [Arena -> Nonce \cup {None}]
      BY <2>3 DEF Init
  <2>5. survives \in [Arena -> SUBSET (Staging \cup Final \cup {"none"})]
      BY <2>2 DEF Init, Final
  <2> QED
      BY <2>1, <2>2, <2>4, <2>5, StoreOpeningAssumption DEF Init, TypeOK, Place, Final
<1>2. LocksOK /\ OneMarker /\ ProbesKept
    BY StoreOpeningAssumption
    DEF Init, LocksOK, LocksAt, OneMarker, ProbesKept, Claiming, Collecting, Creating, Opened
<1>3. ArenaOK /\ OneJournal /\ StagingJournaled
    BY DEF Init, ArenaOK, ArenaAt, LeasedAlone, Creating, OneJournal, StagingJournaled, Orphaned,
       Staging
<1>4. OneStore
  <2>1. CASE marker = None
    <3>1. \A a \in Arena : journal[a] = None /\ owner[a] = None
      <4>1. disk \in [Arena -> {"none"}]
          BY <2>1 DEF Init
      <4> QED
          BY <4>1 DEF Init
    <3> QED
        BY <3>1 DEF OneStore
  <2>2. CASE marker # None
    <3>1. marker \in Marker
        BY <1>1, <2>2 DEF TypeOK
    <3>2. \A a \in Arena : journal[a] = None /\ owner[a] \in {None, marker.id}
        BY DEF Init
    <3> QED
        BY <3>1, <3>2 DEF OneStore
  <2> QED
      BY <2>1, <2>2
<1> QED
    BY <1>1, <1>2, <1>3, <1>4 DEF Consistent

LEMMA NextConsistent == Consistent /\ [Next]_vars => Consistent'
<1> SUFFICES ASSUME Consistent, [Next]_vars PROVE Consistent'
    OBVIOUS
<1>1. ASSUME NEW p \in Process, Claim(p) PROVE Consistent'
    BY <1>1, OpenStep, LookForMarkerStep, ScanRootStep, AcquireInitializationStep,
       LoadMarkerStep, ClaimRootStep, ProbeStep, RemoveProbeStep, CreateMarkerStep,
       EnsureLayoutStep DEF Claim
<1>2. ASSUME NEW p \in Process, Reconcile(p) PROVE Consistent'
    BY <1>2, AcquireCollectionStep, ReconcileJournalStep, SettleStagedStep, PromoteStagedStep,
       SyncStagedStep, UnjournalStagedStep, FinishReconciliationStep DEF Reconcile
<1>3. ASSUME NEW p \in Process, Create(p) PROVE Consistent'
    BY <1>3, LeaseStep, LeaseExistingStep, JournalArenaStep, StageArenaStep, StageManifestStep,
       PromoteArenaStep, SyncArenaStep, UnjournalArenaStep, EndLeaseStep, CloseStep DEF Create
<1>4. CASE UNCHANGED vars
    BY <1>4 DEF Consistent, TypeOK, LocksOK, LocksAt, ArenaOK, ArenaAt, LeasedAlone, OneMarker,
                ProbesKept, OneJournal, StagingJournaled, Orphaned, OneStore
<1> QED
    BY <1>1, <1>2, <1>3, <1>4, FailStep, DieStep, PowerLossStep DEF Next

\* Opening and initialization are consistent in every reachable state.
LEMMA AlwaysConsistent == Spec => []Consistent
<1> QED
    BY InitConsistent, NextConsistent, PTL DEF Spec

\* Whoever has the store open works with the marker that is on the disk
\* (initialization.rs, open_marker_read_write).
THEOREM MarkerUnique == Spec => []OneMarker
<1>1. Consistent => OneMarker
    BY DEF Consistent
<1> QED
    BY <1>1, AlwaysConsistent, PTL

\* No process finds its own capability probe removed by another one
\* (cleanup_initialization_artifacts).
THEOREM ProbesSafe == Spec => []ProbesKept
<1>1. Consistent => ProbesKept
    BY DEF Consistent
<1> QED
    BY <1>1, AlwaysConsistent, PTL

\* One initialization of an arena is under way at a time, across crashes
\* (reconcile_initializations_locked before every lease).
THEOREM JournalUnique == Spec => []OneJournal
<1>1. Consistent => OneJournal
    BY DEF Consistent
<1> QED
    BY <1>1, AlwaysConsistent, PTL

\* Without a loss of power a staging directory has its journal, so that the store can be
\* opened after any crash (reject_orphaned_staging).
THEOREM StagingKnown == Spec => []StagingJournaled
<1>1. Consistent => StagingJournaled
    BY DEF Consistent
<1> QED
    BY <1>1, AlwaysConsistent, PTL

\* Journals and manifests carry the UUID of the one marker of the store.
THEOREM StoreUnique == Spec => []OneStore
<1>1. Consistent => OneStore
    BY DEF Consistent
<1> QED
    BY <1>1, AlwaysConsistent, PTL

-----------------------------------------------------------------------------
(* What is at its final path is durable.                                   *)

\* A step of p that concerns the entry of a and of no other arena.
LEMMA DurableStep ==
    ASSUME Durable, NEW p \in Process, NEW a \in Arena, faults' = faults,
           \A q \in Process \ {p} : pc'[q] = pc[q] /\ wants'[q] = wants[q] /\ current'[q] = current[q],
           \A b \in Arena \ {a} : /\ disk'[b] = disk[b] /\ survives'[b] = survives[b]
                                  /\ ~Promoted(p, b),
           faults = 0 /\ disk'[a] \in Final /\ (\A q \in Process : ~Promoted(q, a)')
               => survives'[a] = {disk'[a]}
    PROVE  Durable'
<1> SUFFICES ASSUME faults = 0, NEW b \in Arena, disk'[b] \in Final,
                    \A q \in Process : ~Promoted(q, b)'
             PROVE  survives'[b] = {disk'[b]}
    BY DEF Durable
<1>1. CASE b = a
    BY <1>1
<1>2. CASE b # a
  <2>1. ASSUME NEW q \in Process PROVE ~Promoted(q, b)
    <3>1. CASE q = p
        BY <1>2, <3>1
    <3>2. CASE q # p
        BY <1>2, <3>2 DEF Promoted
    <3> QED
        BY <3>1, <3>2
  <2> QED
      BY <1>2, <2>1 DEF Durable
<1> QED
    BY <1>1, <1>2

\* A step that leaves the entries alone, of a process that is not about to synchronize one.
LEMMA DurableFrame ==
    ASSUME Durable, NEW p \in Process, UNCHANGED <<disk, survives, faults>>,
           pc[p] \notin {"sync", "syncStaged"},
           \A q \in Process \ {p} : pc'[q] = pc[q] /\ wants'[q] = wants[q] /\ current'[q] = current[q]
    PROVE  Durable'
<1> SUFFICES ASSUME faults = 0, NEW b \in Arena, disk'[b] \in Final,
                    \A q \in Process : ~Promoted(q, b)'
             PROVE  survives'[b] = {disk'[b]}
    BY DEF Durable
<1>1. ASSUME NEW q \in Process PROVE ~Promoted(q, b)
    BY DEF Promoted
<1> QED
    BY <1>1 DEF Durable

\* Who is refused is not in the middle of a synchronization.
LEMMA DurableRefuse ==
    ASSUME Consistent, Durable, NEW p \in Process, Refuse(p), UNCHANGED <<disk, survives, faults>>,
           pc[p] \notin {"sync", "syncStaged"}
    PROVE  Durable'
<1>1. Others(p)
    BY RefuseEffect
<1> QED
    BY <1>1, DurableFrame DEF Others

LEMMA ClaimDurable ==
    ASSUME Consistent, Durable, NEW p \in Process, Claim(p)
    PROVE  Durable'
<1>1. UNCHANGED <<disk, survives, faults>> /\ pc[p] \notin {"sync", "syncStaged"}
    BY DEF Claim, Open, LookForMarker, ScanRoot, AcquireInitialization, LoadMarker,
           ClaimRoot, CleanupAbandoned, Probe, RemoveProbe, CreateMarker, EnsureLayout
<1>2. CASE Refuse(p)
    BY <1>1, <1>2, DurableRefuse
<1>3. CASE ~Refuse(p)
  <2>1. \A q \in Process \ {p} : pc'[q] = pc[q] /\ wants'[q] = wants[q] /\ current'[q] = current[q]
      BY <1>3 DEF Claim, Open, LookForMarker, ScanRoot, AcquireInitialization, LoadMarker,
                  ClaimRoot, CleanupAbandoned, Probe, RemoveProbe, CreateMarker, EnsureLayout,
                  Consistent, TypeOK
  <2> QED
      BY <1>1, <2>1, DurableFrame
<1> QED
    BY <1>2, <1>3

\* Reconciliation promotes what is settled, and synchronizes it before its journal goes.
LEMMA ReconcileDurable ==
    ASSUME Consistent, Durable, NEW p \in Process, Reconcile(p)
    PROVE  Durable'
<1> USE DEF Consistent, TypeOK
<1>1. CASE AcquireCollection(p) \/ UnjournalStaged(p) \/ FinishReconciliation(p)
  <2>1. UNCHANGED <<disk, survives, faults>> /\ pc[p] \notin {"sync", "syncStaged"}
      BY <1>1 DEF AcquireCollection, UnjournalStaged, FinishReconciliation, Rejected
  <2>2. CASE Refuse(p)
      BY <2>1, <2>2, DurableRefuse
  <2>3. CASE ~Refuse(p)
    <3>1. \A q \in Process \ {p} : pc'[q] = pc[q] /\ wants'[q] = wants[q] /\ current'[q] = current[q]
        BY <1>1, <2>3 DEF AcquireCollection, UnjournalStaged, FinishReconciliation, Rejected
    <3> QED
        BY <2>1, <3>1, DurableFrame
  <2> QED
      BY <2>2, <2>3
<1>2. ASSUME NEW a \in Arena, ReconcileJournal(p, a) PROVE Durable'
  <2>1. pc[p] = "reconcile" /\ faults' = faults
      BY <1>2 DEF ReconcileJournal, Rejected
  <2>2. CASE ~Owned(p, a)
      BY <1>2, <2>1, <2>2, DurableRefuse DEF ReconcileJournal, Rejected
  <2>3. CASE Owned(p, a)
    <3>1. \A q \in Process \ {p} : pc'[q] = pc[q] /\ wants'[q] = wants[q] /\ current'[q] = current[q]
        BY <1>2, <2>3 DEF ReconcileJournal
    <3>2. CASE disk[a] = "empty"
      <4>1. disk'[a] = "none" /\ \A b \in Arena \ {a} : disk'[b] = disk[b] /\ survives'[b] = survives[b]
          BY <1>2, <2>3, <3>2 DEF ReconcileJournal, SetEntry
      <4> QED
          BY <2>1, <3>1, <4>1, DurableStep DEF Promoted, Final
    <3>3. CASE disk[a] # "empty"
        BY <1>2, <2>1, <2>3, <3>1, <3>3, DurableFrame DEF ReconcileJournal
    <3> QED
        BY <3>2, <3>3
  <2> QED
      BY <2>2, <2>3
<1>3. CASE SettleStaged(p) \/ PromoteStaged(p) \/ SyncStaged(p)
  <2>1. PICK a \in Arena : a = current[p] /\ (SettleStaged(p) => disk[a] = "begun")
      BY <1>3 DEF SettleStaged, PromoteStaged, SyncStaged, ArenaOK, ArenaAt
  <2>2. /\ faults' = faults
        /\ \A q \in Process \ {p} : pc'[q] = pc[q] /\ wants'[q] = wants[q] /\ current'[q] = current[q]
        /\ \A b \in Arena \ {a} : disk'[b] = disk[b] /\ survives'[b] = survives[b] /\ ~Promoted(p, b)
      BY <1>3, <2>1 DEF SettleStaged, PromoteStaged, SyncStaged, Rewrite, SetEntry, Synchronize, Promoted
  <2>3. CASE SettleStaged(p)
    <3>1. disk'[a] = "settled"
        BY <2>1, <2>3 DEF SettleStaged, Rewrite, Settled
    <3> QED
        BY <2>2, <3>1, DurableStep DEF Final
  <2>4. CASE PromoteStaged(p)
    <3>1. Promoted(p, a)'
        BY <2>1, <2>4 DEF PromoteStaged, SetEntry, Promoted
    <3> QED
        BY <2>2, <3>1, DurableStep
  <2>5. CASE SyncStaged(p)
    <3>1. survives'[a] = {disk'[a]}
        BY <2>1, <2>5 DEF SyncStaged, Synchronize
    <3> QED
        BY <2>2, <3>1, DurableStep
  <2> QED
      BY <1>3, <2>3, <2>4, <2>5
<1> QED
    BY <1>1, <1>2, <1>3 DEF Reconcile

\* A new arena is synchronized before it is leased; an old one was durable before, because
\* nobody else is about to synchronize it.
LEMMA CreateDurable ==
    ASSUME Consistent, Durable, NEW p \in Process, Create(p)
    PROVE  Durable'
<1> USE DEF Consistent, TypeOK
<1>1. CASE (\E a \in Arena : Lease(p, a)) \/ JournalArena(p) \/ UnjournalArena(p) \/ Close(p)
  <2>1. UNCHANGED <<disk, survives, faults>> /\ pc[p] \notin {"sync", "syncStaged"}
        /\ \A q \in Process \ {p} : pc'[q] = pc[q] /\ wants'[q] = wants[q] /\ current'[q] = current[q]
      BY <1>1 DEF Lease, JournalArena, UnjournalArena, Close
  <2> QED
      BY <2>1, DurableFrame
<1>2. CASE LeaseExisting(p) /\ Refuse(p)
  <2>1. UNCHANGED <<disk, survives, faults>> /\ pc[p] = "lease"
    <3>1. pc'[p] # "leased"
        BY <1>2, RefuseEffect
    <3> QED
        BY <1>2, <3>1 DEF LeaseExisting, Rejected
  <2> QED
      BY <1>2, <2>1, DurableRefuse
<1>3. CASE (LeaseExisting(p) /\ ~Refuse(p)) \/ EndLease(p)
  <2>1. PICK a \in Arena : a = wants[p]
      BY <1>3 DEF LeaseExisting, EndLease, ArenaOK, ArenaAt, Creating
  <2>2. /\ faults' = faults /\ pc[p] \in {"lease", "leased"}
        /\ \A q \in Process \ {p} : pc'[q] = pc[q] /\ wants'[q] = wants[q] /\ current'[q] = current[q]
        /\ \A b \in Arena \ {a} : disk'[b] = disk[b] /\ survives'[b] = survives[b]
      BY <1>3, <2>1 DEF LeaseExisting, EndLease, Rejected, Rewrite
  <2>3. CASE LeaseExisting(p)
    <3>1. disk[a] = "idle" /\ pc[p] = "lease"
        BY <1>3, <2>1, <2>3 DEF LeaseExisting, EndLease, Rejected, Final
    <3>2. \A q \in Process : ~Promoted(q, a)
        BY <3>1, HolderAlone DEF Promoted, Collecting
    <3>3. faults = 0 => survives[a] = {"idle"}
        BY <3>1, <3>2 DEF Durable, Final
    <3>4. disk'[a] = "leased" /\ (faults = 0 => survives'[a] = {"leased"})
      <4>1. Rewrite(a, Begun)
          BY <1>3, <2>1, <2>3, <3>1 DEF LeaseExisting, EndLease, Rejected
      <4> QED
          BY <3>1, <3>3, <4>1 DEF Rewrite, Begun
    <3> QED
        BY <2>2, <3>4, DurableStep DEF Promoted
  <2>4. CASE EndLease(p)
    <3>1. disk[a] = "leased" /\ pc[p] = "leased"
        BY <2>1, <2>4 DEF EndLease, ArenaOK, ArenaAt
    <3>2. \A q \in Process : ~Promoted(q, a)
        BY <2>1, <3>1 DEF Promoted, ArenaOK, LeasedAlone
    <3>3. faults = 0 => survives[a] = {"leased"}
        BY <3>1, <3>2 DEF Durable, Final
    <3>4. disk'[a] = "idle" /\ (faults = 0 => survives'[a] = {"idle"})
        BY <2>1, <2>4, <3>1, <3>3 DEF EndLease, Rewrite, Settled
    <3> QED
        BY <2>2, <3>4, DurableStep DEF Promoted
  <2> QED
      BY <1>3, <2>3, <2>4
<1>4. CASE StageArena(p) \/ StageManifest(p) \/ PromoteArena(p) \/ SyncArena(p)
  <2>1. PICK a \in Arena : a = wants[p] /\ (StageManifest(p) => disk[a] = "empty")
      BY <1>4 DEF StageArena, StageManifest, PromoteArena, SyncArena, ArenaOK, ArenaAt, Creating
  <2>2. /\ faults' = faults
        /\ \A q \in Process \ {p} : pc'[q] = pc[q] /\ wants'[q] = wants[q] /\ current'[q] = current[q]
        /\ \A b \in Arena \ {a} : disk'[b] = disk[b] /\ survives'[b] = survives[b] /\ ~Promoted(p, b)
      BY <1>4, <2>1 DEF StageArena, StageManifest, PromoteArena, SyncArena, Rewrite, SetEntry,
                        Synchronize, Promoted
  <2>3. CASE StageArena(p) \/ StageManifest(p)
    <3>1. disk'[a] \in {"empty", "begun"}
        BY <2>1, <2>3 DEF StageArena, StageManifest, SetEntry, Rewrite, Begun
    <3> QED
        BY <2>2, <3>1, DurableStep DEF Final
  <2>4. CASE PromoteArena(p)
    <3>1. Promoted(p, a)'
        BY <2>1, <2>4 DEF PromoteArena, SetEntry, Promoted
    <3> QED
        BY <2>2, <3>1, DurableStep
  <2>5. CASE SyncArena(p)
    <3>1. survives'[a] = {disk'[a]}
        BY <2>1, <2>5 DEF SyncArena, Synchronize
    <3> QED
        BY <2>2, <3>1, DurableStep
  <2> QED
      BY <1>4, <2>3, <2>4, <2>5
<1> QED
    BY <1>1, <1>2, <1>3, <1>4 DEF Create

LEMMA NextDurable == Consistent /\ Durable /\ [Next]_vars => Durable'
<1> SUFFICES ASSUME Consistent, Durable, [Next]_vars PROVE Durable'
    OBVIOUS
<1>1. ASSUME NEW p \in Process, Fail(p) \/ Die(p) PROVE Durable'
  <2>1. faults \in Nat /\ faults' = faults + 1
      BY <1>1, StoreOpeningAssumption DEF Fail, Die, Consistent, TypeOK
  <2>2. faults' # 0
      BY <2>1
  <2> QED
      BY <2>2 DEF Durable
<1>2. CASE PowerLoss
    BY <1>2 DEF PowerLoss, Durable
<1>3. CASE UNCHANGED vars
    BY <1>3 DEF Durable, Promoted
<1> QED
    BY <1>1, <1>2, <1>3, ClaimDurable, ReconcileDurable, CreateDurable DEF Next

\* Opening and initialization are consistent in every reachable state, and without a fault
\* an arena that is at its final path is durable, or its maker is about to synchronize it.
THEOREM InductiveInvariant == Spec => []Inv
<1>1. Init => Durable
  <2> SUFFICES ASSUME Init PROVE Durable
      OBVIOUS
  <2>1. \A a \in Arena : survives[a] = {disk[a]}
      BY DEF Init
  <2> QED
      BY <2>1 DEF Durable
<1>2. Inv /\ [Next]_vars => Inv'
    BY NextConsistent, NextDurable DEF Inv
<1>3. Init => Inv
    BY <1>1, InitConsistent DEF Inv
<1> QED
    BY <1>2, <1>3, PTL DEF Spec

\* Without a fault no loss of power takes away an arena that a process has a lease on
\* (admission.rs, lease_new: sync_metadata_directory before the lease).
THEOREM LeasesDurable == Spec => []LeaseDurable
<1>1. Inv => LeaseDurable
  <2> SUFFICES ASSUME Consistent, Durable, faults = 0, NEW p \in Process, pc[p] = "leased"
               PROVE  survives[wants[p]] = {"leased"}
      BY DEF Inv, LeaseDurable
  <2>1. wants[p] \in Arena /\ disk[wants[p]] = "leased"
      BY DEF Consistent, ArenaOK, ArenaAt
  <2>2. \A q \in Process : ~Promoted(q, wants[p])
      BY <2>1 DEF Promoted, Consistent, ArenaOK, LeasedAlone
  <2> QED
      BY <2>1, <2>2 DEF Durable, Final
<1> QED
    BY <1>1, InductiveInvariant, PTL

-----------------------------------------------------------------------------
(* The creation of arenas implements ArenaCreation.                        *)

\* What is there can survive, and a loss of power makes no other final state of it.
SurvivalAt(a) == disk[a] \in survives[a] /\ survives[a] \cap Final \subseteq {disk[a]}

Survival == \A a \in Arena : SurvivalAt(a)

\* What a step does to one arena as ArenaCreation sees it: nothing, or one of its actions.
Seen(a) == IF disk[a] \in Final THEN disk[a] ELSE "absent"

Kept(a) == survives[a] \subseteq Final

Atomic(a) ==
    \/ Seen(a)' = Seen(a) /\ (Kept(a)' <=> Kept(a))
    \/ Seen(a) = "absent" /\ Seen(a)' # "absent" /\ (Kept(a)' <=> Kept(a))
    \/ Seen(a) # "absent" /\ Seen(a)' # "absent" /\ (Kept(a)' <=> Kept(a))
    \/ Seen(a) # "absent" /\ Seen(a)' = Seen(a) /\ Kept(a)'

\* The four ways in which the code changes an arena.
LEMMA SetEntryAtomic ==
    ASSUME TypeOK, Survival, NEW a \in Arena, NEW state, SetEntry(a, state),
           disk[a] \notin Final
    PROVE  Survival' /\ Atomic(a) /\ \A b \in Arena \ {a} : disk'[b] = disk[b] /\ survives'[b] = survives[b]
<1>1. /\ disk'[a] = state /\ survives'[a] = survives[a] \cup {state}
      /\ \A b \in Arena \ {a} : disk'[b] = disk[b] /\ survives'[b] = survives[b]
    BY DEF SetEntry, TypeOK
<1>2. disk[a] \in survives[a] /\ survives[a] \cap Final = {}
    BY DEF Survival, SurvivalAt
<1>3. SurvivalAt(a)'
    BY <1>1, <1>2 DEF SurvivalAt
<1>4. Survival'
    BY <1>1, <1>3 DEF Survival, SurvivalAt
<1>5. ~Kept(a) /\ ~Kept(a)' /\ Seen(a) = "absent"
    BY <1>1, <1>2 DEF Kept, Seen
<1> QED
    BY <1>1, <1>4, <1>5 DEF Atomic, Seen, Final

LEMMA RewriteAtomic ==
    ASSUME TypeOK, Survival, NEW a \in Arena, Rewrite(a, Begun) \/ Rewrite(a, Settled)
    PROVE  Survival' /\ Atomic(a) /\ \A b \in Arena \ {a} : disk'[b] = disk[b] /\ survives'[b] = survives[b]
<1>1. /\ survives[a] \subseteq Staging \cup Final \cup {"none"}
      /\ disk[a] \in survives[a] /\ survives[a] \cap Final \subseteq {disk[a]}
    BY DEF TypeOK, Survival, SurvivalAt
<1>2. \/ /\ disk'[a] = Begun(disk[a]) /\ survives'[a] = {Begun(state) : state \in survives[a]}
      \/ /\ disk'[a] = Settled(disk[a]) /\ survives'[a] = {Settled(state) : state \in survives[a]}
    BY DEF Rewrite, TypeOK
<1>3. \A b \in Arena \ {a} : disk'[b] = disk[b] /\ survives'[b] = survives[b]
    BY DEF Rewrite, TypeOK
<1>4. SurvivalAt(a)'
  <2>1. /\ Begun(disk[a]) \in Final <=> disk[a] \in Final
        /\ \A state \in survives[a] : Begun(state) \in Final => state \in Final
        /\ Settled(disk[a]) \in Final <=> disk[a] \in Final
        /\ \A state \in survives[a] : Settled(state) \in Final => state \in Final
      BY <1>1 DEF Begun, Settled, Staging, Final
  <2>2. \A state \in survives[a] : state \in Final => state = disk[a]
      BY <1>1
  <2> QED
      BY <1>1, <1>2, <2>1, <2>2 DEF SurvivalAt
<1>5. Survival'
    BY <1>3, <1>4 DEF Survival, SurvivalAt
<1>6. /\ Begun(disk[a]) \in Final <=> disk[a] \in Final
      /\ Settled(disk[a]) \in Final <=> disk[a] \in Final
      /\ \A state \in survives[a] : /\ Begun(state) \in Final <=> state \in Final
                                    /\ Settled(state) \in Final <=> state \in Final
    BY <1>1 DEF Begun, Settled, Staging, Final
<1>7. Kept(a)' <=> Kept(a)
    BY <1>2, <1>6 DEF Kept
<1>8. Seen(a) = "absent" <=> Seen(a)' = "absent"
    BY <1>2, <1>6 DEF Seen, Final
<1>9. disk[a] \notin Final => Seen(a)' = Seen(a)
    BY <1>2, <1>6 DEF Seen
<1> QED
    BY <1>3, <1>5, <1>7, <1>8, <1>9 DEF Atomic, Seen

LEMMA SynchronizeAtomic ==
    ASSUME TypeOK, Survival, NEW a \in Arena, Synchronize(a)
    PROVE  Survival' /\ Atomic(a) /\ \A b \in Arena \ {a} : disk'[b] = disk[b] /\ survives'[b] = survives[b]
<1>1. /\ survives'[a] = {disk[a]} /\ disk' = disk
      /\ \A b \in Arena \ {a} : survives'[b] = survives[b]
    BY DEF Synchronize, TypeOK
<1>2. Survival'
    BY <1>1 DEF Survival, SurvivalAt
<1>3. Atomic(a)
    BY <1>1 DEF Atomic, Seen, Kept, Survival, SurvivalAt, Final
<1> QED
    BY <1>1, <1>2, <1>3

\* Every other step leaves the arenas directory alone.
Writes(a) ==
    \/ \E state \in Staging \cup Final \cup {"none"} : SetEntry(a, state) /\ disk[a] \notin Final
    \/ Rewrite(a, Begun) \/ Rewrite(a, Settled)
    \/ Synchronize(a)

LEMMA StepWrites ==
    ASSUME Consistent, Next
    PROVE  UNCHANGED <<disk, survives>> \/ (\E a \in Arena : Writes(a)) \/ PowerLoss
<1>1. ASSUME NEW p \in Process, Claim(p) PROVE UNCHANGED <<disk, survives>>
    BY <1>1 DEF Claim, Open, LookForMarker, ScanRoot, AcquireInitialization, LoadMarker,
                ClaimRoot, CleanupAbandoned, Probe, RemoveProbe, CreateMarker, EnsureLayout
<1>2. ASSUME NEW p \in Process, Reconcile(p)
      PROVE  UNCHANGED <<disk, survives>> \/ \E a \in Arena : Writes(a)
  <2>1. CASE AcquireCollection(p) \/ UnjournalStaged(p) \/ FinishReconciliation(p)
      BY <2>1 DEF AcquireCollection, UnjournalStaged, FinishReconciliation, Rejected
  <2>2. ASSUME NEW a \in Arena, ReconcileJournal(p, a)
        PROVE  UNCHANGED <<disk, survives>> \/ Writes(a)
      BY <2>2 DEF ReconcileJournal, Rejected, Writes, Final
  <2>3. CASE SettleStaged(p) \/ PromoteStaged(p) \/ SyncStaged(p)
    <3>1. PICK a \in Arena : a = current[p] /\ (PromoteStaged(p) => disk[a] = "settled")
        BY <2>3 DEF SettleStaged, PromoteStaged, SyncStaged, Consistent, ArenaOK, ArenaAt
    <3>2. Writes(a)
        BY <2>3, <3>1 DEF SettleStaged, PromoteStaged, SyncStaged, Writes, Final
    <3> QED
        BY <3>2
  <2> QED
      BY <1>2, <2>1, <2>2, <2>3 DEF Reconcile
<1>3. ASSUME NEW p \in Process, Create(p)
      PROVE  UNCHANGED <<disk, survives>> \/ \E a \in Arena : Writes(a)
  <2>1. CASE (\E a \in Arena : Lease(p, a)) \/ JournalArena(p) \/ UnjournalArena(p) \/ Close(p)
      BY <2>1 DEF Lease, JournalArena, UnjournalArena, Close
  <2>2. CASE LeaseExisting(p) \/ StageArena(p) \/ StageManifest(p) \/ PromoteArena(p)
             \/ SyncArena(p) \/ EndLease(p)
    <3>1. PICK a \in Arena : /\ a = wants[p]
                             /\ StageArena(p) => disk[a] = "none"
                             /\ PromoteArena(p) => disk[a] = "begun"
        BY <2>2 DEF LeaseExisting, StageArena, StageManifest, PromoteArena, SyncArena, EndLease,
                    Consistent, ArenaOK, ArenaAt, Creating
    <3>2. UNCHANGED <<disk, survives>> \/ Writes(a)
        BY <2>2, <3>1 DEF LeaseExisting, StageArena, StageManifest, PromoteArena, SyncArena,
                          EndLease, Rejected, Writes, Staging, Final
    <3> QED
        BY <3>2
  <2> QED
      BY <1>3, <2>1, <2>2 DEF Create
<1>4. ASSUME NEW p \in Process, Fail(p)
      PROVE  UNCHANGED <<disk, survives>> \/ \E a \in Arena : Writes(a)
  <2>1. CASE pc[p] \in {"rename", "sync", "commit"}
    <3>1. wants[p] \in Arena
        BY <2>1 DEF Consistent, ArenaOK, ArenaAt, Creating
    <3> QED
        BY <1>4, <2>1, <3>1 DEF Fail, DropLease, Writes
  <2>2. CASE pc[p] \notin {"rename", "sync", "commit"}
      BY <1>4, <2>2 DEF Fail, DropLease
  <2> QED
      BY <2>1, <2>2
<1>5. ASSUME NEW p \in Process, Die(p) PROVE UNCHANGED <<disk, survives>>
    BY <1>5 DEF Die
<1> QED
    BY <1>1, <1>2, <1>3, <1>4, <1>5 DEF Next

LEMMA WritesAtomic ==
    ASSUME TypeOK, Survival, NEW a \in Arena, Writes(a)
    PROVE  Survival' /\ Atomic(a) /\ \A b \in Arena \ {a} : disk'[b] = disk[b] /\ survives'[b] = survives[b]
BY SetEntryAtomic, RewriteAtomic, SynchronizeAtomic DEF Writes

LEMMA SurvivalNext == Consistent /\ Survival /\ [Next]_vars => Survival'
<1> SUFFICES ASSUME Consistent, Survival, [Next]_vars PROVE Survival'
    OBVIOUS
<1>1. CASE UNCHANGED <<disk, survives>>
    BY <1>1 DEF Survival, SurvivalAt
<1>2. ASSUME NEW a \in Arena, Writes(a) PROVE Survival'
    BY <1>2, WritesAtomic DEF Consistent
<1>3. CASE PowerLoss
  <2>1. \A a \in Arena : survives'[a] = {disk'[a]}
      BY <1>3 DEF PowerLoss
  <2> QED
      BY <2>1 DEF Survival, SurvivalAt
<1> QED
    BY <1>1, <1>2, <1>3, StepWrites

\* A step on one arena is a step of ArenaCreation.
LEMMA AtomicStep ==
    ASSUME NEW a \in Arena, Atomic(a),
           \A b \in Arena \ {a} : disk'[b] = disk[b] /\ survives'[b] = survives[b]
    PROVE  [Arenas!Next]_(Arenas!vars)
<1> DEFINE seen == [b \in Arena |-> IF disk[b] \in Final THEN disk[b] ELSE "absent"]
           kept == {b \in Arena : survives[b] \subseteq Final}
           here == IF disk'[a] \in Final THEN disk'[a] ELSE "absent"
<1>1. seen' = [seen EXCEPT ![a] = here] /\ seen[a] = Seen(a) /\ here = Seen(a)'
    BY DEF Seen
<1>2. \A b \in Arena \ {a} : b \in kept' <=> b \in kept
    OBVIOUS
<1>3. (a \in kept <=> Kept(a)) /\ (a \in kept' <=> Kept(a)')
    BY DEF Kept
<1>4. here \in {"absent", "leased", "idle"} /\ seen[a] \in {"absent", "leased", "idle"}
    BY DEF Final
<1>5. CASE Kept(a)' <=> Kept(a)
  <2>1. kept' = kept
      BY <1>2, <1>3, <1>5
  <2>2. CASE here = seen[a]
    <3>1. seen' = seen
        BY <1>1, <2>2
    <3> QED
        BY <2>1, <3>1 DEF Arenas!vars
  <2>3. CASE here # seen[a]
    <3>1. here # "absent"
        BY <1>1, <2>3 DEF Atomic
    <3>2. Arenas!Appear(a) \/ Arenas!Lease(a) \/ Arenas!End(a)
        BY <1>1, <1>4, <2>1, <2>3, <3>1 DEF Arenas!Appear, Arenas!Lease, Arenas!End
    <3> QED
        BY <3>2 DEF Arenas!Next
  <2> QED
      BY <2>2, <2>3
<1>6. CASE ~(Kept(a)' <=> Kept(a))
  <2>1. Seen(a) # "absent" /\ Seen(a)' = Seen(a) /\ Kept(a)'
      BY <1>6 DEF Atomic
  <2>2. seen' = seen
      BY <1>1, <2>1
  <2>3. kept' = kept \cup {a}
      BY <1>2, <1>3, <2>1
  <2>4. Arenas!Keep(a)
      BY <1>1, <2>1, <2>2, <2>3 DEF Arenas!Keep
  <2> QED
      BY <2>4 DEF Arenas!Next
<1> QED
    BY <1>5, <1>6

\* So is a loss of power, because what is there can survive, and in no other final state.
LEMMA PowerLossAtomic == Survival /\ PowerLoss => Arenas!PowerLoss
<1> SUFFICES ASSUME Survival, PowerLoss PROVE Arenas!PowerLoss
    OBVIOUS
<1> DEFINE seen == [b \in Arena |-> IF disk[b] \in Final THEN disk[b] ELSE "absent"]
           kept == {b \in Arena : survives[b] \subseteq Final}
<1>1. \A b \in Arena : disk'[b] \in survives[b] /\ survives'[b] = {disk'[b]}
    BY DEF PowerLoss
<1>2. seen' \in [Arena -> {"absent", "leased", "idle"}]
    BY DEF Final
<1>3. ASSUME NEW b \in Arena
      PROVE  seen'[b] = seen[b] \/ (seen'[b] = "absent" /\ b \notin kept)
  <2>1. survives[b] \cap Final \subseteq {disk[b]}
      BY DEF Survival, SurvivalAt
  <2> QED
      BY <1>1, <2>1
<1>4. kept' = {b \in Arena : seen'[b] # "absent"}
    BY <1>1 DEF Final
<1> QED
    BY <1>2, <1>3, <1>4 DEF Arenas!PowerLoss

LEMMA InitAtomic == Init => Survival /\ Arenas!Init
<1> SUFFICES ASSUME Init PROVE Survival /\ Arenas!Init
    OBVIOUS
<1> DEFINE seen == [b \in Arena |-> IF disk[b] \in Final THEN disk[b] ELSE "absent"]
           kept == {b \in Arena : survives[b] \subseteq Final}
<1>1. \A b \in Arena : disk[b] \in {"none", "idle"} /\ survives[b] = {disk[b]}
  <2>1. disk \in [Arena -> {"none", "idle"}]
    <3>1. CASE marker = None
        BY <3>1 DEF Init
    <3>2. CASE marker # None
        BY <3>2 DEF Init
    <3> QED
        BY <3>1, <3>2
  <2> QED
      BY <2>1 DEF Init
<1>2. Survival
    BY <1>1 DEF Survival, SurvivalAt
<1>3. seen \in [Arena -> {"absent", "idle"}]
    BY <1>1 DEF Final
<1>4. kept = {b \in Arena : seen[b] = "idle"}
    BY <1>1 DEF Final
<1> QED
    BY <1>2, <1>3, <1>4 DEF Arenas!Init

LEMMA NextAtomic == Consistent /\ Survival /\ [Next]_vars => [Arenas!Next]_(Arenas!vars)
<1> SUFFICES ASSUME Consistent, Survival, [Next]_vars PROVE [Arenas!Next]_(Arenas!vars)
    OBVIOUS
<1>1. CASE UNCHANGED <<disk, survives>>
    BY <1>1 DEF Arenas!vars
<1>2. ASSUME NEW a \in Arena, Writes(a) PROVE [Arenas!Next]_(Arenas!vars)
    BY <1>2, WritesAtomic, AtomicStep DEF Consistent
<1>3. CASE PowerLoss
    BY <1>3, PowerLossAtomic DEF Arenas!Next
<1>4. CASE UNCHANGED vars
    BY <1>1, <1>4 DEF vars, arenaVars
<1> QED
    BY <1>1, <1>2, <1>3, <1>4, StepWrites

\* The creation of an arena is atomic and, once its entry is synchronized, durable: the
\* journals, staging directories, renames and synchronizations of lease_new and of
\* reconcile_record together implement ArenaCreation.
THEOREM CreationAtomic == Spec => CreationIsAtomic
<1>1. Init => Survival /\ Arenas!Init
    BY InitAtomic
<1>2. Consistent /\ Survival /\ [Next]_vars => Survival' /\ [Arenas!Next]_(Arenas!vars)
    BY SurvivalNext, NextAtomic
<1> QED
    BY <1>1, <1>2, AlwaysConsistent, PTL DEF Spec, CreationIsAtomic, Arenas!Spec
=============================================================================
