---------------------------- MODULE HistoryProofs ----------------------------
(***************************************************************************)
(* Theorems about History, for any number of processes and receipts, any   *)
(* sizes and policies and any number of faults and losses of power.        *)
(***************************************************************************)
EXTENDS History, SumProofs, WellFoundedInduction, TLAPS

\* The tuples of variables and the one-line assignments are always expanded.
USE DEF files, profile, memory, vars, Goto, Forgotten, Unlock

IndexRecord == [clean : BOOLEAN, count : Nat, bytes : Nat]

-----------------------------------------------------------------------------
(* Bytes and numbers of receipts.                                          *)

\* Sizes of receipts are naturals.
LEMMA SizeIsNat ==
    ASSUME TypeOK
    PROVE  \A r \in Receipt : receipts[r] \in Nat /\ unsynced[r] \in Nat
<1>1. {0} \cup Size \subseteq Nat
    BY HistoryAssumption
<1> QED
    BY <1>1 DEF TypeOK

\* What there is can be counted.
LEMMA TotalsType ==
    ASSUME TypeOK, NEW R \in SUBSET Receipt
    PROVE  /\ IsFiniteSet(R) /\ Cardinality(R) \in Nat /\ Bytes(R) \in Nat
           /\ Totals(R) \in IndexRecord
           /\ Totals(R).clean /\ Totals(R).count = Cardinality(R) /\ Totals(R).bytes = Bytes(R)
<1>1. IsFiniteSet(R) /\ Cardinality(R) \in Nat
    BY HistoryAssumption, FS_Subset, FS_CardinalityType
<1>2. \A r \in R : receipts[r] \in Nat
    BY SizeIsNat
<1>3. Bytes(R) \in Nat
    BY <1>1, <1>2, SumType DEF Bytes
<1> QED
    BY <1>1, <1>3 DEF Totals, IndexRecord

\* A larger set has more bytes, if its receipts are not smaller.
LEMMA BytesLeq ==
    ASSUME TypeOK, NEW S \in SUBSET Receipt, NEW R \in SUBSET S
    PROVE  Bytes(R) <= Bytes(S) /\ Cardinality(R) <= Cardinality(S)
<1>1. IsFiniteSet(S) /\ \A r \in S : receipts[r] \in Nat
    BY HistoryAssumption, FS_Subset, SizeIsNat
<1>2. \A r \in R : receipts[r] <= receipts[r]
    BY <1>1
<1>3. SumFunctionOnSet(receipts, R) <= SumFunctionOnSet(receipts, S)
    BY <1>1, <1>2, SumLeq
<1> QED
    BY <1>1, <1>3, FS_Subset DEF Bytes

\* A function that is smaller everywhere has fewer values besides 0, and a smaller sum.
LEMMA CountsLess ==
    ASSUME NEW totals, totals.count \in Nat, totals.bytes \in Nat, NEW f, NEW g,
           \A r \in Receipt : f[r] \in Nat /\ g[r] \in Nat /\ f[r] <= g[r],
           Counts(totals, g)
    PROVE  Counts(totals, f)
<1> DEFINE F == {r \in Receipt : f[r] # 0}
           G == {r \in Receipt : g[r] # 0}
<1>1. F \subseteq G
    OBVIOUS
<1>2. IsFiniteSet(G) /\ IsFiniteSet(F)
    BY HistoryAssumption, FS_Subset
<1>3. Cardinality(F) \in Nat /\ Cardinality(G) \in Nat /\ Cardinality(F) <= Cardinality(G)
    BY <1>1, <1>2, FS_Subset, FS_CardinalityType
<1>4. SumFunctionOnSet(f, Receipt) <= SumFunctionOnSet(g, Receipt)
    BY HistoryAssumption, SumLeq
<1>5. SumFunctionOnSet(f, Receipt) \in Nat /\ SumFunctionOnSet(g, Receipt) \in Nat
    BY HistoryAssumption, SumType
<1>6. totals.count >= Cardinality(G) /\ totals.bytes >= SumFunctionOnSet(g, Receipt)
    BY DEF Counts
<1>7. totals.count >= Cardinality(F) /\ totals.bytes >= SumFunctionOnSet(f, Receipt)
  <2> HIDE DEF F, G
  <2> QED
      BY <1>3, <1>4, <1>5, <1>6
<1> QED
    BY <1>7 DEF Counts

\* Counting the receipts one by one, or what is on the disk, is the same.
LEMMA PresentCounts ==
    ASSUME TypeOK
    PROVE  /\ Present \in SUBSET Receipt
           /\ \A r \in Receipt : receipts[r] \in Nat
           /\ Present = {r \in Receipt : receipts[r] # 0}
           /\ Bytes(Present) = SumFunctionOnSet(receipts, Receipt)
<1>1. Present \in SUBSET Receipt /\ \A r \in Receipt : receipts[r] \in Nat
    BY SizeIsNat DEF Present
<1>2. \A r \in Receipt \ Present : receipts[r] = 0
    BY DEF Present
<1>3. SumFunctionOnSet(receipts, Receipt) = SumFunctionOnSet(receipts, Present)
    BY <1>1, <1>2, HistoryAssumption, SumOfSupport
<1> QED
    BY <1>1, <1>3 DEF Present, Bytes

-----------------------------------------------------------------------------
(* The removal plan.                                                       *)

\* The smallest one of a set of naturals.
LEMMA MinOf ==
    ASSUME NEW S \in SUBSET Nat, S # {}
    PROVE  Min(S) \in S /\ \A s \in S : Min(S) <= s
<1>1. \E x \in S : \A y \in S : ~ (<<y, x>> \in OpToRel(<, Nat))
    BY NatLessThanWellFounded, WFMin
<1>2. \A x, y \in Nat : y < x => <<y, x>> \in OpToRel(<, Nat)
    BY DEF OpToRel
<1>3. PICK x \in S : \A y \in S : ~ (<<y, x>> \in OpToRel(<, Nat))
    BY <1>1
<1>4. \A y \in S : ~ (y < x)
    BY <1>2, <1>3
<1>5. \A y \in S : x <= y
    BY <1>4
<1> QED
    BY <1>5 DEF Min

\* What goes for the count, the age or the size is older than what stays.
LEMMA PlanIsOldest ==
    ASSUME NEW R \in SUBSET Receipt, NEW bounds, bounds.keep \in Nat, bounds.since \in Nat
    PROVE  Oldest(RemovalPlan(R, bounds), R)
<1> DEFINE base == Excess(R, bounds.keep) \cup {r \in R : r < bounds.since}
<1>1. R \subseteq Nat /\ IsFiniteSet(R)
    BY HistoryAssumption, FS_Subset
<1>2. ASSUME NEW r \in R, NEW s \in R, s <= r PROVE Cardinality(Newer(R, r)) <= Cardinality(Newer(R, s))
  <2>1. Newer(R, r) \subseteq Newer(R, s)
    <3>1. r \in Nat /\ s \in Nat /\ \A t \in R : t \in Nat
        BY <1>1
    <3>2. \A t \in R : t >= r => t >= s
        BY <1>2, <3>1
    <3> QED
        BY <3>2 DEF Newer
  <2>2. IsFiniteSet(Newer(R, s))
      BY <1>1, FS_Subset DEF Newer
  <2> QED
      BY <2>1, <2>2, FS_Subset
<1>3. \A r \in R : Cardinality(Newer(R, r)) \in Nat
    BY <1>1, FS_Subset, FS_CardinalityType DEF Newer
<1>4. ASSUME NEW r \in base, NEW s \in R, s <= r PROVE s \in base
  <2>1. CASE r \in Excess(R, bounds.keep)
      BY <1>2, <1>3, <1>4, <2>1 DEF Excess
  <2>2. CASE r < bounds.since
      BY <1>1, <1>4, <2>2 DEF Excess
  <2> QED
      BY <2>1, <2>2
<1>5. base \subseteq R
    BY DEF Excess
<1> DEFINE TooLarge(r) == Bytes(Newer(R \ base, r)) > bounds.bytes /\ Cardinality(Newer(R \ base, r)) > 1
           large == {r \in R \ base : \A s \in R \ base : s <= r => TooLarge(s)}
<1>6. RemovalPlan(R, bounds) = base \cup large
    BY DEF RemovalPlan
<1>7. ASSUME NEW r \in large, NEW s \in R \ base, s <= r PROVE s \in large
  <2> HIDE DEF TooLarge, base
  <2>1. \A t \in R \ base : t <= s => t <= r
      BY <1>1, <1>7
  <2> QED
      BY <1>7, <2>1
<1>8. large \subseteq R
    OBVIOUS
<1> HIDE DEF base, large
<1> QED
    BY <1>4, <1>5, <1>6, <1>7, <1>8 DEF Oldest

\* The end of a set of receipts from one of them on.
LEMMA NewerOf ==
    ASSUME NEW R \in SUBSET Receipt, NEW r \in R
    PROVE  /\ Newer(R, r) \in SUBSET R /\ r \in Newer(R, r)
           /\ \A s \in Newer(R, r) : Newer(R, s) \subseteq Newer(R, r) /\ r <= s
           /\ R \subseteq Nat
<1>1. R \subseteq Nat
    BY HistoryAssumption
<1>2. r \in Nat /\ \A s \in R : s \in Nat /\ (s >= r <=> r <= s)
    BY <1>1
<1>3. \A s \in R : s >= r => \A t \in R : t >= s => t >= r
    BY <1>2
<1>4. Newer(R, r) \in SUBSET R /\ r \in Newer(R, r)
    BY <1>2 DEF Newer
<1>5. ASSUME NEW s \in Newer(R, r) PROVE Newer(R, s) \subseteq Newer(R, r) /\ r <= s
    BY <1>2, <1>3 DEF Newer
<1> QED
    BY <1>1, <1>4, <1>5

\* What a plan keeps is allowed, and every end of the history that is allowed is kept.
LEMMA PlanKeeps ==
    ASSUME TypeOK, NEW R \in SUBSET Receipt,
           NEW bounds, bounds.keep \in Nat, bounds.since \in Nat, bounds.bytes \in Nat
    PROVE  LET kept == R \ RemovalPlan(R, bounds)
           IN  /\ Allowed(kept, bounds)
               /\ \A r \in R : Allowed(Newer(R, r), bounds) => Newer(R, r) \subseteq kept
<1> DEFINE base == Excess(R, bounds.keep) \cup {r \in R : r < bounds.since}
           left == R \ base
           TooLarge(r) == Bytes(Newer(left, r)) > bounds.bytes /\ Cardinality(Newer(left, r)) > 1
           large == {r \in left : \A s \in left : s <= r => TooLarge(s)}
           kept == R \ RemovalPlan(R, bounds)
<1>1. R \subseteq Nat
    BY HistoryAssumption
<1>2. kept = left \ large
    BY DEF RemovalPlan
<1>3. left \in SUBSET R /\ kept \in SUBSET left /\ left \in SUBSET Receipt
    BY <1>2
<1>4. ASSUME kept # {} PROVE Allowed(kept, bounds)
  <2> DEFINE m == Min(kept)
  <2>1. kept \in SUBSET Nat
      BY <1>1, <1>3
  <2>2. m \in kept /\ \A r \in kept : m <= r
    <3> HIDE DEF kept
    <3> QED
        BY <1>4, <2>1, MinOf
  <2>3. m \in left /\ m \in R /\ ~ (m \in Excess(R, bounds.keep))
      BY <1>3, <2>2
  <2>4. Newer(left, m) = kept
    <3>1. ASSUME NEW r \in kept PROVE r \in Newer(left, m)
      <4>1. r \in left /\ r \in Nat /\ m \in Nat /\ m <= r
          BY <1>3, <2>1, <2>2
      <4> QED
          BY <4>1 DEF Newer
    <3>2. ASSUME NEW r \in Newer(left, m) PROVE r \in kept
      <4>1. PICK s \in left : s <= m /\ ~TooLarge(s)
        <5> HIDE DEF TooLarge, left, kept
        <5> QED
            BY <1>2, <2>2
      <4>2. r \in left /\ r >= m /\ r \in Nat /\ s \in Nat /\ m \in Nat
          BY <1>1, <1>3, <2>1, <2>2 DEF Newer
      <4>3. s <= r
          BY <4>1, <4>2
      <4>4. r \notin large
        <5> HIDE DEF TooLarge
        <5> QED
            BY <4>1, <4>2, <4>3
      <4> HIDE DEF large, left, kept
      <4> QED
          BY <1>2, <4>2, <4>4
    <3> QED
        BY <3>1, <3>2 DEF Newer
  <2>5. ~TooLarge(m)
    <3>1. PICK s \in left : s <= m /\ ~TooLarge(s)
      <4> HIDE DEF TooLarge, left, kept
      <4> QED
          BY <1>2, <2>2
    <3>2. s \notin large
      <4>1. s <= s
          BY <1>1, <1>3
      <4> HIDE DEF TooLarge
      <4> QED
          BY <3>1, <4>1
    <3>3. s \in kept
      <4> HIDE DEF large, left, kept
      <4> QED
          BY <1>2, <3>2
    <3>4. s \in Nat /\ m \in Nat /\ m <= s
        BY <2>1, <2>2, <3>3
    <3>5. s = m
        BY <3>1, <3>4
    <3> HIDE DEF TooLarge, m
    <3> QED
        BY <3>1, <3>5
  <2>6. Bytes(kept) \in Nat /\ Cardinality(kept) \in Nat /\ IsFiniteSet(kept)
      BY <1>3, TotalsType
  <2>7. Bytes(kept) <= bounds.bytes \/ Cardinality(kept) = 1
    <3>1. ~ (Bytes(kept) > bounds.bytes /\ Cardinality(kept) > 1)
        BY <2>4, <2>5
    <3>2. Cardinality(kept) # 0
        BY <1>4, <2>6, FS_EmptySet
    <3> HIDE DEF kept
    <3> QED
        BY <2>6, <3>1, <3>2
  <2>8. Cardinality(kept) <= bounds.keep
    <3>1. Newer(R, m) \in SUBSET Receipt /\ kept \in SUBSET Newer(R, m)
        BY <1>3, <2>4 DEF Newer
    <3>2. Cardinality(kept) <= Cardinality(Newer(R, m)) /\ Cardinality(Newer(R, m)) \in Nat
        BY <3>1, BytesLeq, TotalsType
    <3>3. ~ (Cardinality(Newer(R, m)) > bounds.keep)
        BY <2>3 DEF Excess
    <3> HIDE DEF m, kept
    <3> QED
        BY <2>6, <3>2, <3>3
  <2>9. \A r \in kept : r >= bounds.since
    <3>1. \A r \in kept : r \in R /\ r \in Nat /\ ~ (r < bounds.since)
        BY <1>1, <1>3
    <3> HIDE DEF kept
    <3> QED
        BY <3>1
  <2> HIDE DEF kept
  <2> QED
      BY <2>7, <2>8, <2>9 DEF Allowed
<1>5. ASSUME kept = {} PROVE Allowed(kept, bounds)
  <2>1. Cardinality({}) = 0 /\ Bytes({}) = 0
      BY FS_EmptySet, SumEmpty DEF Bytes
  <2> HIDE DEF kept
  <2> QED
      BY <1>5, <2>1 DEF Allowed
<1>6. ASSUME NEW r \in R, Allowed(Newer(R, r), bounds) PROVE Newer(R, r) \subseteq kept
  <2> DEFINE N == Newer(R, r)
  <2>1. /\ N \in SUBSET R /\ r \in N /\ N \in SUBSET Receipt
        /\ \A s \in N : Newer(R, s) \in SUBSET N /\ r <= s /\ s \in Nat
      BY NewerOf
  <2>2. ASSUME NEW s \in N PROVE s \notin base
    <3>1. Cardinality(Newer(R, s)) <= Cardinality(N) /\ Cardinality(Newer(R, s)) \in Nat
      <4>1. Newer(R, s) \in SUBSET Receipt
          BY <2>1
      <4> QED
          BY <2>1, <4>1, BytesLeq, TotalsType
    <3>2. Cardinality(N) <= bounds.keep /\ Cardinality(N) \in Nat /\ s >= bounds.since
        BY <1>6, <2>1, TotalsType DEF Allowed
    <3>3. s \in Nat /\ ~ (Cardinality(Newer(R, s)) > bounds.keep) /\ ~ (s < bounds.since)
      <4>1. s \in Nat
          BY <2>1
      <4> HIDE DEF N
      <4> QED
          BY <3>1, <3>2, <4>1
    <3> QED
        BY <3>3 DEF Excess
  <2>3. N \subseteq left
      BY <2>1, <2>2
  <2>4. Newer(left, r) = N
      BY <1>3, <2>3 DEF Newer
  <2>5. Bytes(N) <= bounds.bytes \/ Cardinality(N) = 1
      BY <1>6 DEF Allowed
  <2>6. Bytes(N) \in Nat /\ Cardinality(N) \in Nat
      BY <2>1, TotalsType
  <2>7. ~TooLarge(r)
    <3> HIDE DEF N, left
    <3> QED
        BY <2>4, <2>5, <2>6
  <2>8. ASSUME NEW s \in N PROVE s \notin large
    <3>1. r \in left /\ r <= s
        BY <2>1, <2>3
    <3> HIDE DEF TooLarge, left
    <3> QED
        BY <2>7, <3>1
  <2> HIDE DEF left, large, kept, N
  <2> QED
      BY <1>2, <2>3, <2>8 DEF N
<1> HIDE DEF kept
<1>7. Allowed(kept, bounds)
    BY <1>4, <1>5
<1> QED
    BY <1>6, <1>7 DEF kept

-----------------------------------------------------------------------------
(* Types and memory.                                                       *)

Places == {"idle", "learn", "record", "persist", "index", "dirty", "create", "project", "plan",
           "remove", "totals", "return", "set", "prune"}

\* A sample more does not exceed the window.
LEMMA PushType ==
    ASSUME NEW recent \in Seq(Size), Len(recent) <= SampleLimit, NEW growth \in Size
    PROVE  PushSample(recent, growth) \in Seq(Size) /\ Len(PushSample(recent, growth)) <= SampleLimit
<1>1. CASE Len(recent) = SampleLimit
    BY <1>1, ReservationAssumption DEF PushSample
<1>2. CASE Len(recent) # SampleLimit
    BY <1>2, ReservationAssumption DEF PushSample
<1> QED
    BY <1>1, <1>2

\* Every step preserves the types.
LEMMA TypeNext == TypeOK /\ SampleOK /\ MemoryOK /\ [Next]_vars => TypeOK'
<1> SUFFICES ASSUME TypeOK, SampleOK, MemoryOK, [Next]_vars PROVE TypeOK'
    OBVIOUS
<1> USE HistoryAssumption
<1>1. CASE UNCHANGED vars
    BY <1>1 DEF TypeOK
<1>2. ASSUME NEW p \in Process, Finish(p) PROVE TypeOK'
    BY <1>2 DEF Finish, TypeOK, Places
<1>3. ASSUME NEW p \in Process, ReadProfile(p) PROVE TypeOK'
    BY <1>3 DEF ReadProfile, TypeOK, Places
<1>4. ASSUME NEW p \in Process, RecordGrowth(p) PROVE TypeOK'
  <2>1. wanted[p] \in Size /\ window[p] = samples
      BY <1>4 DEF RecordGrowth, SampleOK
  <2>2. samples' \in Seq(Size) /\ Len(samples') <= SampleLimit
      BY <1>4, <2>1, PushType DEF RecordGrowth, TypeOK
  <2> QED
      BY <1>4, <2>2 DEF RecordGrowth, TypeOK, Places
<1>5. ASSUME NEW p \in Process, BeginPersist(p) PROVE TypeOK'
    BY <1>5 DEF BeginPersist, TypeOK, Places
<1>6. ASSUME NEW p \in Process, ReadIndex(p) PROVE TypeOK'
  <2>1. index' \in {None} \cup IndexRecord
    <3>1. Totals(Present) \in IndexRecord
        BY TotalsType, PresentCounts
    <3>2. index' \in {index, Totals(Present)}
        BY <1>6 DEF ReadIndex
    <3> QED
        BY <3>1, <3>2 DEF TypeOK, IndexRecord
  <2> QED
      BY <1>6, <2>1 DEF ReadIndex, TypeOK, Places, IndexRecord
<1>7. ASSUME NEW p \in Process, MarkDirty(p) PROVE TypeOK'
  <2>1. image \in IndexRecord
      BY <1>7 DEF MarkDirty, MemoryOK, IndexRecord
  <2>2. index' = [image EXCEPT !.clean = FALSE]
      BY <1>7 DEF MarkDirty
  <2>3. index' \in IndexRecord
      BY <2>1, <2>2 DEF IndexRecord
  <2> QED
      BY <1>7, <2>3 DEF MarkDirty, TypeOK, Places, IndexRecord
<1>8. ASSUME NEW p \in Process, CreateReceipt(p) PROVE TypeOK'
  <2>1. PICK r \in Free, size \in Size : receipts' = [receipts EXCEPT ![r] = size]
      BY <1>8 DEF CreateReceipt
  <2>2. receipts' \in [Receipt -> {0} \cup Size]
      BY <2>1 DEF TypeOK, Free
  <2>3. unsynced' = unsynced \/ unsynced' = [s \in Receipt |-> 0]
      BY <1>8 DEF CreateReceipt
  <2>4. unsynced' \in [Receipt -> {0} \cup Size]
      BY <2>3 DEF TypeOK
  <2>5. /\ history' \in {history, None} /\ faults' \in 0..MaxFaults /\ plan' \in {plan, {}}
        /\ \E place \in {"project", "idle"} : pc' = [pc EXCEPT ![p] = place]
      BY <1>8 DEF CreateReceipt, TypeOK
  <2>6. UNCHANGED <<index, policy, samples, reservation, losses>>
      BY <1>8 DEF CreateReceipt
  <2>7. pc' \in [Process -> Places]
      BY <2>5 DEF TypeOK, Places
  <2> QED
      BY <2>2, <2>4, <2>5, <2>6, <2>7 DEF TypeOK, Places
<1>9. ASSUME NEW p \in Process, CreateNothing(p) PROVE TypeOK'
    BY <1>9 DEF CreateNothing, TypeOK, Places
<1>10. ASSUME NEW p \in Process, PublishProjection(p) PROVE TypeOK'
  <2>1. image \in IndexRecord /\ receipts[published] \in Nat
      BY <1>10, SizeIsNat DEF PublishProjection, MemoryOK, IndexRecord, Present
  <2>2. index' = Projected(receipts[published])
      BY <1>10 DEF PublishProjection
  <2>3. index' \in IndexRecord
      BY <2>1, <2>2 DEF Projected, IndexRecord
  <2>4. \E place \in {"return", "plan"} : pc' = [pc EXCEPT ![p] = place]
      BY <1>10 DEF PublishProjection
  <2>5. pc' \in [Process -> Places]
      BY <2>4 DEF TypeOK, Places
  <2> QED
      BY <1>10, <2>3, <2>5 DEF PublishProjection, TypeOK, Places, IndexRecord
<1>11. ASSUME NEW p \in Process, Return(p) PROVE TypeOK'
    BY <1>11 DEF Return, TypeOK, Places
<1>12. ASSUME NEW p \in Process, BeginPrune(p) PROVE TypeOK'
    BY <1>12 DEF BeginPrune, TypeOK, Places
<1>13. ASSUME NEW p \in Process, PlanRemoval(p) PROVE TypeOK'
  <2>1. plan' \in SUBSET Receipt
    <3>1. plan' = RemovalPlan(Present, request) /\ request.keep \in Nat /\ request.since \in Nat
        BY <1>13 DEF PlanRemoval, MemoryOK, Holding
    <3>2. Present \in SUBSET Receipt
        BY PresentCounts
    <3> QED
        BY <3>1, <3>2, PlanIsOldest DEF Oldest
  <2> QED
      BY <1>13, <2>1 DEF PlanRemoval, TypeOK, Places
<1>14. ASSUME NEW p \in Process, RemoveReceipt(p) PROVE TypeOK'
  <2>1. UNCHANGED <<index, policy, samples, history, reservation, pc, faults, losses>>
      BY <1>14 DEF RemoveReceipt
  <2>2. plan' \in SUBSET Receipt /\ receipts' \in [Receipt -> {0} \cup Size]
      BY <1>14 DEF RemoveReceipt, TypeOK
  <2>3. unsynced' \in [Receipt -> {0} \cup Size]
      BY <1>14 DEF RemoveReceipt, TypeOK
  <2> QED
      BY <2>1, <2>2, <2>3 DEF TypeOK, Places
<1>15. ASSUME NEW p \in Process, SyncReceipts(p) PROVE TypeOK'
    BY <1>15 DEF SyncReceipts, TypeOK, Places
<1>16. ASSUME NEW p \in Process, PublishTotals(p) PROVE TypeOK'
  <2>1. index' \in IndexRecord
      BY <1>16, TotalsType, PresentCounts DEF PublishTotals
  <2>2. \E place \in {"return", "idle"} : pc' = [pc EXCEPT ![p] = place]
      BY <1>16 DEF PublishTotals
  <2>3. pc' \in [Process -> Places]
      BY <2>2 DEF TypeOK, Places
  <2> QED
      BY <1>16, <2>1, <2>3 DEF PublishTotals, TypeOK, Places, IndexRecord
<1>17. ASSUME NEW p \in Process, ReadPolicy(p) PROVE TypeOK'
    BY <1>17 DEF ReadPolicy, TypeOK, Places
<1>18. ASSUME NEW p \in Process, SetPolicy(p) PROVE TypeOK'
  <2>1. wanted[p] \in Policy
      BY <1>18 DEF SetPolicy, MemoryOK
  <2> QED
      BY <1>18, <2>1 DEF SetPolicy, TypeOK, Places
<1>19. ASSUME NEW p \in Process, Stop(p) PROVE TypeOK'
  <2>1. \E place \in {"idle", "persist"} : pc' = [pc EXCEPT ![p] = place]
      BY <1>19 DEF Stop
  <2>2. pc' \in [Process -> Places]
      BY <2>1 DEF TypeOK, Places
  <2>3. /\ history' \in {history, None} /\ reservation' \in {reservation, None} /\ plan' \in {plan, {}}
        /\ faults' \in 0..MaxFaults /\ UNCHANGED <<receipts, unsynced, index, policy, samples, losses>>
      BY <1>19 DEF Stop, Abandon, TypeOK
  <2> QED
      BY <2>2, <2>3 DEF TypeOK, Places
<1>20. CASE PowerLoss
  <2>1. PICK back \in SUBSET {r \in Receipt : unsynced[r] # 0} :
            receipts' = [r \in Receipt |-> IF r \in back THEN unsynced[r] ELSE receipts[r]]
      BY <1>20 DEF PowerLoss
  <2>2. receipts' \in [Receipt -> {0} \cup Size]
      BY <2>1 DEF TypeOK
  <2>3. /\ unsynced' = [r \in Receipt |-> 0] /\ pc' = [p \in Process |-> "idle"]
        /\ losses' = losses + 1 /\ losses < MaxLosses
        /\ UNCHANGED <<index, policy, samples, faults>>
        /\ history' \in {history, None} /\ reservation' \in {reservation, None} /\ plan' \in {plan, {}}
      BY <1>20 DEF PowerLoss, Abandon
  <2> QED
      BY <2>2, <2>3 DEF TypeOK, Places
<1> QED
    BY <1>1, <1>2, <1>3, <1>4, <1>5, <1>6, <1>7, <1>8, <1>9, <1>10, <1>11, <1>12, <1>13,
       <1>14, <1>15, <1>16, <1>17, <1>18, <1>19, <1>20 DEF Next

\* A step of p that is none of the profile's keeps what p and the others may count on.
LEMMA SampleStep ==
    ASSUME TypeOK, SampleOK, NEW p \in Process, NEW place,
           pc' = [pc EXCEPT ![p] = place], place \notin {"learn", "record"},
           \A q \in Process \ {p} : wanted'[q] = wanted[q], DOMAIN wanted' = Process,
           UNCHANGED profile
    PROVE  SampleOK'
BY DEF TypeOK, SampleOK

\* No other process changes the profile between the read and the write of one.
LEMMA SampleNext == TypeOK /\ SampleOK /\ [Next]_vars => SampleOK'
<1> SUFFICES ASSUME TypeOK, SampleOK, [Next]_vars PROVE SampleOK'
    OBVIOUS
<1> USE HistoryAssumption
<1>1. CASE UNCHANGED vars
    BY <1>1 DEF TypeOK, SampleOK
<1>2. ASSUME NEW p \in Process, Finish(p) PROVE SampleOK'
    BY <1>2 DEF TypeOK, SampleOK, Finish
<1>3. ASSUME NEW p \in Process, ReadProfile(p) PROVE SampleOK'
    BY <1>3 DEF TypeOK, SampleOK, ReadProfile
<1>4. ASSUME NEW p \in Process, RecordGrowth(p) PROVE SampleOK'
    BY <1>4 DEF TypeOK, SampleOK, RecordGrowth
<1>5. ASSUME NEW p \in Process, BeginPersist(p) PROVE SampleOK'
    BY <1>5, SampleStep DEF BeginPersist, SampleOK
<1>6. ASSUME NEW p \in Process, ReadIndex(p) PROVE SampleOK'
    BY <1>6, SampleStep DEF ReadIndex, SampleOK
<1>7. ASSUME NEW p \in Process, MarkDirty(p) PROVE SampleOK'
    BY <1>7, SampleStep DEF MarkDirty, SampleOK
<1>8. ASSUME NEW p \in Process, CreateReceipt(p) PROVE SampleOK'
  <2>1. PICK place \in {"project", "idle"} : pc' = [pc EXCEPT ![p] = place]
      BY <1>8 DEF CreateReceipt
  <2>2. wanted' = wanted /\ UNCHANGED profile
      BY <1>8 DEF CreateReceipt
  <2> QED
      BY <2>1, <2>2, SampleStep DEF SampleOK
<1>9. ASSUME NEW p \in Process, CreateNothing(p) PROVE SampleOK'
    BY <1>9, SampleStep DEF CreateNothing, SampleOK
<1>10. ASSUME NEW p \in Process, PublishProjection(p) PROVE SampleOK'
    BY <1>10, SampleStep DEF PublishProjection, SampleOK
<1>11. ASSUME NEW p \in Process, Return(p) PROVE SampleOK'
    BY <1>11, SampleStep DEF Return, SampleOK
<1>12. ASSUME NEW p \in Process, BeginPrune(p) PROVE SampleOK'
  <2>1. \A q \in Process \ {p} : wanted'[q] = wanted[q]
      BY <1>12 DEF BeginPrune, SampleOK
  <2>2. DOMAIN wanted' = Process
      BY <1>12 DEF BeginPrune, SampleOK
  <2> QED
      BY <1>12, <2>1, <2>2, SampleStep DEF BeginPrune
<1>13. ASSUME NEW p \in Process, PlanRemoval(p) PROVE SampleOK'
    BY <1>13, SampleStep DEF PlanRemoval, SampleOK
<1>14. ASSUME NEW p \in Process, RemoveReceipt(p) PROVE SampleOK'
    BY <1>14 DEF RemoveReceipt, TypeOK, SampleOK
<1>15. ASSUME NEW p \in Process, SyncReceipts(p) PROVE SampleOK'
    BY <1>15, SampleStep DEF SyncReceipts, SampleOK
<1>16. ASSUME NEW p \in Process, PublishTotals(p) PROVE SampleOK'
    BY <1>16, SampleStep DEF PublishTotals, SampleOK
<1>17. ASSUME NEW p \in Process, ReadPolicy(p) PROVE SampleOK'
  <2>1. \A q \in Process \ {p} : wanted'[q] = wanted[q]
      BY <1>17 DEF ReadPolicy, SampleOK
  <2>2. DOMAIN wanted' = Process
      BY <1>17 DEF ReadPolicy, SampleOK
  <2>3. pc' = [pc EXCEPT ![p] = "set"] /\ UNCHANGED profile
      BY <1>17 DEF ReadPolicy
  <2> QED
      BY <2>1, <2>2, <2>3 DEF TypeOK, SampleOK
<1>18. ASSUME NEW p \in Process, SetPolicy(p) PROVE SampleOK'
    BY <1>18, SampleStep DEF SetPolicy, SampleOK
<1>19. ASSUME NEW p \in Process, Stop(p) PROVE SampleOK'
    BY <1>19 DEF Stop, Abandon, TypeOK, SampleOK
<1>20. CASE PowerLoss
    BY <1>20 DEF PowerLoss, Abandon, TypeOK, SampleOK
<1> QED
    BY <1>1, <1>2, <1>3, <1>4, <1>5, <1>6, <1>7, <1>8, <1>9, <1>10, <1>11, <1>12, <1>13,
       <1>14, <1>15, <1>16, <1>17, <1>18, <1>19, <1>20 DEF Next

\* The only action that writes the profile adds a sample to the profile that is there.
LEMMA SampleAdded ==
    TypeOK /\ SampleOK /\ [Next]_vars
        => [samples' # samples => \E growth \in Size : samples' = PushSample(samples, growth)]_samples
<1> SUFFICES ASSUME TypeOK, SampleOK, [Next]_vars, samples' # samples
             PROVE  \E growth \in Size : samples' = PushSample(samples, growth)
    OBVIOUS
<1>1. \E p \in Process : RecordGrowth(p)
    BY DEF Next, Finish, ReadProfile, BeginPersist, ReadIndex, MarkDirty, CreateReceipt,
           CreateNothing, PublishProjection, Return, BeginPrune, PlanRemoval, RemoveReceipt,
           SyncReceipts, PublishTotals, ReadPolicy, SetPolicy, Stop, PowerLoss, Abandon
<1>2. PICK p \in Process : RecordGrowth(p)
    BY <1>1
<1>3. wanted[p] \in Size /\ samples' = PushSample(samples, wanted[p])
    BY <1>2 DEF RecordGrowth, SampleOK
<1> QED
    BY <1>3

\* Whoever works on the receipts has the history lock and the bounds it goes by.
LEMMA MemoryNext == TypeOK /\ SampleOK /\ MemoryOK /\ [Next]_vars => MemoryOK'
<1> SUFFICES ASSUME TypeOK, SampleOK, MemoryOK, [Next]_vars PROVE MemoryOK'
    OBVIOUS
<1> USE HistoryAssumption
<1>1. CASE UNCHANGED vars
    BY <1>1 DEF MemoryOK, ByPolicy, Present
<1>2. ASSUME NEW p \in Process, Finish(p) PROVE MemoryOK'
    BY <1>2 DEF Finish, MemoryOK, TypeOK, SampleOK, Holding, ByPolicy, Present
<1>3. ASSUME NEW p \in Process, ReadProfile(p) PROVE MemoryOK'
    BY <1>3 DEF ReadProfile, MemoryOK, TypeOK, SampleOK, Holding, ByPolicy, Present
<1>4. ASSUME NEW p \in Process, RecordGrowth(p) PROVE MemoryOK'
    BY <1>4 DEF RecordGrowth, MemoryOK, TypeOK, SampleOK, Holding, ByPolicy, Present
<1>5. ASSUME NEW p \in Process, BeginPersist(p) PROVE MemoryOK'
    BY <1>5 DEF BeginPersist, MemoryOK, TypeOK, SampleOK, Holding, ByPolicy, Present
<1>6. ASSUME NEW p \in Process, ReadIndex(p) PROVE MemoryOK'
  <2>1. Totals(Present) \in IndexRecord
      BY TotalsType, PresentCounts
  <2>2. index' \in IndexRecord /\ image' = index'
      BY <1>6, <2>1 DEF ReadIndex, TypeOK, IndexRecord
  <2>3. history = p /\ \A q \in Process \ {p} : pc[q] \notin Holding
      BY <1>6 DEF ReadIndex, MemoryOK, Holding
  <2>4. /\ pc[p] = "index" /\ pc' = [pc EXCEPT ![p] = "dirty"]
        /\ UNCHANGED <<history, published, request, policy, wanted>>
      BY <1>6 DEF ReadIndex
  <2> QED
      BY <2>2, <2>3, <2>4 DEF MemoryOK, TypeOK, Holding, ByPolicy, IndexRecord
<1>7. ASSUME NEW p \in Process, MarkDirty(p) PROVE MemoryOK'
    BY <1>7 DEF MarkDirty, MemoryOK, TypeOK, SampleOK, Holding, ByPolicy, Present
<1>8. ASSUME NEW p \in Process, CreateReceipt(p) PROVE MemoryOK'
  <2>1. history = p /\ \A q \in Process \ {p} : pc[q] \notin Holding
      BY <1>8 DEF CreateReceipt, MemoryOK, Holding
  <2>2. pc[p] = "create" /\ UNCHANGED <<index, policy, wanted>>
      BY <1>8 DEF CreateReceipt
  <2>3. CASE history' = None /\ published' = None /\ pc' = [pc EXCEPT ![p] = "idle"]
      BY <2>1, <2>2, <2>3 DEF MemoryOK, TypeOK, Holding
  <2>4. CASE ~ (history' = None /\ published' = None /\ pc' = [pc EXCEPT ![p] = "idle"])
    <3>1. PICK r \in Free, size \in Size :
            /\ receipts' = [receipts EXCEPT ![r] = size]
            /\ published' = r /\ pc' = [pc EXCEPT ![p] = "project"]
            /\ UNCHANGED <<history, image, request>>
        BY <1>8, <2>4 DEF CreateReceipt
    <3>2. r \in Receipt /\ receipts'[r] # 0
        BY <3>1 DEF Free, TypeOK
    <3>3. published' \in Present'
        BY <3>1, <3>2 DEF Present
    <3>4. request = ByPolicy /\ ByPolicy' = ByPolicy
        BY <2>1, <2>2 DEF MemoryOK, ByPolicy
    <3> QED
        BY <2>1, <2>2, <3>1, <3>3, <3>4 DEF MemoryOK, TypeOK, Holding
  <2> QED
      BY <2>3, <2>4
<1>9. ASSUME NEW p \in Process, CreateNothing(p) PROVE MemoryOK'
    BY <1>9 DEF CreateNothing, MemoryOK, TypeOK, SampleOK, Holding, ByPolicy, Present
<1>10. ASSUME NEW p \in Process, PublishProjection(p) PROVE MemoryOK'
    BY <1>10 DEF PublishProjection, MemoryOK, TypeOK, SampleOK, Holding, ByPolicy, Present
<1>11. ASSUME NEW p \in Process, Return(p) PROVE MemoryOK'
    BY <1>11 DEF Return, MemoryOK, TypeOK, SampleOK, Holding, ByPolicy, Present
<1>12. ASSUME NEW p \in Process, BeginPrune(p) PROVE MemoryOK'
    BY <1>12 DEF BeginPrune, MemoryOK, TypeOK, SampleOK, Holding, ByPolicy, Present
<1>13. ASSUME NEW p \in Process, PlanRemoval(p) PROVE MemoryOK'
    BY <1>13 DEF PlanRemoval, MemoryOK, TypeOK, SampleOK, Holding, ByPolicy, Present
<1>14. ASSUME NEW p \in Process, RemoveReceipt(p) PROVE MemoryOK'
    BY <1>14 DEF RemoveReceipt, MemoryOK, TypeOK, SampleOK, Holding, ByPolicy, Present
<1>15. ASSUME NEW p \in Process, SyncReceipts(p) PROVE MemoryOK'
    BY <1>15 DEF SyncReceipts, MemoryOK, TypeOK, SampleOK, Holding, ByPolicy, Present
<1>16. ASSUME NEW p \in Process, PublishTotals(p) PROVE MemoryOK'
    BY <1>16 DEF PublishTotals, MemoryOK, TypeOK, SampleOK, Holding, ByPolicy, Present
<1>17. ASSUME NEW p \in Process, ReadPolicy(p) PROVE MemoryOK'
    BY <1>17 DEF ReadPolicy, MemoryOK, TypeOK, SampleOK, Holding, ByPolicy, Present
<1>18. ASSUME NEW p \in Process, SetPolicy(p) PROVE MemoryOK'
    BY <1>18 DEF SetPolicy, MemoryOK, TypeOK, SampleOK, Holding, ByPolicy, Present
<1>19. ASSUME NEW p \in Process, Stop(p) PROVE MemoryOK'
    BY <1>19 DEF Stop, Abandon, MemoryOK, TypeOK, SampleOK, Holding, ByPolicy, Present
<1>20. CASE PowerLoss
    BY <1>20 DEF PowerLoss, Abandon, MemoryOK, TypeOK, Holding, ByPolicy, Present
<1> QED
    BY <1>1, <1>2, <1>3, <1>4, <1>5, <1>6, <1>7, <1>8, <1>9, <1>10, <1>11, <1>12, <1>13,
       <1>14, <1>15, <1>16, <1>17, <1>18, <1>19, <1>20 DEF Next

-----------------------------------------------------------------------------
(* The order of removals.                                                  *)

\* A step that leaves plans and receipts to whoever removes.
LEMMA OrderFrame ==
    ASSUME OrderOK,
           \A q \in Process : pc'[q] = "remove" => pc[q] = "remove" /\ plan' = plan /\ receipts' = receipts
    PROVE  OrderOK'
BY DEF OrderOK, Oldest, Present

\* What is left of a plan is the older part of what is left of the history.
LEMMA OrderNext == TypeOK /\ MemoryOK /\ OrderOK /\ [Next]_vars => OrderOK'
<1> SUFFICES ASSUME TypeOK, MemoryOK, OrderOK, [Next]_vars PROVE OrderOK'
    OBVIOUS
<1> USE HistoryAssumption
<1> DEFINE Kept == \A q \in Process :
               pc'[q] = "remove" => pc[q] = "remove" /\ plan' = plan /\ receipts' = receipts
<1>h. \A p, q \in Process : pc[p] \in Holding /\ pc[q] = "remove" => p = q
    BY DEF MemoryOK, Holding
<1>1. ASSUME UNCHANGED vars \/ \E p \in Process :
                   \/ Finish(p) \/ ReadProfile(p) \/ RecordGrowth(p) \/ ReadPolicy(p)
      PROVE  Kept
    BY <1>1 DEF Finish, ReadProfile, RecordGrowth, ReadPolicy, TypeOK
<1>2. ASSUME NEW p \in Process, BeginPersist(p) \/ BeginPrune(p) \/ SetPolicy(p) PROVE Kept
    BY <1>2 DEF BeginPersist, BeginPrune, SetPolicy, TypeOK
<1>3. ASSUME NEW p \in Process,
             \/ ReadIndex(p) \/ MarkDirty(p) \/ CreateReceipt(p) \/ CreateNothing(p)
             \/ PublishProjection(p) \/ Return(p) \/ SyncReceipts(p) \/ PublishTotals(p)
      PROVE  Kept
  <2>1. pc[p] \in Holding /\ pc'[p] # "remove" /\ \A q \in Process \ {p} : pc'[q] = pc[q]
    <3>1. CASE ReadIndex(p) \/ MarkDirty(p) \/ CreateReceipt(p) \/ CreateNothing(p)
        BY <3>1 DEF ReadIndex, MarkDirty, CreateReceipt, CreateNothing, TypeOK, Holding
    <3>2. CASE PublishProjection(p) \/ Return(p) \/ SyncReceipts(p) \/ PublishTotals(p)
        BY <3>2 DEF PublishProjection, Return, SyncReceipts, PublishTotals, TypeOK, Holding
    <3> QED
        BY <1>3, <3>1, <3>2
  <2>2. ASSUME NEW q \in Process, pc'[q] = "remove" PROVE FALSE
    <3>1. q # p /\ pc[q] = "remove"
        BY <2>1, <2>2
    <3> QED
        BY <1>h, <2>1, <3>1
  <2> QED
      BY <2>2
<1>4. ASSUME NEW p \in Process, PlanRemoval(p) PROVE OrderOK'
  <2>1. plan' = RemovalPlan(Present, request) /\ request.keep \in Nat /\ request.since \in Nat
      BY <1>4 DEF PlanRemoval, MemoryOK, Holding
  <2>2. Oldest(plan', Present)
      BY <2>1, PresentCounts, PlanIsOldest
  <2>3. Present' = Present
      BY <1>4 DEF PlanRemoval, Present
  <2> QED
      BY <2>2, <2>3 DEF OrderOK
<1>5. ASSUME NEW p \in Process, RemoveReceipt(p) PROVE OrderOK'
  <2>1. Oldest(plan, Present) /\ plan # {} /\ plan \in SUBSET Nat
      BY <1>5 DEF RemoveReceipt, OrderOK, TypeOK
  <2>2. PICK r \in plan : plan' = plan \ {r} /\ receipts' = [receipts EXCEPT ![r] = 0]
      BY <1>5, <2>1, MinOf DEF RemoveReceipt, NextOf
  <2>3. r \in Receipt
      BY <2>2 DEF TypeOK
  <2>4. Present' = Present \ {r}
      BY <2>2, <2>3 DEF Present, TypeOK
  <2>5. Oldest(plan', Present')
      BY <2>1, <2>2, <2>4 DEF Oldest
  <2> QED
      BY <2>5 DEF OrderOK
<1>6. ASSUME NEW p \in Process, Stop(p) PROVE Kept
  <2>1. pc'[p] # "remove" /\ (\A q \in Process \ {p} : pc'[q] = pc[q]) /\ receipts' = receipts
        /\ (history # p => plan' = plan)
      BY <1>6 DEF Stop, Abandon, TypeOK
  <2> QED
      BY <2>1 DEF MemoryOK, Holding
<1>7. CASE PowerLoss
    BY <1>7 DEF PowerLoss, OrderOK
<1> HIDE DEF Kept
<1>8. Kept => OrderOK'
    BY OrderFrame DEF Kept
<1> QED
    BY <1>1, <1>2, <1>3, <1>4, <1>5, <1>6, <1>7, <1>8 DEF Next

\* Only a removal takes a receipt away, and it takes the oldest one.
LEMMA RemovesOldest ==
    TypeOK /\ OrderOK /\ [Next]_vars
        => [\A r \in Present : receipts'[r] = 0 => \A s \in Present : s >= r]_receipts
<1> SUFFICES ASSUME TypeOK, OrderOK, [Next]_vars, NEW r \in Present, receipts'[r] = 0
             PROVE  \A s \in Present : s >= r
    OBVIOUS
<1>0. receipts'[r] # receipts[r]
    BY DEF Present
<1>1. \E p \in Process : RemoveReceipt(p)
  <2>1. ASSUME NEW p \in Process, CreateReceipt(p) PROVE receipts'[r] # 0
      BY <2>1, HistoryAssumption DEF CreateReceipt, Present, TypeOK
  <2>2. ASSUME PowerLoss PROVE receipts'[r] # 0
      BY <2>2 DEF PowerLoss, Present
  <2> QED
      BY <1>0, <2>1, <2>2
         DEF Next, Finish, ReadProfile, RecordGrowth, BeginPersist, ReadIndex, MarkDirty,
             CreateNothing, PublishProjection, Return, BeginPrune, PlanRemoval,
             SyncReceipts, PublishTotals, ReadPolicy, SetPolicy, Stop
<1>2. PICK p \in Process : RemoveReceipt(p)
    BY <1>1
<1>3. r = Min(plan) /\ plan # {}
    BY <1>0, <1>2 DEF RemoveReceipt, NextOf, Present, TypeOK
<1>4. Oldest(plan, Present)
    BY <1>2 DEF RemoveReceipt, OrderOK
<1>5. Present \subseteq Nat
    BY HistoryAssumption DEF Present
<1>6. \A s \in plan : r <= s
    BY <1>3, <1>4, <1>5, MinOf DEF Oldest
<1>7. r \in plan
    BY <1>3, <1>4, <1>5, MinOf DEF Oldest
<1> QED
    BY <1>4, <1>5, <1>6, <1>7 DEF Oldest

-----------------------------------------------------------------------------
(* The index.                                                              *)

\* What is on the disk, and what may be after a loss of power.
LEMMA WorstOf ==
    ASSUME TypeOK
    PROVE  /\ \A r \in Receipt : /\ receipts[r] \in Nat /\ Worst[r] \in Nat
                                /\ receipts[r] <= Worst[r]
           /\ (\A r \in Receipt : unsynced[r] = 0) => Worst = receipts
<1>1. \A r \in Receipt : receipts[r] \in Nat /\ unsynced[r] \in Nat
    BY SizeIsNat
<1>2. \A r \in Receipt : Worst[r] = IF receipts[r] # 0 THEN receipts[r] ELSE unsynced[r]
    BY DEF Worst
<1>3. ASSUME \A r \in Receipt : unsynced[r] = 0 PROVE Worst = receipts
    BY <1>3 DEF Worst, TypeOK
<1> QED
    BY <1>1, <1>2, <1>3

\* Counting anew is right.
LEMMA RebuildRight ==
    ASSUME TypeOK, faults = 0 => \A r \in Receipt : unsynced[r] = 0
    PROVE  Right(Totals(Present))
<1>1. Counts(Totals(Present), receipts)
  <2>1. /\ Totals(Present).count = Cardinality({r \in Receipt : receipts[r] # 0})
        /\ Totals(Present).bytes = SumFunctionOnSet(receipts, Receipt)
        /\ Totals(Present).count \in Nat /\ Totals(Present).bytes \in Nat
      BY TotalsType, PresentCounts
  <2> QED
      BY <2>1 DEF Counts
<1>2. faults = 0 => Counts(Totals(Present), Worst)
    BY <1>1, WorstOf
<1> QED
    BY <1>1, <1>2 DEF Right

\* One receipt more.
LEMMA CountsOneMore ==
    ASSUME NEW old \in IndexRecord, NEW f, NEW r \in Receipt, DOMAIN f = Receipt,
           \A s \in Receipt : f[s] \in Nat, f[r] # 0, Counts(old, [f EXCEPT ![r] = 0]),
           NEW new, new.count = old.count + 1, new.bytes = old.bytes + f[r]
    PROVE  Counts(new, f)
<1> DEFINE before == [f EXCEPT ![r] = 0]
           F == {s \in Receipt : f[s] # 0}
           B == {s \in Receipt : before[s] # 0}
           rest == Receipt \ {r}
<1>1. \A s \in Receipt : before[s] \in Nat /\ (s # r => before[s] = f[s])
    OBVIOUS
<1>2. before[r] = 0
    OBVIOUS
<1>3. B = F \ {r} /\ r \in F
    OBVIOUS
<1>4. IsFiniteSet(F) /\ IsFiniteSet(rest)
    BY HistoryAssumption, FS_Subset
<1> HIDE DEF before, F, B
<1>5. Cardinality(B) = Cardinality(F) - 1 /\ Cardinality(F) \in Nat
    BY <1>3, <1>4, FS_RemoveElement, FS_CardinalityType
<1>6. SumFunctionOnSet(f, Receipt) = f[r] + SumFunctionOnSet(f, rest)
  <2>1. IsFiniteSet(Receipt) /\ \A s \in Receipt : f[s] \in Nat
      BY HistoryAssumption
  <2> QED
      BY <2>1, SumRemove
<1>7. SumFunctionOnSet(before, Receipt) = before[r] + SumFunctionOnSet(before, rest)
  <2>1. IsFiniteSet(Receipt) /\ \A s \in Receipt : before[s] \in Nat
      BY <1>1, HistoryAssumption
  <2> QED
      BY <2>1, SumRemove
<1>8. SumFunctionOnSet(before, rest) = SumFunctionOnSet(f, rest) /\ SumFunctionOnSet(f, rest) \in Nat
  <2>1. \A s \in rest : f[s] \in Nat /\ before[s] = f[s] /\ before[s] \in Nat
      BY <1>1
  <2> HIDE DEF rest
  <2> QED
      BY <1>4, <2>1, SumEqual, SumType
<1>9. old.count >= Cardinality(B) /\ old.bytes >= SumFunctionOnSet(before, Receipt)
    BY DEF before, B, Counts
<1>10. old.count \in Nat /\ old.bytes \in Nat /\ f[r] \in Nat
    BY DEF IndexRecord
<1>11. new.count >= Cardinality(F)
    BY <1>5, <1>9, <1>10
<1>12. new.bytes >= SumFunctionOnSet(f, Receipt)
  <2> HIDE DEF rest
  <2> QED
      BY <1>2, <1>6, <1>7, <1>8, <1>9, <1>10
<1> QED
    BY <1>11, <1>12 DEF F, Counts

\* A step that changes neither files nor the index, nor what their holder remembers.
LEMMA IndexFrame ==
    ASSUME IndexOK, UNCHANGED <<receipts, unsynced, index, losses>>,
           faults' = faults \/ faults' # 0, Exact' => Exact,
           \A q \in Process : pc'[q] \in {"dirty", "create", "project", "totals"} =>
               pc'[q] = pc[q] /\ image' = image /\ published' = published,
           faults' = 0 => \A q \in Process : pc[q] = "remove" => pc'[q] = "remove"
    PROVE  IndexOK'
BY DEF IndexOK, Right, Worst

\* Every step keeps a clean index right: one case for each action.
LEMMA IndexNext == TypeOK /\ MemoryOK /\ IndexOK /\ [Next]_vars => IndexOK'
<1> SUFFICES ASSUME TypeOK, MemoryOK, IndexOK, [Next]_vars PROVE IndexOK'
    OBVIOUS
<1> USE HistoryAssumption
<1>h. \A p, q \in Process : pc[p] \in Holding /\ pc[q] \in Holding => p = q
    BY DEF MemoryOK
<1>i. index # None => index.count \in Nat /\ index.bytes \in Nat
    BY DEF TypeOK
<1>w. \A p \in Process : pc[p] \in Holding \ {"remove"} /\ faults = 0 => \A r \in Receipt : unsynced[r] = 0
    BY <1>h DEF IndexOK, Holding
<1>1. ASSUME \/ UNCHANGED vars
             \/ \E p \in Process : \/ Finish(p) \/ ReadProfile(p) \/ RecordGrowth(p) \/ BeginPersist(p)
                                   \/ CreateNothing(p) \/ Return(p) \/ ReadPolicy(p) \/ SetPolicy(p)
      PROVE  IndexOK'
  <2>1. UNCHANGED <<receipts, unsynced, index, losses, faults>>
      BY <1>1 DEF Finish, ReadProfile, RecordGrowth, BeginPersist, CreateNothing, Return, ReadPolicy, SetPolicy
  <2>2. \A q \in Process : pc[q] = "remove" => pc'[q] = "remove"
      BY <1>1, <1>h DEF Finish, ReadProfile, RecordGrowth, BeginPersist, CreateNothing, Return,
                        ReadPolicy, SetPolicy, TypeOK
  <2>3. ASSUME NEW q \in Process, pc'[q] \in {"dirty", "create", "project", "totals"}
        PROVE  pc'[q] = pc[q] /\ image' = image /\ published' = published
    <3>1. pc'[q] = pc[q]
        BY <1>1, <2>3 DEF Finish, ReadProfile, RecordGrowth, BeginPersist, CreateNothing, Return,
                          ReadPolicy, SetPolicy, TypeOK
    <3>2. ASSUME NEW p \in Process, CreateNothing(p) \/ Return(p) PROVE FALSE
      <4>1. pc[p] \in Holding /\ pc'[p] = "idle"
          BY <3>2 DEF CreateNothing, Return, TypeOK, Holding
      <4> QED
          BY <1>h, <2>3, <3>1, <4>1 DEF Holding
    <3> QED
        BY <1>1, <3>1, <3>2 DEF Finish, ReadProfile, RecordGrowth, BeginPersist, ReadPolicy, SetPolicy
  <2> QED
      BY <2>1, <2>2, <2>3, IndexFrame DEF Exact
<1>2. ASSUME NEW p \in Process, BeginPrune(p) \/ PlanRemoval(p) PROVE IndexOK'
  <2>1. UNCHANGED <<receipts, unsynced, index, losses, faults, image, published>>
      BY <1>2 DEF BeginPrune, PlanRemoval
  <2>2. /\ pc[p] # "remove" /\ pc'[p] \in {"plan", "remove"}
        /\ \A q \in Process \ {p} : pc'[q] = pc[q]
      BY <1>2 DEF BeginPrune, PlanRemoval, TypeOK
  <2> QED
      BY <2>1, <2>2, IndexFrame DEF Exact
<1>3. ASSUME NEW p \in Process, ReadIndex(p) PROVE IndexOK'
  <2>1. /\ pc[p] = "index" /\ pc' = [pc EXCEPT ![p] = "dirty"] /\ image' = index'
        /\ UNCHANGED <<receipts, unsynced, faults, losses>>
      BY <1>3 DEF ReadIndex
  <2>2. Right(Totals(Present))
      BY <1>w, <2>1, RebuildRight DEF Holding
  <2>3. \/ index' = Totals(Present)
        \/ index' = index /\ index # None /\ index.clean
      BY <1>3 DEF ReadIndex
  <2>4. Right(index)'
      BY <2>1, <2>2, <2>3 DEF IndexOK, Right, Worst
  <2>5. Right(image)'
      BY <2>1, <2>4 DEF Right
  <2>6. pc'[p] = "dirty" /\ \A q \in Process \ {p} : pc'[q] = pc[q] /\ pc[q] \notin Holding
      BY <1>h, <2>1 DEF TypeOK, Holding
  <2> QED
      BY <1>w, <2>1, <2>4, <2>5, <2>6 DEF IndexOK, Holding
<1>4. ASSUME NEW p \in Process, MarkDirty(p) PROVE IndexOK'
  <2>1. /\ pc[p] = "dirty" /\ pc' = [pc EXCEPT ![p] = "create"] /\ image' = image
        /\ UNCHANGED <<receipts, unsynced, faults, losses>>
        /\ index' = [image EXCEPT !.clean = FALSE] /\ image \in IndexRecord
      BY <1>4 DEF MarkDirty, MemoryOK, IndexRecord
  <2>2. ~index'.clean
      BY <2>1 DEF IndexRecord
  <2>3. Right(image)'
      BY <2>1 DEF IndexOK, Right, Worst
  <2>4. pc'[p] = "create" /\ \A q \in Process \ {p} : pc'[q] = pc[q] /\ pc[q] \notin Holding
      BY <1>h, <2>1 DEF TypeOK, Holding
  <2> QED
      BY <1>w, <2>1, <2>2, <2>3, <2>4 DEF IndexOK, Holding
<1>5. ASSUME NEW p \in Process, CreateReceipt(p) PROVE IndexOK'
  <2>1. pc[p] = "create" /\ UNCHANGED <<index, losses>> /\ ~index.clean
      BY <1>5 DEF CreateReceipt, MemoryOK
  <2>2. PICK r \in Free, size \in Size :
          /\ receipts' = [receipts EXCEPT ![r] = size]
          /\ \/ /\ published' = r /\ pc' = [pc EXCEPT ![p] = "project"]
                /\ unsynced' = [s \in Receipt |-> 0] /\ image' = image /\ faults' = faults
             \/ /\ faults' = faults + 1 /\ pc' = [pc EXCEPT ![p] = "idle"] /\ unsynced' = unsynced
      BY <1>5 DEF CreateReceipt
  <2>3. \A q \in Process \ {p} : pc'[q] = pc[q] /\ pc[q] \notin Holding
      BY <1>h, <2>1, <2>2 DEF TypeOK, Holding
  <2>4. r \in Receipt /\ receipts[r] = 0 /\ unsynced[r] = 0 /\ faults \in Nat
      BY <2>2 DEF Free, TypeOK
  <2>5. \A s \in Receipt : receipts'[s] = 0 \/ unsynced'[s] = 0
      BY <2>2, <2>4 DEF IndexOK, TypeOK
  <2>6. CASE faults' = faults + 1 /\ pc' = [pc EXCEPT ![p] = "idle"] /\ unsynced' = unsynced
    <3>1. pc'[p] = "idle" /\ faults' # 0
        BY <2>4, <2>6 DEF TypeOK
    <3> QED
        BY <2>1, <2>3, <2>5, <3>1 DEF IndexOK, Holding
  <2>7. CASE /\ published' = r /\ pc' = [pc EXCEPT ![p] = "project"]
             /\ unsynced' = [s \in Receipt |-> 0] /\ image' = image /\ faults' = faults
    <3>1. [receipts' EXCEPT ![r] = 0] = receipts
        BY <2>2, <2>4 DEF TypeOK
    <3>2. Exact' => Counts(image, receipts)
      <4>1. image.count \in Nat /\ image.bytes \in Nat
          BY <2>1 DEF MemoryOK
      <4>2. Counts(image, Worst) => Counts(image, receipts)
          BY <4>1, CountsLess, WorstOf
      <4>3. Right(image)
          BY <2>1 DEF IndexOK
      <4> QED
          BY <2>1, <2>7, <4>2, <4>3 DEF Exact, Right
    <3>3. pc'[p] = "project"
        BY <2>7 DEF TypeOK
    <3>4. (Exact => Counts(image, [receipts EXCEPT ![published] = 0]))'
        BY <2>7, <3>1, <3>2
    <3> QED
        BY <2>1, <2>3, <2>5, <2>7, <3>3, <3>4 DEF IndexOK, Holding
  <2> QED
      BY <2>2, <2>6, <2>7
<1>6. ASSUME NEW p \in Process, PublishProjection(p) PROVE IndexOK'
  <2>1. /\ pc[p] = "project" /\ UNCHANGED <<receipts, unsynced, faults, losses>>
        /\ index' = Projected(receipts[published])
        /\ \E place \in {"return", "plan"} : pc' = [pc EXCEPT ![p] = place]
      BY <1>6 DEF PublishProjection
  <2>2. image \in IndexRecord /\ published \in Receipt /\ receipts[published] # 0
      BY <2>1 DEF MemoryOK, IndexRecord, Present
  <2>3. Exact => Counts(image, [receipts EXCEPT ![published] = 0])
      BY <2>1 DEF IndexOK
  <2>4. Exact => Counts(index', receipts)
    <3>1. DOMAIN receipts = Receipt /\ \A s \in Receipt : receipts[s] \in Nat
        BY SizeIsNat DEF TypeOK
    <3>2. index'.count = image.count + 1 /\ index'.bytes = image.bytes + receipts[published]
        BY <2>1 DEF Projected
    <3> QED
        BY <2>2, <2>3, <3>1, <3>2, CountsOneMore
  <2>5. Worst = receipts /\ Worst' = Worst
      BY <2>1, WorstOf DEF IndexOK, Worst
  <2>6. Right(index)'
      BY <2>1, <2>4, <2>5 DEF Right, Exact
  <2>7. pc'[p] \in {"return", "plan"} /\ \A q \in Process \ {p} : pc'[q] = pc[q] /\ pc[q] \notin Holding
      BY <1>h, <2>1 DEF TypeOK, Holding
  <2> QED
      BY <2>1, <2>6, <2>7 DEF IndexOK, Holding
<1>7. ASSUME NEW p \in Process, RemoveReceipt(p) PROVE IndexOK'
  <2>1. pc[p] = "remove" /\ UNCHANGED <<index, faults, losses, pc>> /\ plan # {} /\ plan \in SUBSET Receipt
      BY <1>7 DEF RemoveReceipt, TypeOK
  <2>2. PICK r \in Receipt : /\ receipts' = [receipts EXCEPT ![r] = 0]
                            /\ unsynced' = [unsynced EXCEPT ![r] = receipts[r]]
      BY <1>7, <2>1, MinOf DEF RemoveReceipt, NextOf
  <2>3. \A s \in Receipt : receipts'[s] = 0 \/ unsynced'[s] = 0
      BY <2>2 DEF IndexOK, TypeOK
  <2>4. \A s \in Receipt : receipts[s] \in Nat /\ unsynced[s] \in Nat
      BY SizeIsNat
  <2>5. \A s \in Receipt : /\ receipts'[s] \in Nat /\ receipts'[s] <= receipts[s]
                          /\ Worst'[s] \in Nat /\ Worst'[s] <= Worst[s] /\ Worst[s] \in Nat
    <3> SUFFICES ASSUME NEW s \in Receipt
                 PROVE  /\ receipts'[s] \in Nat /\ receipts'[s] <= receipts[s]
                        /\ Worst'[s] \in Nat /\ Worst'[s] <= Worst[s] /\ Worst[s] \in Nat
        OBVIOUS
    <3>1. /\ Worst[s] = IF receipts[s] # 0 THEN receipts[s] ELSE unsynced[s]
          /\ Worst'[s] = IF receipts'[s] # 0 THEN receipts'[s] ELSE unsynced'[s]
        BY DEF Worst
    <3>2. CASE s = r
      <4>1. receipts'[s] = 0 /\ unsynced'[s] = receipts[s]
          BY <2>2, <3>2 DEF TypeOK
      <4> QED
          BY <2>4, <3>1, <4>1
    <3>3. CASE s # r
      <4>1. receipts'[s] = receipts[s] /\ unsynced'[s] = unsynced[s]
          BY <2>2, <3>3 DEF TypeOK
      <4> QED
          BY <2>4, <3>1, <4>1
    <3> QED
        BY <3>2, <3>3
  <2>6. index # None => (index.clean => Right(index)')
    <3> SUFFICES ASSUME index # None, index.clean PROVE Right(index)'
        OBVIOUS
    <3>1. Counts(index, receipts) => Counts(index, receipts')
        BY <1>i, <2>4, <2>5, CountsLess
    <3>2. Counts(index, Worst) => Counts(index, Worst')
        BY <1>i, <2>5, CountsLess
    <3> QED
        BY <2>1, <3>1, <3>2 DEF IndexOK, Right
  <2>7. \A q \in Process \ {p} : pc[q] \notin Holding
      BY <1>h, <2>1 DEF Holding
  <2> QED
      BY <2>1, <2>3, <2>6, <2>7 DEF IndexOK, Holding
<1>8. ASSUME NEW p \in Process, SyncReceipts(p) PROVE IndexOK'
  <2>1. /\ pc[p] = "remove" /\ UNCHANGED <<index, faults, losses, receipts>>
        /\ unsynced' = [r \in Receipt |-> 0] /\ pc' = [pc EXCEPT ![p] = "totals"]
      BY <1>8 DEF SyncReceipts
  <2>2. Worst' = receipts
      BY <2>1 DEF Worst, TypeOK
  <2>3. index # None => (index.clean => Right(index)')
    <3>1. index # None => (Counts(index, Worst) => Counts(index, receipts))
        BY <1>i, WorstOf, CountsLess
    <3> QED
        BY <2>1, <2>2, <3>1 DEF IndexOK, Right
  <2>4. pc'[p] = "totals" /\ \A q \in Process \ {p} : pc'[q] = pc[q] /\ pc[q] \notin Holding
      BY <1>h, <2>1 DEF TypeOK, Holding
  <2> QED
      BY <2>1, <2>3, <2>4 DEF IndexOK, Holding
<1>9. ASSUME NEW p \in Process, PublishTotals(p) PROVE IndexOK'
  <2>1. /\ pc[p] = "totals" /\ UNCHANGED <<faults, losses, receipts, unsynced>>
        /\ index' = Totals(Present) /\ \E place \in {"return", "idle"} : pc' = [pc EXCEPT ![p] = place]
      BY <1>9 DEF PublishTotals
  <2>2. Right(index)'
    <3>1. Right(Totals(Present))
        BY <2>1, RebuildRight DEF IndexOK
    <3> QED
        BY <2>1, <3>1 DEF Right, Worst
  <2>3. pc'[p] \in {"return", "idle"} /\ \A q \in Process \ {p} : pc'[q] = pc[q] /\ pc[q] \notin Holding
      BY <1>h, <2>1 DEF TypeOK, Holding
  <2> QED
      BY <2>1, <2>2, <2>3 DEF IndexOK, Holding
<1>10. ASSUME NEW p \in Process, Stop(p) PROVE IndexOK'
  <2>1. /\ faults' # 0 /\ UNCHANGED <<receipts, unsynced, index, losses>>
        /\ pc'[p] \in {"idle", "persist"} /\ \A q \in Process \ {p} : pc'[q] = pc[q]
        /\ history # p => image' = image /\ published' = published
      BY <1>10 DEF Stop, Abandon, TypeOK
  <2>2. ASSUME NEW q \in Process, pc'[q] \in {"dirty", "create", "project", "totals"}
        PROVE  pc'[q] = pc[q] /\ image' = image /\ published' = published
      BY <2>1, <2>2 DEF MemoryOK, Holding
  <2> QED
      BY <2>1, <2>2, IndexFrame DEF Exact
<1>11. CASE PowerLoss
  <2>1. PICK back \in SUBSET {r \in Receipt : unsynced[r] # 0} :
            receipts' = [r \in Receipt |-> IF r \in back THEN unsynced[r] ELSE receipts[r]]
      BY <1>11 DEF PowerLoss
  <2>2. /\ unsynced' = [r \in Receipt |-> 0] /\ pc' = [p \in Process |-> "idle"]
        /\ losses' # 0 /\ UNCHANGED <<index, faults>>
      BY <1>11 DEF PowerLoss, TypeOK
  <2>3. Worst' = receipts'
      BY <2>1, <2>2 DEF Worst
  <2>4. \A r \in Receipt : /\ receipts'[r] \in Nat /\ Worst[r] \in Nat
                          /\ receipts'[r] <= Worst[r]
    <3> SUFFICES ASSUME NEW r \in Receipt
                 PROVE  receipts'[r] \in Nat /\ Worst[r] \in Nat /\ receipts'[r] <= Worst[r]
        OBVIOUS
    <3>1. receipts[r] \in Nat /\ unsynced[r] \in Nat /\ (receipts[r] = 0 \/ unsynced[r] = 0)
        BY SizeIsNat DEF IndexOK
    <3>2. Worst[r] = IF receipts[r] # 0 THEN receipts[r] ELSE unsynced[r]
        BY DEF Worst
    <3>3. receipts'[r] \in {receipts[r], unsynced[r]}
        BY <2>1
    <3> QED
        BY <3>1, <3>2, <3>3
  <2>5. index # None => (index.clean => Right(index)')
    <3>1. index # None => (Counts(index, Worst) => Counts(index, receipts'))
        BY <1>i, <2>4, CountsLess
    <3> QED
        BY <2>2, <2>3, <3>1 DEF IndexOK, Right
  <2> QED
      BY <2>2, <2>5 DEF IndexOK
<1> QED
    BY <1>1, <1>2, <1>3, <1>4, <1>5, <1>6, <1>7, <1>8, <1>9, <1>10, <1>11 DEF Next

-----------------------------------------------------------------------------
(* The bounds.                                                             *)

\* A step that leaves receipts and bounds to whoever returns or removes.
LEMMA BoundsFrame ==
    ASSUME BoundsOK, Exact' => Exact,
           \A q \in Process : pc'[q] \in {"remove", "totals", "return"} =>
               pc'[q] = pc[q] /\ UNCHANGED <<receipts, request, plan>>
    PROVE  BoundsOK'
<1>1. ASSUME NEW q \in Process, pc'[q] \in {"remove", "totals", "return"}
      PROVE  /\ pc[q] = pc'[q] /\ Present' = Present /\ request' = request /\ plan' = plan
             /\ \A R : Bytes(R)' = Bytes(R)
    BY <1>1 DEF Present, Bytes
<1>2. KeepsMost'
  <2>1. ASSUME NEW q \in Process, pc'[q] = "remove"
        PROVE  /\ Allowed(Present \ plan, request)'
               /\ \A r \in Present' : Allowed(Newer(Present, r), request)'
                                          => Newer(Present', r) \subseteq Present' \ plan'
    <3>1. pc[q] = "remove" /\ Present' = Present /\ request' = request /\ plan' = plan
          /\ \A R : Allowed(R, request)' <=> Allowed(R, request)
        BY <1>1, <2>1 DEF Allowed
    <3>2. /\ Allowed(Present \ plan, request)
          /\ \A r \in Present : Allowed(Newer(Present, r), request)
                                    => Newer(Present, r) \subseteq Present \ plan
        BY <3>1 DEF BoundsOK, KeepsMost
    <3>3. Allowed(Present \ plan, request)'
        BY <3>1, <3>2 DEF Allowed
    <3>4. ASSUME NEW r \in Present', Allowed(Newer(Present, r), request)'
          PROVE  Newer(Present', r) \subseteq Present' \ plan'
      <4>1. Newer(Present, r)' = Newer(Present, r)
          BY <3>1 DEF Newer
      <4>2. Allowed(Newer(Present, r), request)
          BY <3>1, <3>4, <4>1 DEF Allowed
      <4> QED
          BY <3>1, <3>2, <4>2
    <3> QED
        BY <3>3, <3>4
  <2> QED
      BY <2>1 DEF KeepsMost
<1>3. ASSUME NEW q \in Process
      PROVE  /\ pc'[q] = "totals" => Allowed(Present, request)'
             /\ pc'[q] = "return" => (Exact' => Allowed(Present, request)')
    BY <1>1 DEF BoundsOK, Allowed
<1> QED
    BY <1>2, <1>3 DEF BoundsOK

\* Every step keeps the bounds: a plan is made to, and carrying it out does not exceed it.
LEMMA BoundsNext == Inv /\ [Next]_vars => BoundsOK'
<1> SUFFICES ASSUME Inv, [Next]_vars PROVE BoundsOK'
    OBVIOUS
<1>0. TypeOK /\ MemoryOK /\ OrderOK /\ IndexOK /\ BoundsOK
    BY DEF Inv
<1> USE HistoryAssumption, <1>0
<1>h. \A p, q \in Process : pc[p] \in Holding /\ pc[q] \in Holding => p = q
    BY DEF MemoryOK
<1>1. ASSUME \/ UNCHANGED vars
             \/ \E p \in Process : \/ Finish(p) \/ ReadProfile(p) \/ RecordGrowth(p) \/ ReadPolicy(p)
      PROVE  BoundsOK'
  <2>1. UNCHANGED <<receipts, request, plan, faults, losses>>
      BY <1>1 DEF Finish, ReadProfile, RecordGrowth, ReadPolicy
  <2>2. \A q \in Process : pc'[q] \in {"remove", "totals", "return"} => pc'[q] = pc[q]
      BY <1>1 DEF Finish, ReadProfile, RecordGrowth, ReadPolicy, TypeOK
  <2> QED
      BY <2>1, <2>2, BoundsFrame DEF Exact
<1>2. ASSUME NEW p \in Process, BeginPersist(p) \/ BeginPrune(p) \/ SetPolicy(p) PROVE BoundsOK'
  <2>1. history = None /\ pc'[p] \notin {"remove", "totals", "return"}
        /\ (\A q \in Process \ {p} : pc'[q] = pc[q]) /\ UNCHANGED <<faults, losses>>
      BY <1>2 DEF BeginPersist, BeginPrune, SetPolicy, TypeOK
  <2>2. \A q \in Process : pc[q] \notin Holding
      BY <2>1 DEF MemoryOK
  <2> QED
      BY <2>1, <2>2, BoundsFrame DEF Exact, Holding
<1>3. ASSUME NEW p \in Process,
             \/ ReadIndex(p) \/ MarkDirty(p) \/ CreateReceipt(p) \/ CreateNothing(p) \/ Return(p)
      PROVE  BoundsOK'
  <2>1. pc[p] \in Holding /\ pc'[p] \notin {"remove", "totals", "return"}
        /\ \A q \in Process \ {p} : pc'[q] = pc[q]
      BY <1>3 DEF ReadIndex, MarkDirty, CreateReceipt, CreateNothing, Return, TypeOK, Holding
  <2>2. \A q \in Process : pc'[q] \notin {"remove", "totals", "return"}
      BY <1>h, <2>1 DEF Holding
  <2> QED
      BY <2>2 DEF BoundsOK, KeepsMost
<1>4. ASSUME NEW p \in Process, PublishProjection(p) PROVE BoundsOK'
  <2>1. /\ pc[p] = "project" /\ receipts' = receipts /\ request' = request
        /\ UNCHANGED <<faults, losses>>
        /\ pc' = [pc EXCEPT ![p] = IF Fits(index') THEN "return" ELSE "plan"]
      BY <1>4 DEF PublishProjection
  <2>2. \A q \in Process \ {p} : pc'[q] = pc[q] /\ pc[q] \notin Holding
      BY <1>h, <2>1 DEF TypeOK, Holding
  <2>3. ASSUME Fits(index'), Exact PROVE Allowed(Present, request)
    <3>1. /\ image \in IndexRecord /\ published \in Receipt /\ receipts[published] # 0
          /\ DOMAIN receipts = Receipt /\ \A s \in Receipt : receipts[s] \in Nat
        BY <2>1, SizeIsNat DEF MemoryOK, IndexRecord, Present, TypeOK
    <3>2. index'.count = image.count + 1 /\ index'.bytes = image.bytes + receipts[published]
        BY <1>4 DEF PublishProjection, Projected
    <3>3. Counts(index', receipts)
      <4>1. Counts(image, [receipts EXCEPT ![published] = 0])
          BY <2>1, <2>3 DEF IndexOK
      <4> QED
          BY <3>1, <3>2, <4>1, CountsOneMore
    <3>4. index'.count \in Nat /\ index'.bytes \in Nat
      <4>1. image.count \in Nat /\ image.bytes \in Nat /\ receipts[published] \in Nat
          BY <3>1 DEF IndexRecord
      <4> QED
          BY <3>2, <4>1
    <3>5. index'.count >= Cardinality(Present) /\ index'.bytes >= Bytes(Present)
        BY <3>3, PresentCounts DEF Counts
    <3>6. Cardinality(Present) \in Nat /\ Bytes(Present) \in Nat /\ Present \subseteq Nat
        BY TotalsType, PresentCounts
    <3>7. index'.count <= request.keep /\ index'.bytes <= request.bytes
        BY <2>3 DEF Fits
    <3>8. request.keep \in Nat /\ request.bytes \in Nat /\ request.since = 0
        BY <2>1 DEF MemoryOK, Holding, ByPolicy
    <3>9. Cardinality(Present) <= request.keep /\ Bytes(Present) <= request.bytes
        BY <3>4, <3>5, <3>6, <3>7, <3>8
    <3>10. \A r \in Present : r >= request.since
        BY <3>6, <3>8
    <3> QED
        BY <3>9, <3>10 DEF Allowed
  <2>4. Allowed(Present, request)' <=> Allowed(Present, request)
      BY <2>1 DEF Allowed, Present, Bytes
  <2>5. pc'[p] \in {"return", "plan"} /\ (pc'[p] = "return" => Fits(index'))
      BY <2>1 DEF TypeOK
  <2> QED
      BY <2>1, <2>2, <2>3, <2>4, <2>5 DEF BoundsOK, KeepsMost, Holding, Exact
<1>5. ASSUME NEW p \in Process, PlanRemoval(p) PROVE BoundsOK'
  <2>1. /\ pc[p] = "plan" /\ receipts' = receipts /\ request' = request
        /\ pc' = [pc EXCEPT ![p] = "remove"] /\ plan' = RemovalPlan(Present, request)
      BY <1>5 DEF PlanRemoval
  <2>2. \A q \in Process \ {p} : pc'[q] = pc[q] /\ pc[q] \notin Holding
      BY <1>h, <2>1 DEF TypeOK, Holding
  <2>3. request.keep \in Nat /\ request.since \in Nat /\ request.bytes \in Nat
      BY <2>1 DEF MemoryOK, Holding
  <2>4. /\ Allowed(Present \ plan', request)
        /\ \A r \in Present : Allowed(Newer(Present, r), request) => Newer(Present, r) \subseteq Present \ plan'
      BY <2>1, <2>3, PresentCounts, PlanKeeps
  <2>5. KeepsMost'
      BY <2>1, <2>4 DEF KeepsMost, Allowed, Present, Bytes
  <2>6. pc'[p] = "remove"
      BY <2>1 DEF TypeOK
  <2> QED
      BY <2>2, <2>5, <2>6 DEF BoundsOK, Holding
<1>6. ASSUME NEW p \in Process, RemoveReceipt(p) PROVE BoundsOK'
  <2>1. pc[p] = "remove" /\ plan # {} /\ plan \in SUBSET Nat /\ pc' = pc /\ request' = request
      BY <1>6 DEF RemoveReceipt, TypeOK
  <2>2. PICK r \in plan : /\ \A s \in plan : r <= s
                         /\ receipts' = [receipts EXCEPT ![r] = 0] /\ plan' = plan \ {r}
      BY <1>6, <2>1, MinOf DEF RemoveReceipt, NextOf
  <2>3. r \in Receipt /\ Oldest(plan, Present)
      BY <2>1, <2>2 DEF TypeOK, OrderOK
  <2>4. Present' = Present \ {r} /\ r \in Present
      BY <2>2, <2>3 DEF Present, TypeOK, Oldest
  <2>5. Present' \ plan' = Present \ plan
      BY <2>2, <2>4
  <2>6. ASSUME NEW R \in SUBSET Present'
        PROVE  Allowed(R, request)' <=> Allowed(R, request)
    <3>1. \A s \in R : receipts'[s] = receipts[s] /\ receipts[s] \in Nat
        BY <2>2, <2>4, SizeIsNat DEF Present, TypeOK
    <3>2. IsFiniteSet(R)
      <4>1. R \in SUBSET Receipt
          BY <2>4 DEF Present
      <4> QED
          BY <4>1, FS_Subset
    <3>3. SumFunctionOnSet(receipts', R) = SumFunctionOnSet(receipts, R)
        BY <3>1, <3>2, SumEqual
    <3>4. Bytes(R) = SumFunctionOnSet(receipts, R)
        BY DEF Bytes
    <3>5. Bytes(R)' = SumFunctionOnSet(receipts', R)
        BY DEF Bytes
    <3> QED
        BY <2>1, <3>3, <3>4, <3>5 DEF Allowed
  <2>7. ASSUME NEW s \in Present' PROVE Newer(Present', s) = Newer(Present, s)
    <3>1. s \in Nat /\ r \in Nat /\ s # r /\ s \in Present
        BY <2>1, <2>4 DEF Present
    <3>2. r <= s
      <4>1. s <= r => s \in plan
          BY <2>2, <2>3, <3>1 DEF Oldest
      <4>2. s \in plan => r <= s
          BY <2>2
      <4> QED
          BY <3>1, <4>1, <4>2
    <3>3. ~ (r >= s)
        BY <3>1, <3>2
    <3> QED
        BY <2>4, <3>3 DEF Newer
  <2>8. KeepsMost'
    <3> DEFINE kept == Present \ plan
    <3>1. /\ Allowed(kept, request)
          /\ \A s \in Present : Allowed(Newer(Present, s), request) => Newer(Present, s) \subseteq kept
        BY <2>1 DEF BoundsOK, KeepsMost
    <3>2. kept \in SUBSET Present'
        BY <2>2, <2>4
    <3>3. Allowed(Present \ plan, request)'
      <4> HIDE DEF kept
      <4>1. Allowed(kept, request) /\ Present' \ plan' = kept
          BY <2>5, <3>1 DEF kept
      <4>2. \A R \in SUBSET Present' : Allowed(R, request) => Allowed(R, request)'
          BY <2>6
      <4> QED
          BY <3>2, <4>1, <4>2 DEF Allowed
    <3>4. ASSUME NEW s \in Present', Allowed(Newer(Present, s), request)'
          PROVE  Newer(Present', s) \subseteq Present' \ plan'
      <4>1. Newer(Present', s) \in SUBSET Present'
          BY DEF Newer
      <4>2. Allowed(Newer(Present, s), request)
          BY <2>6, <2>7, <3>4, <4>1
      <4> QED
          BY <2>4, <2>5, <2>7, <3>1, <4>2
    <3> QED
        BY <3>3, <3>4 DEF KeepsMost
  <2>9. \A q \in Process \ {p} : pc[q] \notin Holding
      BY <1>h, <2>1 DEF Holding
  <2> QED
      BY <2>1, <2>8, <2>9 DEF BoundsOK, Holding
<1>7. ASSUME NEW p \in Process, SyncReceipts(p) PROVE BoundsOK'
  <2>1. /\ pc[p] = "remove" /\ plan = {} /\ receipts' = receipts /\ request' = request
        /\ pc' = [pc EXCEPT ![p] = "totals"]
      BY <1>7 DEF SyncReceipts
  <2>2. pc'[p] = "totals" /\ \A q \in Process \ {p} : pc'[q] = pc[q] /\ pc[q] \notin Holding
      BY <1>h, <2>1 DEF TypeOK, Holding
  <2>3. Allowed(Present, request)
    <3>1. Present \ plan = Present
        BY <2>1
    <3> QED
        BY <2>1, <3>1 DEF BoundsOK, KeepsMost
  <2>4. Allowed(Present, request)'
      BY <2>1, <2>3 DEF Allowed, Present, Bytes
  <2> QED
      BY <2>2, <2>4 DEF BoundsOK, KeepsMost, Holding
<1>8. ASSUME NEW p \in Process, PublishTotals(p) PROVE BoundsOK'
  <2>1. /\ pc[p] = "totals" /\ receipts' = receipts
        /\ \/ pc' = [pc EXCEPT ![p] = "return"] /\ request' = request
           \/ pc' = [pc EXCEPT ![p] = "idle"]
      BY <1>8 DEF PublishTotals
  <2>2. \A q \in Process \ {p} : pc'[q] = pc[q] /\ pc[q] \notin Holding
      BY <1>h, <2>1 DEF TypeOK, Holding
  <2>3. CASE pc' = [pc EXCEPT ![p] = "idle"]
      BY <2>2, <2>3 DEF BoundsOK, KeepsMost, Holding, TypeOK
  <2>4. CASE pc' = [pc EXCEPT ![p] = "return"] /\ request' = request
    <3>1. Allowed(Present, request)
        BY <2>1 DEF BoundsOK
    <3>2. Allowed(Present, request)'
        BY <2>1, <2>4, <3>1 DEF Allowed, Present, Bytes
    <3>3. pc'[p] = "return"
        BY <2>4 DEF TypeOK
    <3> QED
        BY <2>2, <3>2, <3>3 DEF BoundsOK, KeepsMost, Holding
  <2> QED
      BY <2>1, <2>3, <2>4
<1>9. ASSUME NEW p \in Process, Stop(p) PROVE BoundsOK'
  <2>1. /\ receipts' = receipts /\ pc'[p] \in {"idle", "persist"}
        /\ \A q \in Process \ {p} : pc'[q] = pc[q]
        /\ history # p => UNCHANGED <<request, plan>>
        /\ faults' = faults + 1 /\ losses' = losses
      BY <1>9 DEF Stop, Abandon, TypeOK
  <2>2. ASSUME NEW q \in Process, pc'[q] \in {"remove", "totals", "return"}
        PROVE  pc'[q] = pc[q] /\ UNCHANGED <<receipts, request, plan>>
      BY <2>1, <2>2 DEF MemoryOK, Holding
  <2>3. Exact' => Exact
      BY <2>1 DEF Exact, TypeOK
  <2> QED
      BY <2>2, <2>3, BoundsFrame
<1>10. CASE PowerLoss
    BY <1>10 DEF PowerLoss, BoundsOK, KeepsMost
<1> QED
    BY <1>1, <1>2, <1>3, <1>4, <1>5, <1>6, <1>7, <1>8, <1>9, <1>10 DEF Next

-----------------------------------------------------------------------------
(* The percentile of the profile.                                          *)

\* A function takes its largest value on a finite set.
LEMMA LargestOf ==
    ASSUME NEW I, IsFiniteSet(I), I # {}, NEW f, \A i \in I : f[i] \in Nat
    PROVE  \E i \in I : \A j \in I : f[j] <= f[i]
<1> DEFINE Bounded == {T \in SUBSET I : T # {} => \E i \in T : \A j \in T : f[j] <= f[i]}
<1>1. ASSUME NEW T \in SUBSET I, \A V \in SUBSET T : V # T => V \in Bounded
      PROVE  T \in Bounded
  <2> SUFFICES ASSUME T # {} PROVE \E i \in T : \A j \in T : f[j] <= f[i]
      OBVIOUS
  <2>1. PICK x \in T : TRUE
      OBVIOUS
  <2>2. T \ {x} \in Bounded
      BY <1>1
  <2>3. CASE T \ {x} = {}
      BY <2>1, <2>3
  <2>4. CASE T \ {x} # {}
    <3>1. PICK i \in T \ {x} : \A j \in T \ {x} : f[j] <= f[i]
        BY <2>2, <2>4
    <3>2. f[x] \in Nat /\ f[i] \in Nat /\ \A j \in T : f[j] \in Nat
        BY <2>1
    <3>3. CASE f[x] <= f[i]
        BY <3>1, <3>3
    <3>4. CASE ~ (f[x] <= f[i])
      <4>1. \A j \in T : f[j] <= f[x]
          BY <3>1, <3>2, <3>4
      <4> QED
          BY <4>1
    <3> QED
        BY <3>3, <3>4
  <2> QED
      BY <2>3, <2>4
<1>2. Bounded = SUBSET I
  <2> HIDE DEF Bounded
  <2>1. Bounded \in SUBSET (SUBSET I)
      BY DEF Bounded
  <2> QED
      BY <1>1, <2>1, SubsetInduction
<1>3. I \in Bounded
    BY <1>2
<1> QED
    BY <1>3

\* Three elements make a finite set.
LEMMA FewAreFinite == ASSUME NEW x, NEW y, NEW z PROVE IsFiniteSet({x, y, z})
<1>1. IsFiniteSet({})
    BY FS_EmptySet
<1>2. IsFiniteSet({} \cup {x})
    BY <1>1, FS_AddElement
<1>3. IsFiniteSet(({} \cup {x}) \cup {y})
    BY <1>2, FS_AddElement
<1>4. IsFiniteSet((({} \cup {x}) \cup {y}) \cup {z})
    BY <1>3, FS_AddElement
<1>5. (({} \cup {x}) \cup {y}) \cup {z} = {x, y, z}
    OBVIOUS
<1> QED
    BY <1>4, <1>5

\* The largest one of a finite set of naturals.
LEMMA MaxOf ==
    ASSUME NEW S \in SUBSET Nat, IsFiniteSet(S), S # {}
    PROVE  Max(S) \in S /\ \A s \in S : s <= Max(S)
<1> DEFINE same == [s \in S |-> s]
<1>1. \A s \in S : same[s] \in Nat /\ same[s] = s
    OBVIOUS
<1>2. PICK x \in S : \A s \in S : same[s] <= same[x]
  <2> HIDE DEF same
  <2> QED
      BY <1>1, LargestOf
<1>3. \A s \in S : x >= s
    BY <1>1, <1>2
<1>4. Max(S) \in S /\ \A s \in S : Max(S) >= s
    BY <1>3 DEF Max
<1> QED
    BY <1>4

\* The places of a window can be put into the order of their samples.
LEMMA OrderingExists ==
    ASSUME NEW n \in Nat, NEW f, \A i \in 1..n : f[i] \in Nat
    PROVE  \E order \in Bijection(1..n, 1..n) :
               \A i, j \in 1..n : i < j => f[order[i]] <= f[order[j]]
<1> DEFINE Ordered(k, I) == \E order \in Bijection(1..k, I) :
                                \A i, j \in 1..k : i < j => f[order[i]] <= f[order[j]]
           Lengths == {k \in Nat : \A I \in SUBSET (1..n) : Cardinality(I) = k => Ordered(k, I)}
<1>1. IsFiniteSet(1..n) /\ Cardinality(1..n) = n
    BY FS_Interval
<1>2. 0 \in Lengths
  <2> SUFFICES ASSUME NEW I \in SUBSET (1..n), Cardinality(I) = 0 PROVE Ordered(0, I)
      OBVIOUS
  <2>1. IsFiniteSet(I)
      BY <1>1, FS_Subset
  <2>2. I = {}
      BY <2>1, FS_EmptySet
  <2>3. 1..0 = {}
      OBVIOUS
  <2>4. [i \in {} |-> i] \in Bijection(1..0, I)
      BY <2>2, <2>3 DEF Bijection, Injection, Surjection, IsInjective
  <2> QED
      BY <2>3, <2>4
<1>3. ASSUME NEW k \in Lengths PROVE k + 1 \in Lengths
  <2> SUFFICES ASSUME NEW I \in SUBSET (1..n), Cardinality(I) = k + 1 PROVE Ordered(k + 1, I)
      OBVIOUS
  <2>1. k \in Nat /\ IsFiniteSet(I) /\ I # {}
    <3>1. IsFiniteSet(I) /\ k \in Nat
        BY <1>1, FS_Subset
    <3> QED
        BY <3>1, FS_EmptySet
  <2>2. PICK x \in I : \A j \in I : f[j] <= f[x]
    <3>1. \A i \in I : f[i] \in Nat
        OBVIOUS
    <3> QED
        BY <2>1, <3>1, LargestOf
  <2>3. Cardinality(I \ {x}) = k
    <3>1. Cardinality(I \ {x}) = Cardinality(I) - 1
        BY <2>1, <2>2, FS_RemoveElement
    <3> QED
        BY <2>1, <3>1
  <2>4. PICK before \in Bijection(1..k, I \ {x}) :
            \A i, j \in 1..k : i < j => f[before[i]] <= f[before[j]]
    <3>1. I \ {x} \in SUBSET (1..n)
        OBVIOUS
    <3>2. Ordered(k, I \ {x})
        BY <2>3, <3>1
    <3> QED
        BY <3>2
  <2> DEFINE order == [i \in 1..(k + 1) |-> IF i = k + 1 THEN x ELSE before[i]]
  <2>5. 1..(k + 1) = (1..k) \cup {k + 1} /\ k + 1 \notin 1..k
      BY <2>1
  <2>6. /\ before \in [1..k -> I \ {x}]
        /\ \A i, j \in 1..k : before[i] = before[j] => i = j
        /\ \A y \in I \ {x} : \E i \in 1..k : before[i] = y
      BY DEF Bijection, Injection, Surjection, IsInjective
  <2>7. /\ DOMAIN order = 1..(k + 1) /\ order[k + 1] = x
        /\ \A i \in 1..k : order[i] = before[i] /\ before[i] \in I /\ before[i] # x
      BY <2>5, <2>6
  <2>8. order \in Bijection(1..(k + 1), I)
    <3>1. order \in [1..(k + 1) -> I]
        BY <2>5, <2>7
    <3>2. IsInjective(order)
      <4> SUFFICES ASSUME NEW i \in 1..(k + 1), NEW j \in 1..(k + 1), order[i] = order[j]
                   PROVE  i = j
          BY <2>7 DEF IsInjective
      <4> HIDE DEF order
      <4> QED
          BY <2>5, <2>6, <2>7
    <3>3. \A y \in I : \E i \in 1..(k + 1) : order[i] = y
      <4> HIDE DEF order
      <4> QED
          BY <2>5, <2>6, <2>7
    <3> HIDE DEF order
    <3> QED
        BY <3>1, <3>2, <3>3 DEF Bijection, Injection, Surjection
  <2>9. ASSUME NEW i \in 1..(k + 1), NEW j \in 1..(k + 1), i < j
        PROVE  f[order[i]] <= f[order[j]]
    <3>1. i \in 1..k
        BY <2>1, <2>9
    <3> HIDE DEF order
    <3>2. CASE j = k + 1
        BY <2>2, <2>7, <3>1, <3>2
    <3>3. CASE j # k + 1
      <4>1. j \in 1..k
          BY <2>5, <3>3
      <4>2. f[before[i]] <= f[before[j]]
          BY <2>4, <2>9, <3>1, <4>1
      <4> QED
          BY <2>7, <3>1, <4>1, <4>2
    <3> QED
        BY <3>2, <3>3
  <2> HIDE DEF order
  <2> QED
      BY <2>8, <2>9
<1>4. n \in Lengths
  <2> HIDE DEF Lengths
  <2>1. Lengths \in SUBSET Nat
      BY DEF Lengths
  <2> QED
      BY <1>2, <1>3, <2>1, NaturalInduction
<1>5. Ordered(n, 1..n)
    BY <1>1, <1>4
<1> QED
    BY <1>5

\* The last place of a window that is not empty, and what the others hold.
LEMMA WindowFacts ==
    ASSUME NEW learnt \in Seq(Size), learnt # << >>, Size \subseteq Nat
    PROVE  /\ Len(learnt) \in Nat /\ Len(learnt) > 0 /\ DOMAIN learnt = 1..Len(learnt)
           /\ Len(learnt) \in DOMAIN learnt /\ \A i \in DOMAIN learnt : learnt[i] \in Nat
<1>1. Len(learnt) \in Nat /\ DOMAIN learnt = 1..Len(learnt)
    OBVIOUS
<1>2. Len(learnt) # 0
    OBVIOUS
<1>3. \A i \in 1..Len(learnt) : learnt[i] \in Nat
  <2>1. \A i \in 1..Len(learnt) : learnt[i] \in Size
      OBVIOUS
  <2> QED
      BY <2>1, Zenon
<1>4. Len(learnt) > 0 /\ Len(learnt) \in 1..Len(learnt)
    BY <1>1, <1>2
<1>5. Len(learnt) \in DOMAIN learnt /\ \A i \in DOMAIN learnt : learnt[i] \in Nat
    BY <1>1, <1>3, <1>4, Zenon
<1> QED
    BY <1>1, <1>4, <1>5, Zenon

\* 95 of 100 samples of a window are no larger than its percentile.
LEMMA PercentileCovers ==
    ASSUME NEW learnt \in Seq(Size), learnt # << >>
    PROVE  /\ Percentile95(learnt) \in Nat
           /\ 100 * Cardinality({i \in DOMAIN learnt : learnt[i] <= Percentile95(learnt)})
                  >= 95 * Len(learnt)
<1> DEFINE n == Len(learnt)
           k == Max({Rank(n), 1})
           order == Ordering(learnt)
           covered == {i \in DOMAIN learnt : learnt[i] <= Percentile95(learnt)}
<1>1. n \in Nat /\ n > 0 /\ DOMAIN learnt = 1..n /\ \A i \in 1..n : learnt[i] \in Nat
  <2>1. Size \subseteq Nat
      BY HistoryAssumption
  <2> QED
      BY <2>1, WindowFacts
<1>2. Rank(n) \in Nat /\ Rank(n) <= n /\ 100 * Rank(n) >= 95 * n
    BY <1>1 DEF Rank
<1>3. k = Rank(n) /\ k \in 1..n
  <2>1. Rank(n) >= 1
      BY <1>1, <1>2
  <2>2. {Rank(n), 1} \in SUBSET Nat /\ IsFiniteSet({Rank(n), 1}) /\ {Rank(n), 1} # {}
    <3>1. IsFiniteSet({Rank(n), 1, 1})
        BY FewAreFinite
    <3>2. {Rank(n), 1, 1} = {Rank(n), 1}
        OBVIOUS
    <3>3. IsFiniteSet({Rank(n), 1})
        BY <3>1, <3>2
    <3> QED
        BY <1>2, <3>3
  <2>3. Max({Rank(n), 1}) \in {Rank(n), 1} /\ Rank(n) <= Max({Rank(n), 1})
      BY <2>2, MaxOf
  <2> QED
      BY <1>1, <1>2, <2>1, <2>3
<1>4. /\ order \in Bijection(1..n, 1..n)
      /\ \A i, j \in 1..n : i < j => learnt[order[i]] <= learnt[order[j]]
  <2>1. \E o \in Bijection(1..n, 1..n) : Sorts(o, learnt)
      BY <1>1, OrderingExists DEF Sorts
  <2>2. order \in Bijection(1..n, 1..n) /\ Sorts(order, learnt)
      BY <1>1, <2>1 DEF Ordering
  <2> QED
      BY <1>1, <2>2 DEF Sorts
<1> HIDE DEF n, k, order
<1>5. order \in [1..n -> 1..n] /\ \A i, j \in 1..n : order[i] = order[j] => i = j
    BY <1>4 DEF Bijection, Injection, IsInjective
<1>6. Percentile95(learnt) = learnt[order[k]]
    BY <1>3 DEF Percentile95, order, k, n
<1>7. Percentile95(learnt) \in Nat
    BY <1>1, <1>3, <1>5, <1>6
<1>8. \A i \in 1..k : i \in 1..n /\ order[i] \in covered
  <2> SUFFICES ASSUME NEW i \in 1..k PROVE i \in 1..n /\ order[i] \in covered
      OBVIOUS
  <2>1. i \in 1..n /\ (i < k \/ i = k)
      BY <1>1, <1>3
  <2>2. order[i] \in 1..n /\ learnt[order[i]] \in Nat /\ learnt[order[k]] \in Nat
      BY <1>1, <1>3, <1>5, <2>1
  <2>3. learnt[order[i]] <= learnt[order[k]]
      BY <1>3, <1>4, <2>1, <2>2
  <2> QED
      BY <1>1, <1>6, <2>1, <2>2, <2>3
<1>9. IsFiniteSet(covered)
  <2>1. IsFiniteSet(1..n) /\ covered \in SUBSET (1..n)
      BY <1>1, FS_Interval
  <2> QED
      BY <2>1, FS_Subset
<1> HIDE DEF covered
<1>10. [i \in 1..k |-> order[i]] \in Injection(1..k, covered)
    BY <1>5, <1>8 DEF Injection, IsInjective
<1>11. Cardinality(1..k) = k /\ k \in Nat
    BY <1>1, <1>3, FS_Interval
<1>12. k <= Cardinality(covered) /\ Cardinality(covered) \in Nat
    BY <1>9, <1>10, <1>11, FS_Injection, FS_CardinalityType
<1>13. 100 * Cardinality(covered) >= 95 * n
    BY <1>1, <1>2, <1>3, <1>11, <1>12
<1> QED
    BY <1>7, <1>13 DEF covered, n

-----------------------------------------------------------------------------
(* The theorems.                                                           *)

\* An empty history satisfies the invariant.
LEMMA InitInv == Init => Inv
<1> SUFFICES ASSUME Init PROVE Inv
    OBVIOUS
<1> USE HistoryAssumption, ReservationAssumption
<1>1. TypeOK
    BY DEF Init, TypeOK
<1>2. SampleOK /\ MemoryOK /\ OrderOK
    BY DEF Init, SampleOK, MemoryOK, OrderOK, Holding
<1>3. IndexOK /\ BoundsOK
    BY DEF Init, IndexOK, BoundsOK, KeepsMost
<1> QED
    BY <1>1, <1>2, <1>3 DEF Inv

\* Whatever the processes do, in any order, die or lose the power in: the history lock is
\* held where it has to be, a clean index is right and the bounds are kept.
THEOREM InductiveInvariant == Spec => []Inv
<1>1. Inv /\ [Next]_vars => Inv'
  <2> SUFFICES ASSUME Inv, [Next]_vars PROVE Inv'
      OBVIOUS
  <2>1. TypeOK' /\ SampleOK' /\ MemoryOK'
      BY TypeNext, SampleNext, MemoryNext DEF Inv
  <2>2. OrderOK' /\ IndexOK' /\ BoundsOK'
      BY OrderNext, IndexNext, BoundsNext DEF Inv
  <2> QED
      BY <2>1, <2>2 DEF Inv
<1> QED
    BY <1>1, InitInv, PTL DEF Spec

\* An index that calls itself clean counts every receipt on the disk, whoever died in a
\* publication or a prune: up to the first loss of power, or as long as nothing failed.
THEOREM IndexIsRight == Spec => []IndexCovers
<1>1. Inv => IndexCovers
  <2> SUFFICES ASSUME TypeOK, IndexOK, Exact, index # None, index.clean PROVE Covers(Present)
      BY DEF Inv, IndexCovers
  <2>1. index.count \in Nat /\ index.bytes \in Nat /\ Right(index)
      BY DEF TypeOK, IndexOK
  <2>2. Counts(index, Worst) => Counts(index, receipts)
      BY <2>1, CountsLess, WorstOf
  <2>3. Counts(index, receipts)
      BY <2>1, <2>2 DEF Exact, Right
  <2> QED
      BY <2>3, PresentCounts DEF Covers, Counts
<1> QED
    BY <1>1, InductiveInvariant, PTL

\* A publication that ends without a warning leaves what the policy allows, whether it
\* pruned or trusted the index.
THEOREM RetentionKept == Spec => []RetentionHolds
<1>1. Inv => RetentionHolds
    BY DEF Inv, RetentionHolds, MemoryOK, BoundsOK
<1> QED
    BY <1>1, InductiveInvariant, PTL

\* A prune keeps the largest end of the history that its bounds allow, and while it
\* removes the rest that does not change.
THEOREM MostIsKept == Spec => []KeepsMost
<1>1. Inv => KeepsMost
    BY DEF Inv, BoundsOK
<1> QED
    BY <1>1, InductiveInvariant, PTL

\* Every growth that is recorded joins the window of those recorded before, although the
\* profile is read and written in two steps.
THEOREM SamplesKept == Spec => NoSampleLost
<1>1. Inv /\ [Next]_vars
          => [samples' # samples => \E growth \in Size : samples' = PushSample(samples, growth)]_samples
    BY SampleAdded DEF Inv
<1> QED
    BY <1>1, InductiveInvariant, PTL DEF Spec, NoSampleLost

\* A prune removes the receipts from the oldest on, so that whatever interrupts it leaves
\* the newest part of the history.
THEOREM RemovalsOrdered == Spec => OldestFirst
<1>1. Inv /\ [Next]_vars
          => [\A r \in Present : receipts'[r] = 0 => \A s \in Present : s >= r]_receipts
    BY RemovesOldest DEF Inv
<1> QED
    BY <1>1, InductiveInvariant, PTL DEF Spec, OldestFirst

\* A reservation covers the growth of 95 of 100 builds of the window, and the last one.
THEOREM ReservationIsEnough == Spec => []ReservationCovers
<1>1. TypeOK => ReservationCovers
  <2> SUFFICES ASSUME TypeOK PROVE ReservationCovers
      OBVIOUS
  <2>1. samples \in Seq(Size) /\ Size \subseteq Nat
      BY HistoryAssumption DEF TypeOK
  <2>2. CASE samples = << >>
    <3>1. IsFiniteSet({}) /\ Cardinality({}) = 0
        BY FS_EmptySet
    <3> QED
        BY <2>2, <3>1 DEF ReservationCovers
  <2>3. CASE samples # << >>
    <3> DEFINE recommended == Recommend(samples, 0)
               small == {i \in DOMAIN samples : samples[i] <= Percentile95(samples)}
               covered == {i \in DOMAIN samples : samples[i] <= recommended}
               last == samples[Len(samples)]
    <3>1. /\ Len(samples) \in Nat /\ Len(samples) \in DOMAIN samples /\ last \in Nat
          /\ DOMAIN samples = 1..Len(samples) /\ \A i \in DOMAIN samples : samples[i] \in Nat
        BY <2>1, <2>3, WindowFacts
    <3>2. Percentile95(samples) \in Nat /\ 100 * Cardinality(small) >= 95 * Len(samples)
        BY <2>1, <2>3, PercentileCovers
    <3> HIDE DEF last
    <3>3. /\ recommended \in Nat /\ Percentile95(samples) <= recommended
          /\ last <= recommended
      <4>1. IsFiniteSet({0, Percentile95(samples), last})
          BY FewAreFinite
      <4>2. {0, Percentile95(samples), last} \in SUBSET Nat
          BY <3>1, <3>2
      <4>3. recommended = Max({0, Percentile95(samples), last})
          BY <2>3 DEF Recommend, last
      <4> HIDE DEF recommended
      <4> QED
          BY <4>1, <4>2, <4>3, MaxOf
    <3>4. small \subseteq covered /\ Len(samples) \in covered
      <4> HIDE DEF recommended
      <4> QED
          BY <3>1, <3>2, <3>3 DEF last
    <3>5. IsFiniteSet(covered) /\ IsFiniteSet(small)
      <4>1. IsFiniteSet(1..Len(samples))
          BY <3>1, FS_Interval
      <4>2. covered \in SUBSET (1..Len(samples)) /\ small \in SUBSET (1..Len(samples))
          BY <3>1
      <4> QED
          BY <4>1, <4>2, FS_Subset
    <3>6. Cardinality(small) <= Cardinality(covered)
          /\ Cardinality(small) \in Nat /\ Cardinality(covered) \in Nat
        BY <3>4, <3>5, FS_Subset, FS_CardinalityType
    <3>7. 100 * Cardinality(covered) >= 95 * Len(samples)
      <4> HIDE DEF small, covered
      <4> QED
          BY <3>1, <3>2, <3>6
    <3> QED
        BY <3>4, <3>7 DEF ReservationCovers
  <2> QED
      BY <2>2, <2>3
<1>2. Inv => TypeOK
    BY DEF Inv
<1> QED
    BY <1>1, <1>2, InductiveInvariant, PTL

=============================================================================
