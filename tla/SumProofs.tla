------------------------------ MODULE SumProofs ------------------------------
(***************************************************************************)
(* Facts about SumFunctionOnSet, the sum of the values of a function over  *)
(* a finite set: what the budget of Capacity and the bounds of History are *)
(* reckoned with.  The sum is defined by recursion over the subsets of the *)
(* set; the first part shows that there is a function that satisfies the   *)
(* recursive equation, the second what follows from the equation.          *)
(***************************************************************************)
EXTENDS Functions, FiniteSetTheorems, TLAPS

-----------------------------------------------------------------------------
(* Induction, stated of sets instead of predicates.                        *)

\* A set of naturals with 0 and all successors has them all.
LEMMA NaturalInduction ==
    ASSUME NEW N \in SUBSET Nat, 0 \in N, \A n \in N : n + 1 \in N
    PROVE  N = Nat
<1> SUFFICES ASSUME Nat \ N # {} PROVE FALSE
    OBVIOUS
<1>1. PICK m \in Nat \ N : \A k \in Nat \ N : ~ (<<k, m>> \in OpToRel(<, Nat))
    BY NatLessThanWellFounded, WFMin
<1>2. \A k \in Nat : k < m => <<k, m>> \in OpToRel(<, Nat)
    BY DEF OpToRel
<1>3. m - 1 \in Nat /\ m - 1 < m
    OBVIOUS
<1>4. m - 1 \in N
    BY <1>1, <1>2, <1>3
<1>5. m = (m - 1) + 1
    OBVIOUS
<1> QED
    BY <1>4, <1>5

\* A family of subsets of a finite set that has every set whose smaller subsets it has
\* has them all.
LEMMA SubsetInduction ==
    ASSUME NEW U, IsFiniteSet(U), NEW C \in SUBSET (SUBSET U),
           \A T \in SUBSET U : (\A V \in SUBSET T : V # T => V \in C) => T \in C
    PROVE  C = SUBSET U
<1> SUFFICES ASSUME (SUBSET U) \ C # {} PROVE FALSE
    OBVIOUS
<1>0. FiniteSubsetsOf(U) = SUBSET U
    BY FS_FiniteSubsetsOfFinite
<1>1. IsWellFoundedOn(StrictSubsetOrdering(U), SUBSET U)
  <2>1. IsWellFoundedOn(StrictSubsetOrdering(U), FiniteSubsetsOf(U))
      BY FS_StrictSubsetOrderingWellFounded
  <2> QED
      BY <1>0, <2>1, Zenon
<1> DEFINE Left == (SUBSET U) \ C
<1>2. Left \subseteq SUBSET U /\ Left # {}
    OBVIOUS
<1>3. PICK T \in Left : \A V \in Left : ~ (<<V, T>> \in StrictSubsetOrdering(U))
  <2> HIDE DEF Left
  <2> QED
      BY <1>1, <1>2, WFMin
<1>4. T \in SUBSET U /\ T \notin C
    OBVIOUS
<1>5. ASSUME NEW V \in SUBSET T, V # T PROVE V \in C
  <2>1. V \in SUBSET U
      BY <1>4
  <2>2. <<V, T>> \in StrictSubsetOrdering(U)
      BY <1>4, <1>5, <2>1 DEF StrictSubsetOrdering
  <2>3. V \notin Left
      BY <1>3, <2>2
  <2> QED
      BY <2>1, <2>3
<1> QED
    BY <1>4, <1>5

-----------------------------------------------------------------------------
(* The recursive equation.                                                 *)

\* One element of a set, the one that the sum takes first.
Some(s) == CHOOSE x \in s : TRUE

\* The right-hand side of the equation.
Unfolded(g, f, s) == IF s = {} THEN 0 ELSE f[Some(s)] + g[s \ {Some(s)}]

\* g is the sum over each subset of S.
IsSum(g, f, S) == g = [s \in SUBSET S |-> Unfolded(g, f, s)]

\* The sum of the library is some function that satisfies the equation.
LEMMA SumIsChosen ==
    ASSUME NEW f, NEW S
    PROVE  SumFunctionOnSet(f, S) = (CHOOSE g : IsSum(g, f, S))[S]
BY DEF SumFunctionOnSet, FoldFunctionOnSet, MapThenFoldSet, IsSum, Unfolded, Some

\* The chosen element is one of the set,
LEMMA SomeOf == ASSUME NEW s, s # {} PROVE Some(s) \in s
BY DEF Some

\* and the set is smaller without it.
LEMMA Smaller ==
    ASSUME NEW S, IsFiniteSet(S), NEW s \in SUBSET S, s # {}
    PROVE  /\ s \ {Some(s)} \in SUBSET S
           /\ Cardinality(s) \in Nat
           /\ Cardinality(s \ {Some(s)}) = Cardinality(s) - 1
BY FS_Subset, FS_RemoveElement, FS_CardinalityType, SomeOf

\* The equation can be satisfied: on the sets of n elements, for every n.
LEMMA SumExists ==
    ASSUME NEW f, NEW S, IsFiniteSet(S)
    PROVE  \E g : IsSum(g, f, S)
<1> DEFINE Upto(n) == {s \in SUBSET S : Cardinality(s) <= n}
           Holds(g, n) == \A s \in Upto(n) : g[s] = Unfolded(g, f, s)
           Next(g) == [s \in SUBSET S |-> Unfolded(g, f, s)]
           N == {n \in Nat : \E g : Holds(g, n)}
<1>1. 0 \in N
  <2>1. ASSUME NEW s \in Upto(0) PROVE s = {}
      BY <2>1, FS_Subset, FS_EmptySet, FS_CardinalityType
  <2> DEFINE zero == [s \in SUBSET S |-> 0]
  <2>2. \A s \in Upto(0) : zero[s] = Unfolded(zero, f, s)
      BY <2>1 DEF Unfolded
  <2> QED
      BY <2>2
<1>2. ASSUME NEW g, NEW n \in Nat, Holds(g, n)
      PROVE  \A s \in Upto(n + 1) : s # {} => Next(g)[s \ {Some(s)}] = g[s \ {Some(s)}]
  <2> SUFFICES ASSUME NEW s \in Upto(n + 1), s # {}
               PROVE  Next(g)[s \ {Some(s)}] = g[s \ {Some(s)}]
      OBVIOUS
  <2>1. s \ {Some(s)} \in Upto(n)
      BY Smaller
  <2> QED
      BY <1>2, <2>1
<1>3. ASSUME NEW n \in N PROVE n + 1 \in N
  <2>1. PICK g : Holds(g, n)
      OBVIOUS
  <2>2. \A s \in Upto(n + 1) : Next(g)[s] = Unfolded(g, f, s)
      OBVIOUS
  <2>3. \A s \in Upto(n + 1) : Unfolded(g, f, s) = Unfolded(Next(g), f, s)
    <3> HIDE DEF Holds, Next, Upto
    <3>1. \A s \in Upto(n + 1) : s # {} => Next(g)[s \ {Some(s)}] = g[s \ {Some(s)}]
        BY <1>2, <2>1
    <3> QED
        BY <3>1 DEF Unfolded
  <2>4. Holds(Next(g), n + 1)
    <3> HIDE DEF Next
    <3> QED
        BY <2>2, <2>3
  <2>5. n + 1 \in Nat
      OBVIOUS
  <2> HIDE DEF Holds, Next
  <2>6. \E h : Holds(h, n + 1)
      BY <2>4
  <2> QED
      BY <2>5, <2>6
<1>4. N = Nat
  <2> HIDE DEF N
  <2> QED
    BY <1>1, <1>3, NaturalInduction DEF N
<1> DEFINE n == Cardinality(S)
<1>5. n \in Nat
    BY FS_CardinalityType
<1>6. PICK g : Holds(g, n)
    BY <1>4, <1>5
<1>7. \A s \in SUBSET S : s \in Upto(n) /\ s \in Upto(n + 1)
    BY <1>5, FS_Subset, FS_CardinalityType
<1>8. \A s \in SUBSET S : Unfolded(g, f, s) = Unfolded(Next(g), f, s)
    BY <1>2, <1>5, <1>6, <1>7 DEF Unfolded
<1>9. IsSum(Next(g), f, S)
    BY <1>8 DEF IsSum
<1> QED
    BY <1>9

\* The function that the sum over S is taken from.
SumsOf(f, S) == CHOOSE g : IsSum(g, f, S)

\* Put together, the sums over the smaller sets satisfy the equation.
LEMMA SumsOfIsSum ==
    ASSUME NEW f, NEW S, IsFiniteSet(S)
    PROVE  \A s \in SUBSET S : SumsOf(f, S)[s] = Unfolded(SumsOf(f, S), f, s)
<1>1. IsSum(SumsOf(f, S), f, S)
    BY SumExists DEF SumsOf
<1> QED
    BY <1>1 DEF IsSum

\* It is the same one on the subsets.
LEMMA SumsOfSubset ==
    ASSUME NEW f, NEW S, IsFiniteSet(S), NEW T \in SUBSET S
    PROVE  SumFunctionOnSet(f, T) = SumsOf(f, S)[T]
<1> DEFINE C == {s \in SUBSET T : SumsOf(f, T)[s] = SumsOf(f, S)[s]}
<1>1. IsFiniteSet(T)
    BY FS_Subset
<1>2. ASSUME NEW s \in SUBSET T, \A V \in SUBSET s : V # s => V \in C
      PROVE  s \in C
  <2>1. CASE s = {}
      BY <1>1, <2>1, SumsOfIsSum DEF Unfolded
  <2>2. CASE s # {}
    <3>1. s \ {Some(s)} \in C
        BY <1>2, <2>2, SomeOf
    <3>2. SumsOf(f, T)[s] = f[Some(s)] + SumsOf(f, T)[s \ {Some(s)}]
        BY <1>1, <2>2, SumsOfIsSum DEF Unfolded
    <3>3. s \in SUBSET S
        OBVIOUS
    <3>4. SumsOf(f, S)[s] = f[Some(s)] + SumsOf(f, S)[s \ {Some(s)}]
        BY <2>2, <3>3, SumsOfIsSum DEF Unfolded
    <3> QED
        BY <3>1, <3>2, <3>4
  <2> QED
      BY <2>1, <2>2
<1>3. C = SUBSET T
  <2>1. C \in SUBSET (SUBSET T)
      OBVIOUS
  <2> HIDE DEF C
  <2> QED
      BY <1>1, <1>2, <2>1, SubsetInduction
<1>4. T \in C
    BY <1>3
<1> QED
    BY <1>4, SumIsChosen DEF SumsOf

-----------------------------------------------------------------------------
(* What follows from it.                                                   *)

\* The sum over nothing.
LEMMA SumEmpty == ASSUME NEW f PROVE SumFunctionOnSet(f, {}) = 0
<1>1. IsFiniteSet({}) /\ {} \in SUBSET {}
    BY FS_EmptySet
<1>2. SumsOf(f, {})[{}] = 0
    BY <1>1, SumsOfIsSum DEF Unfolded
<1> QED
    BY <1>1, <1>2, SumsOfSubset

\* The element that the sum takes first.
LEMMA SumFirst ==
    ASSUME NEW f, NEW S, IsFiniteSet(S), S # {}
    PROVE  SumFunctionOnSet(f, S) = f[Some(S)] + SumFunctionOnSet(f, S \ {Some(S)})
<1>1. S \in SUBSET S /\ S \ {Some(S)} \in SUBSET S
    OBVIOUS
<1>2. SumsOf(f, S)[S] = f[Some(S)] + SumsOf(f, S)[S \ {Some(S)}]
    BY <1>1, SumsOfIsSum DEF Unfolded
<1> QED
    BY <1>1, <1>2, SumsOfSubset

\* A sum of naturals is one.
LEMMA SumType ==
    ASSUME NEW f, NEW S, IsFiniteSet(S), \A x \in S : f[x] \in Nat
    PROVE  SumFunctionOnSet(f, S) \in Nat
<1> DEFINE C == {T \in SUBSET S : SumFunctionOnSet(f, T) \in Nat}
<1>1. ASSUME NEW T \in SUBSET S, \A V \in SUBSET T : V # T => V \in C PROVE T \in C
  <2>1. CASE T = {}
      BY <2>1, SumEmpty
  <2>2. CASE T # {}
    <3>1. IsFiniteSet(T) /\ Some(T) \in T
        BY <2>2, FS_Subset, SomeOf
    <3>2. T \ {Some(T)} \in C
        BY <1>1, <3>1
    <3>3. SumFunctionOnSet(f, T) = f[Some(T)] + SumFunctionOnSet(f, T \ {Some(T)})
        BY <2>2, <3>1, SumFirst
    <3> QED
        BY <3>1, <3>2, <3>3
  <2> QED
      BY <2>1, <2>2
<1>2. C \in SUBSET (SUBSET S)
    OBVIOUS
<1>3. C = SUBSET S
  <2> HIDE DEF C
  <2> QED
      BY <1>1, <1>2, SubsetInduction
<1> QED
    BY <1>3

\* Any element may be taken first.
LEMMA SumRemove ==
    ASSUME NEW f, NEW S, IsFiniteSet(S), \A y \in S : f[y] \in Nat, NEW x \in S
    PROVE  SumFunctionOnSet(f, S) = f[x] + SumFunctionOnSet(f, S \ {x})
<1> DEFINE Sum(T) == SumFunctionOnSet(f, T)
           C == {T \in SUBSET S : \A y \in T : Sum(T) = f[y] + Sum(T \ {y})}
<1>0. \A T \in SUBSET S : IsFiniteSet(T) /\ Sum(T) \in Nat
    BY FS_Subset, SumType
<1>1. ASSUME NEW T \in SUBSET S, \A V \in SUBSET T : V # T => V \in C PROVE T \in C
  <2> SUFFICES ASSUME NEW y \in T PROVE Sum(T) = f[y] + Sum(T \ {y})
      OBVIOUS
  <2> DEFINE z == Some(T)
  <2>1. z \in T /\ Sum(T) = f[z] + Sum(T \ {z})
      BY <1>0, SomeOf, SumFirst
  <2>2. CASE y = z
      BY <2>1, <2>2
  <2>3. CASE y # z
    <3>1. T \ {z} \in C /\ T \ {y} \in C
        BY <1>1, <2>1
    <3>2. Sum(T \ {z}) = f[y] + Sum((T \ {z}) \ {y})
        BY <2>3, <3>1
    <3>3. Sum(T \ {y}) = f[z] + Sum((T \ {y}) \ {z})
        BY <2>1, <2>3, <3>1
    <3>4. (T \ {z}) \ {y} = (T \ {y}) \ {z}
        OBVIOUS
    <3>5. (T \ {z}) \ {y} \in SUBSET S
        OBVIOUS
    <3>6. Sum((T \ {z}) \ {y}) \in Nat /\ f[y] \in Nat /\ f[z] \in Nat
        BY <1>0, <2>1, <3>5
    <3> HIDE DEF Sum, z
    <3> QED
        BY <2>1, <3>2, <3>3, <3>4, <3>6
  <2> QED
      BY <2>2, <2>3
<1>2. C \in SUBSET (SUBSET S)
    OBVIOUS
<1>3. C = SUBSET S
  <2> HIDE DEF C
  <2> QED
      BY <1>1, <1>2, SubsetInduction
<1> QED
    BY <1>3

\* A sum over a smaller set, and of smaller values, is smaller.
LEMMA SumLeq ==
    ASSUME NEW f, NEW g, NEW S, IsFiniteSet(S), NEW T \in SUBSET S,
           \A x \in S : f[x] \in Nat /\ g[x] \in Nat,
           \A x \in T : f[x] <= g[x]
    PROVE  SumFunctionOnSet(f, T) <= SumFunctionOnSet(g, S)
<1> DEFINE C == {V \in SUBSET S : SumFunctionOnSet(f, V \cap T) <= SumFunctionOnSet(g, V)}
<1>0. \A V \in SUBSET S : /\ IsFiniteSet(V)
                           /\ SumFunctionOnSet(f, V) \in Nat /\ SumFunctionOnSet(g, V) \in Nat
    BY FS_Subset, SumType
<1>1. ASSUME NEW V \in SUBSET S, \A W \in SUBSET V : W # V => W \in C PROVE V \in C
  <2>1. CASE V = {}
    <3>1. V \cap T = {}
        BY <2>1
    <3>2. SumFunctionOnSet(f, V \cap T) = 0 /\ SumFunctionOnSet(g, V) = 0
        BY <2>1, <3>1, SumEmpty
    <3> QED
        BY <3>2
  <2>2. ASSUME NEW x \in V PROVE V \in C
    <3> DEFINE W == V \ {x}
    <3>1. W \in C /\ W \in SUBSET S
        BY <1>1
    <3>2. SumFunctionOnSet(g, V) = g[x] + SumFunctionOnSet(g, W)
        BY <1>0, SumRemove
    <3>3. f[x] \in Nat /\ g[x] \in Nat /\ SumFunctionOnSet(g, W) \in Nat
        BY <1>0, <3>1
    <3>4. CASE x \in T
      <4>1. V \cap T \in SUBSET S /\ x \in V \cap T
          BY <3>4
      <4>2. SumFunctionOnSet(f, V \cap T) = f[x] + SumFunctionOnSet(f, (V \cap T) \ {x})
          BY <1>0, <4>1, SumRemove
      <4>3. (V \cap T) \ {x} = W \cap T /\ W \cap T \in SUBSET S
          OBVIOUS
      <4>4. SumFunctionOnSet(f, W \cap T) \in Nat /\ f[x] <= g[x]
          BY <1>0, <3>4, <4>3
      <4>5. SumFunctionOnSet(f, W \cap T) <= SumFunctionOnSet(g, W)
          BY <3>1
      <4>6. SumFunctionOnSet(f, V \cap T) = f[x] + SumFunctionOnSet(f, W \cap T)
          BY <4>2, <4>3
      <4>7. SumFunctionOnSet(f, V \cap T) <= SumFunctionOnSet(g, V)
        <5> HIDE DEF W
        <5> QED
            BY <3>2, <3>3, <4>4, <4>5, <4>6
      <4> QED
          BY <4>7
    <3>5. CASE x \notin T
      <4>1. V \cap T = W \cap T /\ W \cap T \in SUBSET S
          BY <3>5
      <4>2. SumFunctionOnSet(f, W \cap T) \in Nat
          BY <1>0, <4>1
      <4>3. SumFunctionOnSet(f, W \cap T) <= SumFunctionOnSet(g, W)
          BY <3>1
      <4>4. SumFunctionOnSet(f, V \cap T) <= SumFunctionOnSet(g, V)
        <5> HIDE DEF W
        <5> QED
            BY <3>2, <3>3, <4>1, <4>2, <4>3
      <4> QED
          BY <4>4
    <3> QED
        BY <3>4, <3>5
  <2> QED
      BY <2>1, <2>2
<1>2. C \in SUBSET (SUBSET S)
    OBVIOUS
<1>3. C = SUBSET S
  <2> HIDE DEF C
  <2> QED
      BY <1>1, <1>2, SubsetInduction
<1>4. S \in C /\ S \cap T = T
    BY <1>3
<1> QED
    BY <1>4

\* Equal values have an equal sum.
LEMMA SumEqual ==
    ASSUME NEW f, NEW g, NEW S, IsFiniteSet(S),
           \A x \in S : f[x] \in Nat /\ f[x] = g[x]
    PROVE  SumFunctionOnSet(f, S) = SumFunctionOnSet(g, S)
<1>1. \A x \in S : g[x] \in Nat /\ g[x] <= f[x] /\ f[x] <= g[x]
    OBVIOUS
<1>2. SumFunctionOnSet(f, S) <= SumFunctionOnSet(g, S)
    BY <1>1, SumLeq
<1>3. SumFunctionOnSet(g, S) <= SumFunctionOnSet(f, S)
    BY <1>1, SumLeq
<1> QED
    BY <1>1, <1>2, <1>3, SumType

\* No value is above the sum.
LEMMA SumAtLeast ==
    ASSUME NEW f, NEW S, IsFiniteSet(S), \A y \in S : f[y] \in Nat, NEW x \in S
    PROVE  f[x] <= SumFunctionOnSet(f, S)
<1>1. SumFunctionOnSet(f, S) = f[x] + SumFunctionOnSet(f, S \ {x})
    BY SumRemove
<1>2. SumFunctionOnSet(f, S \ {x}) \in Nat
    BY FS_Subset, SumType
<1> QED
    BY <1>1, <1>2

\* The sum over a set is that over a part of it and that over the rest.
LEMMA SumSplit ==
    ASSUME NEW f, NEW S, IsFiniteSet(S), \A x \in S : f[x] \in Nat, NEW T \in SUBSET S
    PROVE  SumFunctionOnSet(f, S) = SumFunctionOnSet(f, T) + SumFunctionOnSet(f, S \ T)
<1> DEFINE Sum(V) == SumFunctionOnSet(f, V)
           C == {V \in SUBSET T : Sum(S) = Sum(V) + Sum(S \ V)}
<1>0. \A V \in SUBSET S : IsFiniteSet(V) /\ Sum(V) \in Nat
    BY FS_Subset, SumType
<1>1. ASSUME NEW V \in SUBSET T, \A W \in SUBSET V : W # V => W \in C PROVE V \in C
  <2>1. CASE V = {}
      BY <1>0, <2>1, SumEmpty
  <2>2. ASSUME NEW x \in V PROVE V \in C
    <3> DEFINE W == V \ {x}
    <3>1. W \in C /\ W \in SUBSET S /\ x \in S
        BY <1>1
    <3>2. Sum(V) = f[x] + Sum(W)
        BY <1>0, SumRemove
    <3>3. x \in S \ W /\ (S \ W) \ {x} = S \ V /\ S \ W \in SUBSET S
        OBVIOUS
    <3>4. Sum(S \ W) = f[x] + Sum((S \ W) \ {x})
        BY <1>0, <3>3, SumRemove
    <3>5. Sum(S \ W) = f[x] + Sum(S \ V)
        BY <3>3, <3>4
    <3>6. Sum(W) \in Nat /\ Sum(S \ V) \in Nat /\ f[x] \in Nat
        BY <1>0, <3>1
    <3>7. Sum(S) = Sum(W) + Sum(S \ W)
        BY <3>1
    <3>8. Sum(S) = Sum(V) + Sum(S \ V)
      <4> HIDE DEF Sum, W
      <4> QED
          BY <3>2, <3>5, <3>6, <3>7
    <3> QED
        BY <3>8
  <2> QED
      BY <2>1, <2>2
<1>2. C \in SUBSET (SUBSET T)
    OBVIOUS
<1>3. C = SUBSET T
  <2>1. IsFiniteSet(T)
      BY <1>0
  <2> HIDE DEF C
  <2> QED
      BY <1>1, <1>2, <2>1, SubsetInduction
<1> QED
    BY <1>3

\* The sum of the sums of two values is the sum of the two sums.
LEMMA SumPlus ==
    ASSUME NEW f, NEW g, NEW h, NEW S, IsFiniteSet(S),
           \A x \in S : f[x] \in Nat /\ g[x] \in Nat /\ h[x] = f[x] + g[x]
    PROVE  SumFunctionOnSet(h, S) = SumFunctionOnSet(f, S) + SumFunctionOnSet(g, S)
<1> DEFINE C == {T \in SUBSET S :
                    SumFunctionOnSet(h, T) = SumFunctionOnSet(f, T) + SumFunctionOnSet(g, T)}
<1>0. \A T \in SUBSET S : /\ IsFiniteSet(T)
                           /\ SumFunctionOnSet(f, T) \in Nat /\ SumFunctionOnSet(g, T) \in Nat
    BY FS_Subset, SumType
<1>1. ASSUME NEW T \in SUBSET S, \A V \in SUBSET T : V # T => V \in C PROVE T \in C
  <2>1. CASE T = {}
      BY <2>1, SumEmpty
  <2>2. ASSUME NEW x \in T PROVE T \in C
    <3> DEFINE V == T \ {x}
    <3>1. V \in C /\ V \in SUBSET S
        BY <1>1
    <3>2. \A y \in T : h[y] \in Nat
        OBVIOUS
    <3>3. /\ SumFunctionOnSet(f, T) = f[x] + SumFunctionOnSet(f, V)
          /\ SumFunctionOnSet(g, T) = g[x] + SumFunctionOnSet(g, V)
          /\ SumFunctionOnSet(h, T) = h[x] + SumFunctionOnSet(h, V)
        BY <1>0, <3>2, SumRemove
    <3>4. /\ f[x] \in Nat /\ g[x] \in Nat /\ h[x] = f[x] + g[x]
          /\ SumFunctionOnSet(f, V) \in Nat /\ SumFunctionOnSet(g, V) \in Nat
        BY <1>0, <3>1
    <3>5. SumFunctionOnSet(h, V) = SumFunctionOnSet(f, V) + SumFunctionOnSet(g, V)
        BY <3>1
    <3>6. SumFunctionOnSet(h, T) = SumFunctionOnSet(f, T) + SumFunctionOnSet(g, T)
      <4> HIDE DEF V
      <4> QED
          BY <3>3, <3>4, <3>5
    <3> QED
        BY <3>6
  <2> QED
      BY <2>1, <2>2
<1>2. C \in SUBSET (SUBSET S)
    OBVIOUS
<1>3. C = SUBSET S
  <2> HIDE DEF C
  <2> QED
      BY <1>1, <1>2, SubsetInduction
<1> QED
    BY <1>3

\* Zeros add nothing.
LEMMA SumOfSupport ==
    ASSUME NEW f, NEW S, IsFiniteSet(S), \A x \in S : f[x] \in Nat,
           NEW T \in SUBSET S, \A x \in S \ T : f[x] = 0
    PROVE  SumFunctionOnSet(f, S) = SumFunctionOnSet(f, T)
<1> DEFINE Z == S \ T
<1>1. IsFiniteSet(Z) /\ IsFiniteSet(T)
    BY FS_Subset
<1>2. \A x \in Z : f[x] \in Nat /\ f[x] = f[x] + f[x]
    OBVIOUS
<1>3. SumFunctionOnSet(f, Z) = SumFunctionOnSet(f, Z) + SumFunctionOnSet(f, Z)
  <2> HIDE DEF Z
  <2> QED
      BY <1>1, <1>2, SumPlus
<1>4. SumFunctionOnSet(f, S) = SumFunctionOnSet(f, T) + SumFunctionOnSet(f, Z)
    BY SumSplit
<1>5. SumFunctionOnSet(f, Z) \in Nat /\ SumFunctionOnSet(f, T) \in Nat
    BY <1>1, <1>2, SumType
<1>6. \A m, n \in Nat : n = n + n => m + n = m
    OBVIOUS
<1> HIDE DEF Z
<1> QED
    BY <1>3, <1>4, <1>5, <1>6

=============================================================================
