-------------------------------- MODULE Sums --------------------------------
(***************************************************************************)
(* What the proofs use about the sum of a function over a finite set       *)
(* (SumFunctionOnSet of Functions): the balances, allowances and batch     *)
(* totals of the store's queries are such sums.                            *)
(*                                                                         *)
(* The sum is defined by a recursive function on the subsets of the set.   *)
(* Its equation is established here by induction over those subsets, with  *)
(* the well-foundedness of strict inclusion in place of an induction rule: *)
(* FoldUpTo is built for sets of 0, 1, 2, ... elements, and two folds of   *)
(* one set agree.                                                          *)
(***************************************************************************)
EXTENDS Integers, FiniteSets, Functions, FiniteSetTheorems, WellFoundedInduction, TLAPS

\* The time a leaf may take on a slow machine.
USE SMTT(40), ZenonT(20)


\* What holds of a subset as soon as it holds of it without any one element holds of
\* every subset of a finite set.
LEMMA SubsetInduction ==
  ASSUME NEW S, IsFiniteSet(S), NEW G \in SUBSET (SUBSET S),
         \A T \in SUBSET S : (\A x \in T : T \ {x} \in G) => T \in G
  PROVE  G = SUBSET S
<1>1. IsWellFoundedOn(StrictSubsetOrdering(S), SUBSET S)
  <2>1. FiniteSubsetsOf(S) = SUBSET S
    BY FS_FiniteSubsetsOfFinite
  <2>2. IsWellFoundedOn(StrictSubsetOrdering(S), FiniteSubsetsOf(S))
    BY FS_StrictSubsetOrderingWellFounded
  <2> QED BY <2>1, <2>2
<1> SUFFICES ASSUME (SUBSET S) \ G # {} PROVE FALSE
  OBVIOUS
<1>2. PICK T \in (SUBSET S) \ G :
         \A U \in (SUBSET S) \ G : ~ (<<U, T>> \in StrictSubsetOrdering(S))
  <2> DEFINE Bad == (SUBSET S) \ G
  <2>1. Bad \subseteq SUBSET S /\ Bad # {}
    OBVIOUS
  <2>2. \E T \in Bad : \A U \in Bad : ~ (<<U, T>> \in StrictSubsetOrdering(S))
    <3> HIDE DEF Bad
    <3> QED BY <1>1, <2>1, WFMin
  <2> QED BY <2>2
<1>3. ASSUME NEW x \in T PROVE T \ {x} \in G
  <2>1. T \ {x} \in SUBSET S /\ T \ {x} \subseteq T /\ T \ {x} # T
    BY <1>3
  <2>2. <<T \ {x}, T>> \in StrictSubsetOrdering(S)
    BY <2>1 DEF StrictSubsetOrdering
  <2> QED BY <1>2, <2>1, <2>2
<1> QED BY <1>2, <1>3

\* A set of naturals that holds 0 and the successor of each of its elements holds them all.
LEMMA SetOfNaturals ==
  ASSUME NEW G \in SUBSET Nat, 0 \in G, \A k \in G : k + 1 \in G
  PROVE  G = Nat
<1> SUFFICES ASSUME NEW n \in Nat PROVE n \in G
  OBVIOUS
<1> DEFINE H == {T \in SUBSET (0 .. n) : \A k \in 0 .. n : T = 0 .. k => k \in G}
<1>1. IsFiniteSet(0 .. n)
  BY FS_Interval
<1>2. ASSUME NEW T \in SUBSET (0 .. n), \A x \in T : T \ {x} \in H
      PROVE  T \in H
  <2> SUFFICES ASSUME NEW k \in 0 .. n, T = 0 .. k PROVE k \in G
    OBVIOUS
  <2>1. CASE k = 0
    BY <2>1
  <2>2. CASE k # 0
    <3>1. k \in T /\ k - 1 \in 0 .. n /\ T \ {k} = 0 .. (k - 1)
      BY <2>2
    <3>2. k - 1 \in G
      BY <1>2, <3>1
    <3>3. (k - 1) + 1 = k
      BY <2>2
    <3> QED BY <3>2, <3>3
  <2> QED BY <2>1, <2>2
<1>3. H = SUBSET (0 .. n)
  <2>1. H \in SUBSET (SUBSET (0 .. n))
    OBVIOUS
  <2> HIDE DEF H
  <2> QED BY <1>1, <1>2, <2>1, SubsetInduction
<1>4. 0 .. n \in H /\ n \in 0 .. n
  <2> HIDE DEF H
  <2> QED BY <1>3
<1> QED BY <1>4

\* A set of sums as one function: the empty set has 0, and any other set what its first
\* element adds to the rest.  FoldUpTo is that for the sets of at most n elements.
Picked(s) == CHOOSE x \in s : TRUE
FoldAt(g, f, s) == IF s = {} THEN 0 ELSE f[Picked(s)] + g[s \ {Picked(s)}]
IsFold(g, f, S) == g \in [SUBSET S -> Int] /\ \A s \in SUBSET S : g[s] = FoldAt(g, f, s)
FoldUpTo(g, f, S, n) ==
  g \in [SUBSET S -> Int] /\ \A s \in SUBSET S : Cardinality(s) <= n => g[s] = FoldAt(g, f, s)

LEMMA PickedIn == ASSUME NEW s, s # {} PROVE Picked(s) \in s
BY DEF Picked

LEMMA PartialFold ==
  ASSUME NEW S, IsFiniteSet(S), NEW f, \A e \in S : f[e] \in Int, NEW n \in Nat
  PROVE  \E g : FoldUpTo(g, f, S, n)
<1> DEFINE G == {k \in Nat : \E g : FoldUpTo(g, f, S, k)}
<1>1. \A s \in SUBSET S : IsFiniteSet(s) /\ Cardinality(s) \in Nat /\ (Cardinality(s) = 0 <=> s = {})
  BY FS_Subset, FS_CardinalityType, FS_EmptySet
<1>2. \E g : FoldUpTo(g, f, S, 0)
  <2> DEFINE z == [s \in SUBSET S |-> 0]
  <2>1. \A s \in SUBSET S : Cardinality(s) <= 0 => s = {}
    BY <1>1
  <2>2. FoldUpTo(z, f, S, 0)
    BY <2>1 DEF FoldUpTo, FoldAt
  <2> QED BY <2>2
<1>3. ASSUME NEW k \in Nat, NEW g, FoldUpTo(g, f, S, k)
      PROVE  \E h : FoldUpTo(h, f, S, k + 1)
  <2>1. /\ g \in [SUBSET S -> Int]
        /\ \A s \in SUBSET S : Cardinality(s) <= k => g[s] = FoldAt(g, f, s)
    BY <1>3 DEF FoldUpTo
  <2> DEFINE h == [s \in SUBSET S |-> FoldAt(g, f, s)]
  <2>2. \A s \in SUBSET S : s # {} => Picked(s) \in S /\ s \ {Picked(s)} \in SUBSET S
    BY PickedIn
  <2>3. h \in [SUBSET S -> Int]
    BY <2>1, <2>2 DEF FoldAt
  <2>4. ASSUME NEW s \in SUBSET S, Cardinality(s) <= k + 1, s # {}
        PROVE  h[s \ {Picked(s)}] = g[s \ {Picked(s)}]
    <3> DEFINE r == s \ {Picked(s)}
    <3>1. r \in SUBSET S /\ Picked(s) \in s
      BY <2>4, PickedIn
    <3>2. Cardinality(r) = Cardinality(s) - 1
      BY <1>1, <2>4, <3>1, FS_RemoveElement
    <3>3. Cardinality(r) <= k
      BY <1>1, <2>4, <3>2
    <3> QED BY <2>1, <3>1, <3>3
  <2>5. \A s \in SUBSET S : Cardinality(s) <= k + 1 => h[s] = FoldAt(h, f, s)
    BY <2>4 DEF FoldAt
  <2>6. FoldUpTo(h, f, S, k + 1)
    BY <2>3, <2>5 DEF FoldUpTo
  <2> QED BY <2>6
<1>4. G = Nat
  <2>1. G \in SUBSET Nat /\ 0 \in G
    BY <1>2
  <2>2. \A k \in G : k + 1 \in G
    BY <1>3
  <2> HIDE DEF G
  <2> QED BY <2>1, <2>2, SetOfNaturals
<1> QED BY <1>4

LEMMA TotalFold ==
  ASSUME NEW S, IsFiniteSet(S), NEW f, \A e \in S : f[e] \in Int PROVE \E g : IsFold(g, f, S)
<1>1. Cardinality(S) \in Nat /\ \A s \in SUBSET S : Cardinality(s) <= Cardinality(S)
  BY FS_Subset, FS_CardinalityType
<1>2. PICK g : FoldUpTo(g, f, S, Cardinality(S))
  BY <1>1, PartialFold
<1>3. IsFold(g, f, S)
  BY <1>1, <1>2 DEF FoldUpTo, IsFold
<1> QED BY <1>3

\* Two folds of a finite set give every subset of it the same sum.
LEMMA OneFold ==
  ASSUME NEW f, NEW T, IsFiniteSet(T), NEW g, NEW h,
         \A s \in SUBSET T : g[s] = FoldAt(g, f, s), \A s \in SUBSET T : h[s] = FoldAt(h, f, s)
  PROVE  g[T] = h[T]
<1> DEFINE G == {s \in SUBSET T : g[s] = h[s]}
<1>1. ASSUME NEW s \in SUBSET T, \A x \in s : s \ {x} \in G PROVE s \in G
  <2>1. CASE s = {}
    BY <2>1 DEF FoldAt
  <2>2. CASE s # {}
    <3>1. g[s \ {Picked(s)}] = h[s \ {Picked(s)}]
      BY <1>1, <2>2, PickedIn
    <3> QED BY <2>2, <3>1 DEF FoldAt
  <2> QED BY <2>1, <2>2
<1>2. G = SUBSET T
  <2>1. G \in SUBSET (SUBSET T)
    OBVIOUS
  <2> HIDE DEF G
  <2> QED BY <1>1, <2>1, SubsetInduction
<1> QED BY <1>2

\* The sum of f over S, as a fold of S.
IsSumOf(g, f, S) == g = [s \in SUBSET S |-> FoldAt(g, f, s)]

LEMMA SumIsFold ==
  ASSUME NEW S, NEW f
  PROVE  SumFunctionOnSet(f, S) = (CHOOSE g : IsSumOf(g, f, S))[S]
BY DEF SumFunctionOnSet, FoldFunctionOnSet, MapThenFoldSet, IsSumOf, FoldAt, Picked

LEMMA FoldIsSum ==
  ASSUME NEW S, IsFiniteSet(S), NEW f, NEW g, IsFold(g, f, S), NEW T \in SUBSET S
  PROVE  SumFunctionOnSet(f, T) = g[T]
<1> DEFINE it == CHOOSE h : IsSumOf(h, f, T)
           k == [s \in SUBSET T |-> g[s]]
<1>1. IsFiniteSet(T)
  BY FS_Subset
<1>2. \A s \in SUBSET T : g[s] = FoldAt(g, f, s)
  BY DEF IsFold
<1>3. IsSumOf(k, f, T)
  <2>1. ASSUME NEW s \in SUBSET T PROVE k[s] = FoldAt(k, f, s)
    <3>1. k[s] = FoldAt(g, f, s)
      BY <1>2
    <3>2. s # {} => k[s \ {Picked(s)}] = g[s \ {Picked(s)}]
      BY PickedIn
    <3> QED BY <3>1, <3>2 DEF FoldAt
  <2> QED BY <2>1 DEF IsSumOf
<1>4. IsSumOf(it, f, T)
  <2> HIDE DEF k
  <2> QED BY <1>3
<1>5. \A s \in SUBSET T : it[s] = FoldAt(it, f, s)
  <2> HIDE DEF it
  <2> QED BY <1>4 DEF IsSumOf
<1>6. it[T] = g[T]
  <2> HIDE DEF it
  <2> QED BY <1>1, <1>2, <1>5, OneFold
<1> QED BY <1>6, SumIsFold

LEMMA SumsOfSubsets ==
  ASSUME NEW S, IsFiniteSet(S), NEW f, \A e \in S : f[e] \in Int
  PROVE  \E g : IsFold(g, f, S) /\ \A T \in SUBSET S : SumFunctionOnSet(f, T) = g[T]
BY TotalFold, FoldIsSum

-----------------------------------------------------------------------------
(* What the proofs use. *)

LEMMA SumEmpty == ASSUME NEW f PROVE SumFunctionOnSet(f, {}) = 0
<1> DEFINE it == CHOOSE h : IsSumOf(h, f, {})
           k == [s \in SUBSET {} |-> 0]
<1>1. IsSumOf(k, f, {})
  BY DEF IsSumOf, FoldAt
<1>2. IsSumOf(it, f, {})
  <2> HIDE DEF k
  <2> QED BY <1>1
<1>3. it[{}] = 0
  <2> HIDE DEF it
  <2> QED BY <1>2 DEF IsSumOf, FoldAt
<1> QED BY <1>3, SumIsFold

LEMMA SumInt ==
  ASSUME NEW S, IsFiniteSet(S), NEW f, \A e \in S : f[e] \in Int
  PROVE  SumFunctionOnSet(f, S) \in Int
<1>1. PICK g : IsFold(g, f, S) /\ \A U \in SUBSET S : SumFunctionOnSet(f, U) = g[U]
  BY SumsOfSubsets
<1>2. S \in SUBSET S
  OBVIOUS
<1> QED BY <1>1, <1>2 DEF IsFold

\* A sum may be taken from any of its elements.
LEMMA SumRemove ==
  ASSUME NEW S, IsFiniteSet(S), NEW f, \A e \in S : f[e] \in Int, NEW x \in S
  PROVE  SumFunctionOnSet(f, S) = f[x] + SumFunctionOnSet(f, S \ {x})
<1>1. PICK g : IsFold(g, f, S) /\ \A U \in SUBSET S : SumFunctionOnSet(f, U) = g[U]
  BY SumsOfSubsets
<1>2. g \in [SUBSET S -> Int] /\ \A s \in SUBSET S : g[s] = FoldAt(g, f, s)
  BY <1>1 DEF IsFold
<1> DEFINE G == {s \in SUBSET S : \A y \in s : g[s] = f[y] + g[s \ {y}]}
<1>3. ASSUME NEW s \in SUBSET S, \A y \in s : s \ {y} \in G PROVE s \in G
  <2> SUFFICES ASSUME NEW y \in s PROVE g[s] = f[y] + g[s \ {y}]
    OBVIOUS
  <2>1. PICK p \in s : g[s] = f[p] + g[s \ {p}]
    BY <1>2, PickedIn DEF FoldAt
  <2>2. CASE p = y
    BY <2>1, <2>2
  <2>3. CASE p # y
    <3> DEFINE a == f[p]  b == f[y]  c == g[(s \ {p}) \ {y}]
    <3>1. g[s \ {p}] = b + c
      BY <1>3, <2>1, <2>3
    <3>2. g[s \ {y}] = a + g[(s \ {y}) \ {p}]
      BY <1>3, <2>1, <2>3
    <3>3. (s \ {p}) \ {y} = (s \ {y}) \ {p}
      OBVIOUS
    <3>4. a \in Int /\ b \in Int /\ c \in Int
      BY <1>2, <2>1
    <3>5. g[s] = a + (b + c) /\ g[s \ {y}] = a + c
      BY <2>1, <3>1, <3>2, <3>3
    <3>6. g[s] = b + g[s \ {y}]
      <4> HIDE DEF a, b, c
      <4> QED BY <3>4, <3>5
    <3> QED BY <3>6
  <2> QED BY <2>2, <2>3
<1>4. G = SUBSET S
  <2>1. G \in SUBSET (SUBSET S)
    OBVIOUS
  <2> HIDE DEF G
  <2> QED BY <1>3, <2>1, SubsetInduction
<1>5. g[S] = f[x] + g[S \ {x}]
  BY <1>4
<1>6. S \in SUBSET S /\ S \ {x} \in SUBSET S
  OBVIOUS
<1> QED BY <1>1, <1>5, <1>6

\* A new element adds its own value.
LEMMA SumAdd ==
  ASSUME NEW S, IsFiniteSet(S), NEW x, x \notin S, NEW f, \A e \in S \cup {x} : f[e] \in Int
  PROVE  SumFunctionOnSet(f, S \cup {x}) = f[x] + SumFunctionOnSet(f, S)
<1>1. IsFiniteSet(S \cup {x})
  BY FS_AddElement
<1>2. (S \cup {x}) \ {x} = S
  OBVIOUS
<1>3. \A R : IsFiniteSet(R) /\ x \in R /\ (\A e \in R : f[e] \in Int)
        => SumFunctionOnSet(f, R) = f[x] + SumFunctionOnSet(f, R \ {x})
  BY SumRemove
<1> QED BY <1>1, <1>2, <1>3

\* A sum depends on the values its elements have, and on nothing else.
LEMMA SumAgree ==
  ASSUME NEW S, IsFiniteSet(S), NEW f, NEW h, \A e \in S : f[e] \in Int /\ h[e] = f[e]
  PROVE  SumFunctionOnSet(f, S) = SumFunctionOnSet(h, S)
<1> DEFINE G == {s \in SUBSET S : SumFunctionOnSet(f, s) = SumFunctionOnSet(h, s)}
<1>1. ASSUME NEW s \in SUBSET S, \A y \in s : s \ {y} \in G PROVE s \in G
  <2>1. IsFiniteSet(s)
    BY FS_Subset
  <2>2. CASE s = {}
    BY <2>2, SumEmpty
  <2>3. ASSUME NEW y \in s PROVE s \in G
    <3>1. SumFunctionOnSet(f, s) = f[y] + SumFunctionOnSet(f, s \ {y})
      BY <2>1, SumRemove
    <3>2. SumFunctionOnSet(h, s) = h[y] + SumFunctionOnSet(h, s \ {y})
      BY <2>1, SumRemove
    <3> QED BY <1>1, <3>1, <3>2
  <2> QED BY <2>2, <2>3
<1>2. G = SUBSET S
  <2>1. G \in SUBSET (SUBSET S)
    OBVIOUS
  <2> HIDE DEF G
  <2> QED BY <1>1, <2>1, SubsetInduction
<1> QED BY <1>2

\* The sum of two sets that share nothing is the sum of both.
LEMMA SumUnion ==
  ASSUME NEW S, IsFiniteSet(S), NEW R, IsFiniteSet(R), S \cap R = {},
         NEW f, \A e \in S \cup R : f[e] \in Int
  PROVE  SumFunctionOnSet(f, S \cup R) = SumFunctionOnSet(f, S) + SumFunctionOnSet(f, R)
<1> DEFINE sum(s) == SumFunctionOnSet(f, s)
           G == {s \in SUBSET R : sum(S \cup s) = sum(S) + sum(s)}
<1>0. \A s \in SUBSET R : IsFiniteSet(s) /\ IsFiniteSet(S \cup s)
  BY FS_Subset, FS_Union
<1>1. ASSUME NEW s \in SUBSET R, \A y \in s : s \ {y} \in G PROVE s \in G
  <2>1. CASE s = {}
    <3>1. sum(S) \in Int /\ sum({}) = 0 /\ S \cup {} = S
      BY SumEmpty, SumInt
    <3> QED BY <2>1, <3>1
  <2>2. ASSUME NEW y \in s PROVE s \in G
    <3>1. y \in S \cup s /\ (S \cup s) \ {y} = S \cup (s \ {y})
      OBVIOUS
    <3>2. sum(s) = f[y] + sum(s \ {y})
      BY <1>0, SumRemove
    <3>3. sum(S \cup s) = f[y] + sum((S \cup s) \ {y})
      BY <1>0, <3>1, SumRemove
    <3>4. sum(S \cup (s \ {y})) = sum(S) + sum(s \ {y})
      BY <1>1
    <3>5. sum(S) \in Int /\ sum(s \ {y}) \in Int /\ f[y] \in Int
      BY <1>0, SumInt
    <3> DEFINE a == f[y]  b == sum(S)  c == sum(s \ {y})  d == sum(s)  e == sum(S \cup s)
    <3>6. a \in Int /\ b \in Int /\ c \in Int /\ d = a + c /\ e = a + (b + c)
      BY <3>1, <3>2, <3>3, <3>4, <3>5
    <3>7. e = b + d
      <4> HIDE DEF a, b, c, d, e
      <4> QED BY <3>6
    <3> QED BY <3>7
  <2> QED BY <2>1, <2>2
<1>2. G = SUBSET R
  <2>1. G \in SUBSET (SUBSET R)
    OBVIOUS
  <2> HIDE DEF G
  <2> QED BY <1>1, <2>1, SubsetInduction
<1> QED BY <1>2

\* A sum of naturals is one, and at least each of its elements.
LEMMA SumNat ==
  ASSUME NEW S, IsFiniteSet(S), NEW f, \A e \in S : f[e] \in Nat
  PROVE  SumFunctionOnSet(f, S) \in Nat
<1> DEFINE G == {s \in SUBSET S : SumFunctionOnSet(f, s) \in Nat}
<1>1. ASSUME NEW s \in SUBSET S, \A y \in s : s \ {y} \in G PROVE s \in G
  <2>1. IsFiniteSet(s)
    BY FS_Subset
  <2>2. CASE s = {}
    BY <2>2, SumEmpty
  <2>3. ASSUME NEW y \in s PROVE s \in G
    <3>1. SumFunctionOnSet(f, s) = f[y] + SumFunctionOnSet(f, s \ {y})
      BY <2>1, SumRemove
    <3>2. SumFunctionOnSet(f, s \ {y}) \in Nat /\ f[y] \in Nat
      BY <1>1
    <3> QED BY <3>1, <3>2
  <2> QED BY <2>2, <2>3
<1>2. G = SUBSET S
  <2>1. G \in SUBSET (SUBSET S)
    OBVIOUS
  <2> HIDE DEF G
  <2> QED BY <1>1, <2>1, SubsetInduction
<1> QED BY <1>2

\* A sum is at most the sum of what bounds its terms.
LEMMA SumBelow ==
  ASSUME NEW S, IsFiniteSet(S), NEW f, NEW h, \A e \in S : f[e] \in Nat /\ h[e] \in Nat /\ f[e] <= h[e]
  PROVE  SumFunctionOnSet(f, S) <= SumFunctionOnSet(h, S)
<1> DEFINE G == {s \in SUBSET S : SumFunctionOnSet(f, s) <= SumFunctionOnSet(h, s)}
<1>1. ASSUME NEW s \in SUBSET S, \A y \in s : s \ {y} \in G PROVE s \in G
  <2>1. IsFiniteSet(s) /\ \A y \in s : IsFiniteSet(s \ {y})
    BY FS_Subset
  <2>2. CASE s = {}
    BY <2>2, SumEmpty
  <2>3. ASSUME NEW y \in s PROVE s \in G
    <3>1. /\ SumFunctionOnSet(f, s) = f[y] + SumFunctionOnSet(f, s \ {y})
          /\ SumFunctionOnSet(h, s) = h[y] + SumFunctionOnSet(h, s \ {y})
      BY <2>1, SumRemove
    <3>2. SumFunctionOnSet(f, s \ {y}) \in Nat /\ SumFunctionOnSet(h, s \ {y}) \in Nat
      BY <2>1, SumNat
    <3>3. SumFunctionOnSet(f, s \ {y}) <= SumFunctionOnSet(h, s \ {y}) /\ f[y] <= h[y] /\ f[y] \in Nat /\ h[y] \in Nat
      BY <1>1
    <3>4. SumFunctionOnSet(f, s) <= SumFunctionOnSet(h, s)
      BY <3>1, <3>2, <3>3
    <3> QED BY <3>4
  <2> QED BY <2>2, <2>3
<1>2. G = SUBSET S
  <2>1. G \in SUBSET (SUBSET S)
    OBVIOUS
  <2> HIDE DEF G
  <2> QED BY <1>1, <2>1, SubsetInduction
<1> QED BY <1>2

\* A part of a sum of naturals is at most the whole.
LEMMA SumSubset ==
  ASSUME NEW S, IsFiniteSet(S), NEW f, \A e \in S : f[e] \in Nat, NEW R, R \subseteq S
  PROVE  SumFunctionOnSet(f, R) <= SumFunctionOnSet(f, S)
<1>1. IsFiniteSet(R) /\ IsFiniteSet(S \ R) /\ R \cap (S \ R) = {} /\ R \cup (S \ R) = S
  BY FS_Subset
<1>2. \A A, B : IsFiniteSet(A) /\ IsFiniteSet(B) /\ A \cap B = {} /\ (\A e \in A \cup B : f[e] \in Int)
        => SumFunctionOnSet(f, A \cup B) = SumFunctionOnSet(f, A) + SumFunctionOnSet(f, B)
  BY SumUnion
<1>3. \A e \in S : f[e] \in Int
  OBVIOUS
<1>4. SumFunctionOnSet(f, S) = SumFunctionOnSet(f, R) + SumFunctionOnSet(f, S \ R)
  BY <1>1, <1>2, <1>3
<1>5. SumFunctionOnSet(f, R) \in Nat /\ SumFunctionOnSet(f, S \ R) \in Nat
  BY <1>1, SumNat
<1> QED BY <1>4, <1>5
\* The sum over the image of an injection is the sum over its domain.
LEMMA SumImage ==
  ASSUME NEW S, IsFiniteSet(S), NEW p, DOMAIN p = S, IsInjective(p),
         NEW f, NEW h, \A x \in S : f[x] \in Int /\ h[p[x]] = f[x]
  PROVE  SumFunctionOnSet(f, S) = SumFunctionOnSet(h, Range(p))
<1> DEFINE img(s) == {p[x] : x \in s}
           G == {s \in SUBSET S : SumFunctionOnSet(f, s) = SumFunctionOnSet(h, img(s))}
<1>0. \A x, y \in S : p[x] = p[y] => x = y
  BY DEF IsInjective
<1>1. ASSUME NEW s \in SUBSET S, \A y \in s : s \ {y} \in G PROVE s \in G
  <2>1. IsFiniteSet(s) /\ IsFiniteSet(img(s))
    <3>1. IsFiniteSet(s)
      BY FS_Subset
    <3>2. [x \in s |-> p[x]] \in Surjection(s, img(s))
      BY DEF Surjection
    <3> QED BY <3>1, <3>2, FS_Surjection
  <2>2. CASE s = {}
    <3>1. img(s) = {}
      BY <2>2
    <3> HIDE DEF img
    <3> QED BY <2>2, <3>1, SumEmpty
  <2>3. ASSUME NEW y \in s PROVE s \in G
    <3>1. SumFunctionOnSet(f, s) = f[y] + SumFunctionOnSet(f, s \ {y})
      BY <2>1, SumRemove
    <3>2. img(s) \ {p[y]} = img(s \ {y}) /\ p[y] \in img(s) /\ \A e \in img(s) : h[e] \in Int
      BY <1>0
    <3>3. SumFunctionOnSet(h, img(s)) = h[p[y]] + SumFunctionOnSet(h, img(s \ {y}))
      <4> HIDE DEF img
      <4>1. SumFunctionOnSet(h, img(s)) = h[p[y]] + SumFunctionOnSet(h, img(s) \ {p[y]})
        BY <2>1, <3>2, SumRemove
      <4> QED BY <3>2, <4>1
    <3>4. SumFunctionOnSet(f, s \ {y}) = SumFunctionOnSet(h, img(s \ {y}))
      BY <1>1
    <3> HIDE DEF img
    <3>5. SumFunctionOnSet(f, s) = SumFunctionOnSet(h, img(s))
      BY <3>1, <3>3, <3>4
    <3> QED BY <3>5
  <2> QED BY <2>2, <2>3
<1>2. G = SUBSET S
  <2>1. G \in SUBSET (SUBSET S)
    OBVIOUS
  <2> HIDE DEF G
  <2> QED BY <1>1, <2>1, SubsetInduction
<1>3. img(S) = Range(p)
  BY DEF Range
<1> QED BY <1>2, <1>3

\* A sum of opposite values is the opposite sum.
LEMMA SumOpposite ==
  ASSUME NEW S, IsFiniteSet(S), NEW f, NEW h, \A e \in S : f[e] \in Int /\ h[e] = -f[e]
  PROVE  SumFunctionOnSet(h, S) = -SumFunctionOnSet(f, S)
<1> DEFINE G == {s \in SUBSET S : SumFunctionOnSet(h, s) = -SumFunctionOnSet(f, s)}
<1>1. ASSUME NEW s \in SUBSET S, \A y \in s : s \ {y} \in G PROVE s \in G
  <2>1. IsFiniteSet(s)
    BY FS_Subset
  <2>2. CASE s = {}
    BY <2>2, SumEmpty
  <2>3. ASSUME NEW y \in s PROVE s \in G
    <3>1. SumFunctionOnSet(f, s) = f[y] + SumFunctionOnSet(f, s \ {y}) /\ SumFunctionOnSet(f, s \ {y}) \in Int
      BY <2>1, SumRemove, SumInt, FS_RemoveElement
    <3>2. SumFunctionOnSet(h, s) = h[y] + SumFunctionOnSet(h, s \ {y})
      BY <2>1, SumRemove
    <3> QED BY <1>1, <3>1, <3>2
  <2> QED BY <2>2, <2>3
<1>2. G = SUBSET S
  <2>1. G \in SUBSET (SUBSET S)
    OBVIOUS
  <2> HIDE DEF G
  <2> QED BY <1>1, <2>1, SubsetInduction
<1> QED BY <1>2

\* Ones and minus ones sum to the difference of their numbers.
LEMMA SumOfSigns ==
  ASSUME NEW S, IsFiniteSet(S), NEW f, NEW D \in SUBSET S, NEW C \in SUBSET S, D \cap C = {},
         \A e \in S : f[e] = IF e \in D THEN 1 ELSE IF e \in C THEN -1 ELSE 0
  PROVE  SumFunctionOnSet(f, S) = Cardinality(D) - Cardinality(C)
<1> DEFINE G == {s \in SUBSET S : SumFunctionOnSet(f, s) = Cardinality(D \cap s) - Cardinality(C \cap s)}
<1>1. ASSUME NEW s \in SUBSET S, \A y \in s : s \ {y} \in G PROVE s \in G
  <2>1. /\ IsFiniteSet(s) /\ IsFiniteSet(D \cap s) /\ IsFiniteSet(C \cap s)
        /\ Cardinality(D \cap s) \in Nat /\ Cardinality(C \cap s) \in Nat
    BY FS_Subset, FS_CardinalityType
  <2>2. CASE s = {}
    BY <2>2, SumEmpty, FS_EmptySet
  <2>3. ASSUME NEW y \in s PROVE s \in G
    <3>1. SumFunctionOnSet(f, s) = f[y] + SumFunctionOnSet(f, s \ {y})
      BY <2>1, SumRemove
    <3>2. D \cap (s \ {y}) = (D \cap s) \ {y} /\ C \cap (s \ {y}) = (C \cap s) \ {y}
      OBVIOUS
    <3>3. /\ Cardinality((D \cap s) \ {y}) = IF y \in D THEN Cardinality(D \cap s) - 1 ELSE Cardinality(D \cap s)
          /\ Cardinality((C \cap s) \ {y}) = IF y \in C THEN Cardinality(C \cap s) - 1 ELSE Cardinality(C \cap s)
      BY <2>1, FS_RemoveElement
    <3>4. SumFunctionOnSet(f, s \ {y}) = Cardinality((D \cap s) \ {y}) - Cardinality((C \cap s) \ {y})
      BY <1>1, <3>2
    <3>5. SumFunctionOnSet(f, s) = Cardinality(D \cap s) - Cardinality(C \cap s)
      BY <2>1, <3>1, <3>3, <3>4
    <3> QED BY <3>5
  <2> QED BY <2>2, <2>3
<1>2. G = SUBSET S
  <2>1. G \in SUBSET (SUBSET S)
    OBVIOUS
  <2> HIDE DEF G
  <2> QED BY <1>1, <2>1, SubsetInduction
<1>3. D \cap S = D /\ C \cap S = C
  OBVIOUS
<1> QED BY <1>2, <1>3
\* Nothing but zeros.
LEMMA SumZero ==
  ASSUME NEW S, IsFiniteSet(S), NEW f, \A e \in S : f[e] = 0
  PROVE  SumFunctionOnSet(f, S) = 0
<1>1. {} \in SUBSET S /\ {} \cap {} = {} /\ Cardinality({}) = 0
  BY FS_EmptySet
<1>2. \A e \in S : f[e] = IF e \in {} THEN 1 ELSE IF e \in {} THEN -1 ELSE 0
  OBVIOUS
<1>3. SumFunctionOnSet(f, S) = Cardinality({}) - Cardinality({})
  BY <1>1, <1>2, SumOfSigns
<1> QED BY <1>1, <1>3
=============================================================================
