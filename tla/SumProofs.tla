------------------------------ MODULE SumProofs ------------------------------
(***************************************************************************)
(* The sum of a function over a finite set: the lemmas about MapThenSumSet *)
(* that the proofs about SimRun (wins of a round) and Match (prizes due)   *)
(* need.  The sum is the value at S of a function t defined by recursion   *)
(* over the subsets of S.  That t exists, that it is unique and what its   *)
(* values are is shown by taking a minimal subset that is an exception.    *)
(***************************************************************************)
EXTENDS FiniteSetsExt, FiniteSetTheorems, WellFoundedInduction, TLAPS

Pick(s) == CHOOSE x \in s : TRUE

Total(f, S) == MapThenSumSet(LAMBDA x : f[x], S)

\* t solves the recursive equation of the sum on the subsets of S.
Sums(t, f, S) ==
    t = [s \in SUBSET S |-> IF s = {} THEN 0 ELSE f[Pick(s)] + t[s \ {Pick(s)}]]

LEMMA TotalIsSolution ==
  ASSUME NEW S, NEW f, \E t : Sums(t, f, S)
  PROVE  \E t : Sums(t, f, S) /\ Total(f, S) = t[S]
<1> DEFINE t == CHOOSE t : Sums(t, f, S)
<1>1. Sums(t, f, S)
  OBVIOUS
<1>2. Total(f, S) = t[S]
  BY Zenon DEF Total, MapThenSumSet, MapThenFoldSet, Pick, Sums
<1> QED BY <1>1, <1>2

LEMMA PickIsElement ==
  ASSUME NEW s, s # {}
  PROVE  Pick(s) \in s
  BY DEF Pick

\* A set of subsets that holds a subset whenever it holds all smaller ones
\* holds them all.
LEMMA AllSubsets ==
  ASSUME NEW S, IsFiniteSet(S), NEW T,
         \A s \in SUBSET S :
            (\A u \in SUBSET S : u \subseteq s /\ u # s => u \in T) => s \in T
  PROVE  \A s \in SUBSET S : s \in T
<1> DEFINE E == {s \in SUBSET S : s \notin T}
<1> SUFFICES ASSUME E # {} PROVE FALSE
  OBVIOUS
<1>1. FiniteSubsetsOf(S) = SUBSET S
  BY FS_FiniteSubsetsOfFinite
<1>2. IsWellFoundedOn(StrictSubsetOrdering(S), SUBSET S)
  <2>1. IsWellFoundedOn(StrictSubsetOrdering(S), FiniteSubsetsOf(S))
    BY FS_StrictSubsetOrderingWellFounded
  <2> HIDE DEF E
  <2> QED BY <1>1, <2>1, Zenon
<1>3. E \subseteq SUBSET S
  OBVIOUS
<1>4. PICK s \in E : \A u \in E : ~(<<u, s>> \in StrictSubsetOrdering(S))
  <2> HIDE DEF E
  <2> QED BY <1>2, <1>3, WFMin
<1>5. ASSUME NEW u \in SUBSET S, u \subseteq s, u # s PROVE u \in T
  <2>1. <<u, s>> \in StrictSubsetOrdering(S)
    BY <1>5 DEF StrictSubsetOrdering
  <2> QED BY <1>4, <2>1
<1> QED BY <1>4, <1>5

\* At most one solution, and solutions for a set are solutions for its
\* subsets.
LEMMA SumsUnique ==
  ASSUME NEW S, IsFiniteSet(S), NEW f, NEW t, Sums(t, f, S),
         NEW S2 \in SUBSET S, NEW t2, Sums(t2, f, S2)
  PROVE  \A s \in SUBSET S2 : t2[s] = t[s]
<1> DEFINE T == {s \in SUBSET S2 : t2[s] = t[s]}
<1>1. IsFiniteSet(S2)
  BY FS_Subset
<1>2. ASSUME NEW s \in SUBSET S2,
             \A u \in SUBSET S2 : u \subseteq s /\ u # s => u \in T
      PROVE  s \in T
  <2>1. s # {} => s \ {Pick(s)} \in T
    BY <1>2, PickIsElement
  <2>2. t[s] = IF s = {} THEN 0 ELSE f[Pick(s)] + t[s \ {Pick(s)}]
    BY DEF Sums
  <2>3. t2[s] = IF s = {} THEN 0 ELSE f[Pick(s)] + t2[s \ {Pick(s)}]
    BY DEF Sums
  <2> QED BY <2>1, <2>2, <2>3
<1>3. \A s \in SUBSET S2 : s \in T
  <2> HIDE DEF T
  <2> QED BY <1>1, <1>2, AllSubsets
<1> QED BY <1>3

LEMMA SumsExist ==
  ASSUME NEW S, IsFiniteSet(S), NEW f
  PROVE  \E t : Sums(t, f, S)
<1> DEFINE T == {s \in SUBSET S : \E t : Sums(t, f, s)}
<1>1. ASSUME NEW s \in SUBSET S,
             \A u \in SUBSET S : u \subseteq s /\ u # s => u \in T
      PROVE  s \in T
  <2> DEFINE of(u) == CHOOSE t : Sums(t, f, u)
             body(u) == IF u = {} THEN 0 ELSE f[Pick(u)] + of(u \ {Pick(u)})[u \ {Pick(u)}]
             t == [u \in SUBSET s |-> body(u)]
  <2>1. ASSUME NEW u \in SUBSET s, u # s PROVE Sums(of(u), f, u)
    BY <1>1, <2>1
  <2>2. ASSUME NEW u \in SUBSET s, u # s PROVE of(u)[u] = body(u)
    <3>1. of(u)[u] = IF u = {} THEN 0 ELSE f[Pick(u)] + of(u)[u \ {Pick(u)}]
      <4>1. Sums(of(u), f, u)
        BY <2>1, <2>2
      <4> HIDE DEF of
      <4> QED BY <4>1 DEF Sums
    <3>2. ASSUME u # {} PROVE of(u)[u \ {Pick(u)}] = of(u \ {Pick(u)})[u \ {Pick(u)}]
      <4> DEFINE v == u \ {Pick(u)}
      <4>1. v \in SUBSET u /\ v \in SUBSET s /\ v # s
        BY <3>2, PickIsElement
      <4>2. Sums(of(u), f, u) /\ Sums(of(v), f, v)
        BY <2>1, <2>2, <4>1
      <4>3. IsFiniteSet(u)
        BY FS_Subset
      <4> HIDE DEF v, of
      <4>4. of(v)[v] = of(u)[v]
        BY <4>1, <4>2, <4>3, SumsUnique
      <4> QED BY <4>4 DEF v
    <3> QED BY <3>1, <3>2
  <2>3. \A u \in SUBSET s : u # {} => u \ {Pick(u)} \in SUBSET s /\ u \ {Pick(u)} # s
    BY PickIsElement
  <2>4. \A u \in SUBSET s : t[u] = IF u = {} THEN 0 ELSE f[Pick(u)] + t[u \ {Pick(u)}]
    <3> TAKE u \in SUBSET s
    <3>1. t[u] = body(u)
      OBVIOUS
    <3>2. u # {} => t[u \ {Pick(u)}] = body(u \ {Pick(u)})
      BY <2>3
    <3>3. u # {} => body(u \ {Pick(u)}) = of(u \ {Pick(u)})[u \ {Pick(u)}]
      <4> HIDE DEF of, body
      <4> QED BY <2>2, <2>3
    <3> HIDE DEF of, t
    <3> QED BY <3>1, <3>2, <3>3
  <2>5. t = [u \in SUBSET s |-> t[u]]
    OBVIOUS
  <2>6. Sums(t, f, s)
    <3> HIDE DEF t
    <3> QED BY <2>4, <2>5 DEF Sums
  <2> QED BY <2>6
<1>2. \A s \in SUBSET S : s \in T
  <2> HIDE DEF T
  <2> QED BY <1>1, AllSubsets
<1> QED BY <1>2

LEMMA TotalRecursive ==
  ASSUME NEW S, IsFiniteSet(S), NEW f
  PROVE  \E t : Sums(t, f, S) /\ Total(f, S) = t[S]
  BY SumsExist, TotalIsSolution

LEMMA SumsAtNone ==
  ASSUME NEW S, NEW f, NEW t, Sums(t, f, S)
  PROVE  t[{}] = 0
  BY DEF Sums

LEMMA SumsAt ==
  ASSUME NEW S, NEW f, NEW t, Sums(t, f, S), NEW s \in SUBSET S, s # {}
  PROVE  t[s] = f[Pick(s)] + t[s \ {Pick(s)}]
  BY DEF Sums

\* A sum of numbers from 0 to M is a number from 0 to M for each element.
LEMMA TotalBounds ==
  ASSUME NEW S, IsFiniteSet(S), NEW M \in Nat, NEW f, \A x \in S : f[x] \in 0..M
  PROVE  Total(f, S) \in 0..(Cardinality(S) * M)
<1>1. PICK t : Sums(t, f, S) /\ Total(f, S) = t[S]
  BY TotalRecursive
<1> DEFINE T == {s \in SUBSET S : t[s] \in 0..(Cardinality(s) * M)}
<1>2. ASSUME NEW s \in SUBSET S,
             \A u \in SUBSET S : u \subseteq s /\ u # s => u \in T
      PROVE  s \in T
  <2>1. CASE s = {}
    <3>1. Cardinality(s) = 0
      BY <2>1, FS_EmptySet
    <3>2. t[s] = 0
      BY <1>1, <2>1, SumsAtNone
    <3> QED BY <2>1, <3>1, <3>2
  <2>2. CASE s # {}
    <3> DEFINE u == s \ {Pick(s)}
               n == Cardinality(u)
    <3>1. Pick(s) \in s /\ u \in SUBSET S /\ u \subseteq s /\ u # s
      BY <2>2, PickIsElement
    <3>2. IsFiniteSet(s)
      BY FS_Subset
    <3>3. n \in Nat /\ Cardinality(s) = n + 1
      <4>1. n = Cardinality(s) - 1
        BY <3>1, <3>2, FS_RemoveElement
      <4>2. n \in Nat /\ Cardinality(s) \in Nat
        BY <3>2, FS_RemoveElement, FS_CardinalityType
      <4> HIDE DEF n
      <4> QED BY <4>1, <4>2
    <3>4. t[u] \in 0..(n * M)
      BY <1>2, <3>1
    <3>5. t[s] = f[Pick(s)] + t[u] /\ f[Pick(s)] \in 0..M
      BY <1>1, <2>2, <3>1, SumsAt
    <3>6. (n + 1) * M = n * M + M /\ n * M \in Nat
      BY <3>3
    <3> HIDE DEF u, n
    <3>7. t[s] \in 0..((n + 1) * M)
      BY <3>3, <3>4, <3>5, <3>6
    <3> QED BY <3>3, <3>7
  <2> QED BY <2>1, <2>2
<1>3. \A s \in SUBSET S : s \in T
  <2> HIDE DEF T
  <2> QED BY <1>2, AllSubsets
<1> QED BY <1>1, <1>3

\* f and g are integers on S and differ at c, if at all.
Differ(f, g, S, c) ==
    /\ IsFiniteSet(S)
    /\ \A x \in S : f[x] \in Int /\ g[x] \in Int
    /\ \A x \in S \ {c} : g[x] = f[x]

\* A sum of integers is an integer, and it changes by what one summand
\* changes by.
LEMMA TotalChange ==
  ASSUME NEW S, NEW c, NEW f, NEW g, Differ(f, g, S, c)
  PROVE  /\ Total(f, S) \in Int
         /\ Total(g, S) = Total(f, S) + (IF c \in S THEN g[c] - f[c] ELSE 0)
<1>0. /\ IsFiniteSet(S)
      /\ \A x \in S : f[x] \in Int /\ g[x] \in Int
      /\ \A x \in S \ {c} : g[x] = f[x]
  BY DEF Differ
<1> USE <1>0
<1>1. PICK t : Sums(t, f, S) /\ Total(f, S) = t[S]
  BY TotalRecursive
<1>2. PICK v : Sums(v, g, S) /\ Total(g, S) = v[S]
  BY TotalRecursive
<1> DEFINE T == {s \in SUBSET S : /\ t[s] \in Int
                                  /\ v[s] = t[s] + (IF c \in s THEN g[c] - f[c] ELSE 0)}
<1>3. ASSUME NEW s \in SUBSET S,
             \A u \in SUBSET S : u \subseteq s /\ u # s => u \in T
      PROVE  s \in T
  <2>1. CASE s = {}
    <3>1. t[s] = 0
      BY <1>1, <2>1, SumsAtNone
    <3>2. v[s] = 0
      BY <1>2, <2>1, SumsAtNone
    <3> QED BY <2>1, <3>1, <3>2
  <2>2. CASE s # {}
    <3> DEFINE p == Pick(s)
               u == s \ {p}
    <3>1. p \in s /\ u \in SUBSET S /\ u \subseteq s /\ u # s
      BY <2>2, PickIsElement
    <3>2. u \in T
      BY <1>3, <3>1
    <3>3. t[s] = f[p] + t[u] /\ v[s] = g[p] + v[u]
      <4>1. t[s] = f[Pick(s)] + t[s \ {Pick(s)}]
        BY <1>1, <2>2, SumsAt
      <4>2. v[s] = g[Pick(s)] + v[s \ {Pick(s)}]
        <5>1. Sums(v, g, S) /\ s \in SUBSET S /\ s # {}
          BY <1>2, <2>2
        <5> HIDE DEF T, p, u
        <5> QED BY ONLY <5>1, SumsAt
      <4> QED BY <4>1, <4>2
    <3>4. f[p] \in Int /\ g[p] \in Int /\ p \in S /\ (p # c => g[p] = f[p])
      BY <3>1
    <3>5. c \in u <=> c \in s /\ c # p
      OBVIOUS
    <3> HIDE DEF u, p
    <3>6. t[u] \in Int /\ v[u] = t[u] + (IF c \in u THEN g[c] - f[c] ELSE 0)
      BY <3>2
    <3>7. t[s] \in Int /\ v[s] = t[s] + (IF c \in s THEN g[c] - f[c] ELSE 0)
      <4>1. c \in s => c \in S
        OBVIOUS
      <4> QED BY <3>1, <3>3, <3>4, <3>5, <3>6, <4>1
    <3> QED BY <3>7
  <2> QED BY <2>1, <2>2
<1>4. \A s \in SUBSET S : s \in T
  <2> HIDE DEF T
  <2> QED BY <1>3, AllSubsets
<1> QED BY <1>1, <1>2, <1>4
=============================================================================
