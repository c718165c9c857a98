---------------------------- MODULE SumTheorems ----------------------------
(***************************************************************************)
(* Facts about natural numbers, finite sets and sums over them that the    *)
(* proofs about the summaries and the counters share.                      *)
(***************************************************************************)
EXTENDS FiniteSetTheorems, TLAPS

\* A set of natural numbers that is not empty has a least element.
LEMMA LeastNumber ==
    ASSUME NEW T \in SUBSET Nat, T # {}
    PROVE  \E n \in T : \A m \in T : n <= m
<1> DEFINE R == OpToRel(<, Nat)
<1>1. IsWellFoundedOn(R, Nat)
  BY NatLessThanWellFounded
<1>2. R = {p \in Nat \X Nat : p[1] < p[2]}
  BY DEF OpToRel
<1> HIDE DEF R
<1>3. PICK x \in T : \A y \in T : ~ (<<y, x>> \in R)
  BY <1>1, WFMin
<1>4. \A y \in T : ~(y < x)
  BY <1>2, <1>3
<1> QED
  BY <1>4

\* Induction, said of a set of numbers.
LEMMA NumbersReached ==
    ASSUME NEW S \in SUBSET Nat, 0 \in S, \A n \in S : n + 1 \in S
    PROVE  S = Nat
<1> SUFFICES ASSUME Nat \ S # {} PROVE FALSE
  OBVIOUS
<1>1. PICK n \in Nat \ S : \A m \in Nat \ S : n <= m
  BY LeastNumber
<1>2. n - 1 \in Nat /\ n - 1 \in S
  BY <1>1
<1> QED
  BY <1>1, <1>2

\* Among subsets of a finite set there is one from which no element can be taken
\* such that it stays among them.
LEMMA SmallestSet ==
    ASSUME NEW U, IsFiniteSet(U), NEW B \in SUBSET (SUBSET U), B # {}
    PROVE  \E s \in B : \A x \in s : s \ {x} \notin B
<1>1. IsWellFoundedOn(StrictSubsetOrdering(U), FiniteSubsetsOf(U))
  BY FS_StrictSubsetOrderingWellFounded
<1>2. FiniteSubsetsOf(U) = SUBSET U
  BY FS_FiniteSubsetsOfFinite
<1>3. PICK s \in B : \A t \in B : <<t, s>> \notin StrictSubsetOrdering(U)
  BY <1>1, <1>2, WFMin
<1>4. ASSUME NEW x \in s, s \ {x} \in B PROVE FALSE
  <2>1. s \ {x} \in SUBSET U /\ s \in SUBSET U /\ s \ {x} \subseteq s /\ s \ {x} # s
    BY <1>4
  <2> QED
    BY <1>3, <1>4, <2>1 DEF StrictSubsetOrdering
<1> QED
  BY <1>4

-----------------------------------------------------------------------------
Some(s) == CHOOSE x \in s : TRUE

\* The sum of v over each subset of U, if g is right about the smaller ones.
SumStep(g, v, U) ==
    [s \in SUBSET U |-> IF s = {} THEN 0 ELSE v[Some(s)] + g[s \ {Some(s)}]]

Sums(g, v, U) == g = SumStep(g, v, U)

SumsUpTo(n, g, v, U) ==
    \A s \in SUBSET U : Cardinality(s) <= n => g[s] = SumStep(g, v, U)[s]

LEMMA SomeIn == ASSUME NEW s, s # {} PROVE Some(s) \in s
BY DEF Some

LEMMA SumStepType ==
    ASSUME NEW U, NEW v, \A x \in U : v[x] \in Int, NEW g \in [SUBSET U -> Int]
    PROVE  SumStep(g, v, U) \in [SUBSET U -> Int]
BY SomeIn DEF SumStep

\* What taking one element away does to a subset of a finite set.
LEMMA SubsetSizes ==
    ASSUME NEW U, IsFiniteSet(U), NEW s \in SUBSET U
    PROVE  /\ IsFiniteSet(s) /\ Cardinality(s) \in Nat /\ Cardinality(s) <= Cardinality(U)
           /\ Cardinality(s) = 0 <=> s = {}
           /\ s # {} => Cardinality(s \ {Some(s)}) = Cardinality(s) - 1
BY FS_Subset, FS_CardinalityType, FS_EmptySet, FS_RemoveElement, SomeIn

\* There is such a function of sums: from one that is right up to a size, the step
\* makes one that is right up to the next size.
LEMMA SumsExist ==
    ASSUME NEW U, IsFiniteSet(U), NEW v, \A x \in U : v[x] \in Int
    PROVE  \E g \in [SUBSET U -> Int] : Sums(g, v, U)
<1> DEFINE N == {n \in Nat : \E g \in [SUBSET U -> Int] : SumsUpTo(n, g, v, U)}
<1>1. 0 \in N
  <2> DEFINE zero == [s \in SUBSET U |-> 0]
  <2>1. zero \in [SUBSET U -> Int]
    OBVIOUS
  <2>2. ASSUME NEW s \in SUBSET U, Cardinality(s) <= 0 PROVE zero[s] = SumStep(zero, v, U)[s]
    <3>1. Cardinality(s) \in Nat /\ (Cardinality(s) = 0 <=> s = {})
      BY SubsetSizes
    <3>2. s = {}
      BY <2>2, <3>1
    <3> QED
      BY <3>2 DEF SumStep
  <2>3. SumsUpTo(0, zero, v, U)
    BY <2>2 DEF SumsUpTo
  <2> QED
    BY <2>1, <2>3
<1>2. ASSUME NEW n \in N PROVE n + 1 \in N
  <2>1. PICK g \in [SUBSET U -> Int] : SumsUpTo(n, g, v, U)
    OBVIOUS
  <2> DEFINE h == SumStep(g, v, U)
  <2>2. ASSUME NEW s \in SUBSET U, Cardinality(s) <= n + 1 PROVE h[s] = SumStep(h, v, U)[s]
    <3>1. CASE s = {}
      BY <3>1 DEF SumStep
    <3>2. CASE s # {}
      <4>1. s \ {Some(s)} \in SUBSET U /\ Cardinality(s \ {Some(s)}) <= n
        BY <2>2, <3>2, SubsetSizes
      <4>2. g[s \ {Some(s)}] = h[s \ {Some(s)}]
        BY <2>1, <4>1 DEF SumsUpTo
      <4> QED
        BY <3>2, <4>2, <4>1 DEF SumStep
    <3> QED
      BY <3>1, <3>2
  <2>3. h \in [SUBSET U -> Int]
    BY SumStepType
  <2>4. SumsUpTo(n + 1, h, v, U)
    BY <2>2 DEF SumsUpTo
  <2>5. \E f \in [SUBSET U -> Int] : SumsUpTo(n + 1, f, v, U)
    BY <2>3, <2>4
  <2>6. n + 1 \in Nat
    OBVIOUS
  <2> QED
    BY <2>5, <2>6
<1>3. N \in SUBSET Nat
  OBVIOUS
<1>4. N = Nat
  <2> HIDE DEF N
  <2> QED
    BY <1>1, <1>2, <1>3, NumbersReached
<1>5. Cardinality(U) \in Nat
  BY FS_CardinalityType
<1>6. PICK g \in [SUBSET U -> Int] : SumsUpTo(Cardinality(U), g, v, U)
  BY <1>4, <1>5
<1>7. ASSUME NEW s \in SUBSET U PROVE g[s] = SumStep(g, v, U)[s]
  BY <1>6, SubsetSizes DEF SumsUpTo
<1> DEFINE h == SumStep(g, v, U)
<1>8. h \in [SUBSET U -> Int]
  BY SumStepType
<1>9. g = h
  <2> HIDE DEF h
  <2>1. \A s \in SUBSET U : g[s] = h[s]
    BY <1>7 DEF h
  <2> QED
    BY <1>8, <2>1
<1> QED
  BY <1>9 DEF Sums

\* SumFunctionOnSet is one of them, taken at the whole set.
LEMMA SumIsSums ==
    ASSUME NEW U, IsFiniteSet(U), NEW v, \A x \in U : v[x] \in Int
    PROVE  \E g \in [SUBSET U -> Int] : Sums(g, v, U) /\ SumFunctionOnSet(v, U) = g[U]
<1>1. PICK h \in [SUBSET U -> Int] : Sums(h, v, U)
  BY SumsExist
<1> DEFINE g == CHOOSE iter : Sums(iter, v, U)
<1>2. SumFunctionOnSet(v, U) = g[U]
  BY DEF SumFunctionOnSet, FoldFunctionOnSet, MapThenFoldSet, Sums, SumStep, Some
<1>3. Sums(g, v, U)
  BY <1>1
<1>4. g = [s \in SUBSET U |-> g[s]]
  BY <1>3 DEF Sums, SumStep
<1> HIDE DEF g
\* Any such function agrees with h, which has integers for values.
<1>5. \A s \in SUBSET U : g[s] = h[s]
  <2> DEFINE B == {s \in SUBSET U : g[s] # h[s]}
  <2> SUFFICES ASSUME B # {} PROVE FALSE
    OBVIOUS
  <2>1. PICK s \in B : \A x \in s : s \ {x} \notin B
    <3>1. B \in SUBSET (SUBSET U)
      OBVIOUS
    <3> HIDE DEF B
    <3> QED
      BY <3>1, SmallestSet
  <2>2. CASE s = {}
    BY <2>2, <1>1, <1>3 DEF Sums, SumStep
  <2>3. CASE s # {}
    <3>1. s \ {Some(s)} \in SUBSET U /\ g[s \ {Some(s)}] = h[s \ {Some(s)}]
      BY <2>1, <2>3, SomeIn
    <3> QED
      BY <3>1, <2>3, <1>1, <1>3 DEF Sums, SumStep
  <2> QED
    BY <2>2, <2>3
<1>6. g \in [SUBSET U -> Int]
  BY <1>4, <1>5
<1> QED
  BY <1>2, <1>3, <1>6

\* Two functions of sums agree where they are both defined and add the same values.
LEMMA SumsAgree ==
    ASSUME NEW U, IsFiniteSet(U), NEW V \in SUBSET U, NEW v, NEW w, \A x \in V : v[x] = w[x],
           NEW g, Sums(g, v, U), NEW h, Sums(h, w, V), NEW s \in SUBSET V
    PROVE  g[s] = h[s]
<1> DEFINE B == {t \in SUBSET V : g[t] # h[t]}
<1> SUFFICES ASSUME B # {} PROVE FALSE
  OBVIOUS
<1>1. PICK t \in B : \A x \in t : t \ {x} \notin B
  <2>1. B \in SUBSET (SUBSET V) /\ IsFiniteSet(V)
    BY FS_Subset
  <2> HIDE DEF B
  <2> QED
    BY <2>1, SmallestSet
<1>2. CASE t = {}
  BY <1>1, <1>2 DEF Sums, SumStep
<1>3. CASE t # {}
  <2>1. Some(t) \in t /\ t \ {Some(t)} \in SUBSET V
    BY <1>3, SomeIn
  <2>2. g[t \ {Some(t)}] = h[t \ {Some(t)}]
    BY <1>1, <2>1
  <2>3. v[Some(t)] = w[Some(t)]
    BY <1>1, <2>1
  <2>4. g[t] = v[Some(t)] + g[t \ {Some(t)}]
    BY <1>1, <1>3 DEF Sums, SumStep
  <2>5. h[t] = w[Some(t)] + h[t \ {Some(t)}]
    BY <1>1, <1>3 DEF Sums, SumStep
  <2> QED
    BY <1>1, <2>2, <2>3, <2>4, <2>5
<1> QED
  BY <1>2, <1>3

TakesAny(g, v, U) == \A s \in SUBSET U : \A x \in s : g[s] = v[x] + g[s \ {x}]

\* The order in which the elements are taken does not matter.
LEMMA SumsTakeAny ==
    ASSUME NEW U, IsFiniteSet(U), NEW v, \A x \in U : v[x] \in Int,
           NEW g \in [SUBSET U -> Int], Sums(g, v, U)
    PROVE  TakesAny(g, v, U)
<1> DEFINE B == {t \in SUBSET U : \E y \in t : g[t] # v[y] + g[t \ {y}]}
<1> SUFFICES ASSUME B # {} PROVE FALSE
  BY DEF TakesAny
<1>1. PICK t \in B : \A y \in t : t \ {y} \notin B
  <2>1. B \in SUBSET (SUBSET U)
    OBVIOUS
  <2> HIDE DEF B
  <2> QED
    BY <2>1, SmallestSet
<1>2. PICK y \in t : g[t] # v[y] + g[t \ {y}]
  BY <1>1
<1> DEFINE z == Some(t)
<1>3. z \in t /\ t \in SUBSET U
  BY <1>2, SomeIn
<1>4. g[t] = v[z] + g[t \ {z}]
  BY <1>3 DEF Sums, SumStep
<1> HIDE DEF z
<1>5. y # z
  BY <1>2, <1>4
<1>6. g[t \ {z}] = v[y] + g[(t \ {z}) \ {y}]
  BY <1>1, <1>2, <1>3, <1>5
<1>7. g[t \ {y}] = v[z] + g[(t \ {y}) \ {z}]
  BY <1>1, <1>2, <1>3, <1>5
<1>8. (t \ {z}) \ {y} = (t \ {y}) \ {z} /\ (t \ {y}) \ {z} \in SUBSET U
  BY <1>3
<1>9. v[y] \in Int /\ v[z] \in Int /\ g[(t \ {y}) \ {z}] \in Int
  BY <1>2, <1>3, <1>8
<1> DEFINE a == v[y]  b == v[z]  c == g[(t \ {y}) \ {z}]
<1>10. g[t] = b + (a + c) /\ g[t \ {y}] = b + c
  BY <1>4, <1>6, <1>7, <1>8
<1>11. a \in Int /\ b \in Int /\ c \in Int
  BY <1>9
<1>12. g[t] # a + (b + c)
  BY <1>2, <1>10
<1> HIDE DEF a, b, c
<1> QED
  BY <1>10, <1>11, <1>12

-----------------------------------------------------------------------------
\* The sum over nothing is zero.
LEMMA SumOfNone == ASSUME NEW v PROVE SumFunctionOnSet(v, {}) = 0
<1>1. IsFiniteSet({}) /\ \A x \in {} : v[x] \in Int
  BY FS_EmptySet
<1>2. PICK g \in [SUBSET {} -> Int] : Sums(g, v, {}) /\ SumFunctionOnSet(v, {}) = g[{}]
  BY <1>1, SumIsSums
<1> QED
  BY <1>2 DEF Sums, SumStep

\* A sum of integers is an integer, and every element contributes its value once.
LEMMA SumWithout ==
    ASSUME NEW U, IsFiniteSet(U), NEW v, \A y \in U : v[y] \in Int, NEW x \in U
    PROVE  /\ SumFunctionOnSet(v, U \ {x}) \in Int
           /\ SumFunctionOnSet(v, U) = v[x] + SumFunctionOnSet(v, U \ {x})
<1> DEFINE V == U \ {x}
<1>1. IsFiniteSet(V) /\ V \in SUBSET U /\ \A y \in V : v[y] \in Int
  BY FS_Subset
<1>2. PICK g \in [SUBSET U -> Int] : Sums(g, v, U) /\ SumFunctionOnSet(v, U) = g[U]
  BY SumIsSums
<1> HIDE DEF V
<1>3. PICK h \in [SUBSET V -> Int] : Sums(h, v, V) /\ SumFunctionOnSet(v, V) = h[V]
  BY <1>1, SumIsSums
<1>4. g[V] = h[V]
  BY <1>1, <1>2, <1>3, SumsAgree
<1>5. g[U] = v[x] + g[V]
  <2>1. TakesAny(g, v, U)
    BY <1>2, SumsTakeAny
  <2> QED
    BY <2>1 DEF TakesAny, V
<1>6. h[V] \in Int
  BY <1>3
<1> QED
  BY <1>2, <1>3, <1>4, <1>5, <1>6 DEF V

LEMMA SumType ==
    ASSUME NEW U, IsFiniteSet(U), NEW v, \A x \in U : v[x] \in Int
    PROVE  SumFunctionOnSet(v, U) \in Int
<1>1. PICK g \in [SUBSET U -> Int] : Sums(g, v, U) /\ SumFunctionOnSet(v, U) = g[U]
  BY SumIsSums
<1> QED
  BY <1>1

\* Only the values on the set matter.
LEMMA SumSame ==
    ASSUME NEW U, IsFiniteSet(U), NEW v, \A x \in U : v[x] \in Int, NEW w, \A x \in U : v[x] = w[x]
    PROVE  SumFunctionOnSet(v, U) = SumFunctionOnSet(w, U)
<1>1. PICK g \in [SUBSET U -> Int] : Sums(g, v, U) /\ SumFunctionOnSet(v, U) = g[U]
  BY SumIsSums
<1>2. \A x \in U : w[x] \in Int
  OBVIOUS
<1>3. PICK h \in [SUBSET U -> Int] : Sums(h, w, U) /\ SumFunctionOnSet(w, U) = h[U]
  BY <1>2, SumIsSums
<1>4. g[U] = h[U]
  BY <1>1, <1>3, SumsAgree
<1> QED
  BY <1>1, <1>3, <1>4

\* A new element adds its value.
LEMMA SumWith ==
    ASSUME NEW U, IsFiniteSet(U), NEW v, \A y \in U : v[y] \in Int, NEW x, x \notin U, v[x] \in Int
    PROVE  SumFunctionOnSet(v, U \cup {x}) = SumFunctionOnSet(v, U) + v[x]
<1> DEFINE V == U \cup {x}
<1>1. IsFiniteSet(V) /\ x \in V /\ V \ {x} = U /\ \A y \in V : v[y] \in Int
  BY FS_AddElement
<1> HIDE DEF V
<1>2. SumFunctionOnSet(v, U) \in Int /\ SumFunctionOnSet(v, V) = v[x] + SumFunctionOnSet(v, U)
  BY <1>1, SumWithout
<1> QED
  BY <1>2 DEF V

\* Changing one value by d changes the sum by d.
LEMMA SumChanged ==
    ASSUME NEW U, IsFiniteSet(U), NEW v, \A y \in U : v[y] \in Int, NEW w, NEW x \in U, NEW d \in Int,
           w[x] = v[x] + d, \A y \in U \ {x} : w[y] = v[y]
    PROVE  SumFunctionOnSet(w, U) = SumFunctionOnSet(v, U) + d
<1>1. /\ SumFunctionOnSet(v, U \ {x}) \in Int
      /\ SumFunctionOnSet(v, U) = v[x] + SumFunctionOnSet(v, U \ {x})
  BY SumWithout
<1>2. \A y \in U : w[y] \in Int
  OBVIOUS
<1>3. SumFunctionOnSet(w, U) = w[x] + SumFunctionOnSet(w, U \ {x})
  BY <1>2, SumWithout
<1>4. SumFunctionOnSet(v, U \ {x}) = SumFunctionOnSet(w, U \ {x})
  <2>1. IsFiniteSet(U \ {x})
    BY FS_Subset
  <2> QED
    BY <2>1, SumSame
<1> QED
  BY <1>1, <1>3, <1>4

\* A sum does not depend on what its elements are called.
LEMMA SumRenamed ==
    ASSUME NEW U, IsFiniteSet(U), NEW w, \A x \in U : w[x] \in Int,
           NEW f, \A x, y \in U : f[x] = f[y] => x = y, NEW v, \A x \in U : v[f[x]] = w[x]
    PROVE  SumFunctionOnSet(v, {f[x] : x \in U}) = SumFunctionOnSet(w, U)
<1> DEFINE Renamed(t) == {f[x] : x \in t}
           Equal(t) == /\ IsFiniteSet(Renamed(t))
                       /\ SumFunctionOnSet(v, Renamed(t)) = SumFunctionOnSet(w, t)
           B == {t \in SUBSET U : ~Equal(t)}
<1> SUFFICES ASSUME B # {} PROVE FALSE
  OBVIOUS
<1>1. PICK t \in B : \A x \in t : t \ {x} \notin B
  BY SmallestSet
<1>2. Renamed({}) = {}
  OBVIOUS
<1>3. t # {}
  <2>1. Equal({})
    BY <1>2, SumOfNone, FS_EmptySet
  <2> QED
    BY <1>1, <2>1
<1>4. PICK x \in t : TRUE
  BY <1>3
<1> DEFINE r == t \ {x}
<1>5. /\ IsFiniteSet(t) /\ IsFiniteSet(r) /\ r \in SUBSET U /\ x \notin r
      /\ \A y \in r : w[y] \in Int
  BY <1>1, FS_Subset
<1>6. SumFunctionOnSet(w, r) \in Int /\ SumFunctionOnSet(w, t) = w[x] + SumFunctionOnSet(w, r)
  BY <1>1, <1>4, <1>5, SumWithout
<1>7. Equal(r)
  BY <1>1, <1>4, <1>5
<1>8. Renamed(t) = Renamed(r) \cup {f[x]} /\ f[x] \notin Renamed(r)
  BY <1>1, <1>4
<1>9. IsFiniteSet(Renamed(r)) /\ IsFiniteSet(Renamed(t))
  <2>1. IsFiniteSet(Renamed(r))
    BY <1>7
  <2>2. IsFiniteSet(Renamed(r) \cup {f[x]})
    BY <2>1, FS_AddElement
  <2> QED
    BY <1>8, <2>1, <2>2
<1>10. /\ \A z \in Renamed(r) : v[z] \in Int
       /\ v[f[x]] = w[x] /\ w[x] \in Int
  BY <1>1, <1>4, <1>5
<1>11. SumFunctionOnSet(v, Renamed(t)) = SumFunctionOnSet(v, Renamed(r)) + v[f[x]]
  <2> DEFINE z == f[x]  V == Renamed(r)
  <2>1. IsFiniteSet(V) /\ (\A y \in V : v[y] \in Int) /\ z \notin V /\ v[z] \in Int
    BY <1>8, <1>9, <1>10
  <2> HIDE DEF z, V
  <2>2. SumFunctionOnSet(v, V \cup {z}) = SumFunctionOnSet(v, V) + v[z]
    BY <2>1, SumWith
  <2> QED
    BY <1>8, <2>2 DEF z, V
<1> QED
  BY <1>1, <1>6, <1>7, <1>9, <1>10, <1>11

\* Nothing but zeros adds up to zero.
LEMMA SumOfZeros ==
    ASSUME NEW U, IsFiniteSet(U), NEW v, \A x \in U : v[x] = 0
    PROVE  SumFunctionOnSet(v, U) = 0
<1>1. \A x \in U : v[x] \in Int
  OBVIOUS
<1>2. PICK g \in [SUBSET U -> Int] : Sums(g, v, U) /\ SumFunctionOnSet(v, U) = g[U]
  BY <1>1, SumIsSums
<1> DEFINE B == {t \in SUBSET U : g[t] # 0}
<1> SUFFICES ASSUME B # {} PROVE FALSE
  BY <1>2
<1>3. PICK t \in B : \A x \in t : t \ {x} \notin B
  BY SmallestSet
<1>4. t # {}
  BY <1>2 DEF Sums, SumStep
<1>5. PICK x \in t : TRUE
  BY <1>4
<1>6. g[t] = v[x] + g[t \ {x}]
  <2>1. TakesAny(g, v, U)
    BY <1>1, <1>2, SumsTakeAny
  <2> QED
    BY <1>3, <2>1 DEF TakesAny
<1>7. v[x] = 0 /\ g[t \ {x}] = 0
  BY <1>3, <1>5
<1> QED
  BY <1>3, <1>6, <1>7
=============================================================================
