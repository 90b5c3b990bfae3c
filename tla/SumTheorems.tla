----------------------------- MODULE SumTheorems -----------------------------
(*****************************************************************************)
(* Facts about SumFunctionOnSet (community module Functions) that the proofs *)
(* about equity, positions and what is held at an exchange rest on, and about*)
(* sublists, for those about clients and tables.                             *)
(*                                                                           *)
(* The library's induction theorems take the induction hypothesis as an      *)
(* operator.  Here induction is done with sets: the subsets of a finite set  *)
(* that violate a claim have a minimal member, and a minimal member leads to *)
(* a contradiction.                                                          *)
(*****************************************************************************)
EXTENDS Integers, Sequences, FiniteSets, Functions, Sublists, FiniteSetTheorems, WellFoundedInduction, TLAPS

(* Induction on the subsets of a finite set: a claim that holds of a set as soon
   as it holds of its strict subsets holds of all.  Good is the set of those of
   which it holds.                                                           *)
LEMMA SubsetInduction ==
    ASSUME NEW S, IsFiniteSet(S), NEW Good,
           \A s \in SUBSET S : (\A u \in SUBSET s : u # s => u \in Good) => s \in Good
    PROVE  \A s \in SUBSET S : s \in Good
<1> DEFINE Bad == (SUBSET S) \ Good
<1> SUFFICES ASSUME Bad # {} PROVE FALSE
  OBVIOUS
<1>1. IsWellFoundedOn(StrictSubsetOrdering(S), SUBSET S)
  <2>1. FiniteSubsetsOf(S) = SUBSET S
    BY FS_FiniteSubsetsOfFinite
  <2>2. IsWellFoundedOn(StrictSubsetOrdering(S), FiniteSubsetsOf(S))
    BY FS_StrictSubsetOrderingWellFounded
  <2> QED
    BY <2>1, <2>2
<1>2. Bad \subseteq SUBSET S
  OBVIOUS
<1>3. \E m \in Bad : \A u \in Bad : ~ (<<u, m>> \in StrictSubsetOrdering(S))
  <2> HIDE DEF Bad
  <2> QED
    BY <1>1, <1>2, WFMin
<1>4. PICK m \in Bad : \A u \in Bad : ~ (<<u, m>> \in StrictSubsetOrdering(S))
  BY <1>3
<1>5. \A u \in SUBSET m : u # m => u \in Good
  BY <1>4 DEF StrictSubsetOrdering
<1> QED
  BY <1>5

-----------------------------------------------------------------------------
(* The recursive function by which the community module defines a sum. *)
First(s) == CHOOSE x \in s : TRUE
IsSumFunction(h, f, S) ==
    h = [s \in SUBSET S |-> IF s = {} THEN 0 ELSE f[First(s)] + h[s \ {First(s)}]]

LEMMA FirstIn ==
    ASSUME NEW s, s # {}
    PROVE  First(s) \in s
BY DEF First

LEMMA SumIsIter ==
    ASSUME NEW f, NEW S
    PROVE  SumFunctionOnSet(f, S) = (CHOOSE h : IsSumFunction(h, f, S))[S]
BY DEF SumFunctionOnSet, FoldFunctionOnSet, MapThenFoldSet, IsSumFunction, First

(* Two such functions agree where both are defined. *)
LEMMA SumFunctionsAgree ==
    ASSUME NEW S, IsFiniteSet(S), NEW f, NEW h, NEW k, NEW U \in SUBSET S,
           IsSumFunction(h, f, S), IsSumFunction(k, f, U)
    PROVE  \A s \in SUBSET U : h[s] = k[s]
<1> DEFINE Good == {s \in SUBSET U : h[s] = k[s]}
<1>1. IsFiniteSet(U)
  BY FS_Subset
<1>2. ASSUME NEW s \in SUBSET U, \A u \in SUBSET s : u # s => u \in Good
      PROVE  s \in Good
  <2>1. CASE s = {}
    BY <2>1 DEF IsSumFunction
  <2>2. CASE s # {}
    <3>1. First(s) \in s
      BY <2>2, FirstIn
    <3>2. s \ {First(s)} \in SUBSET s /\ s \ {First(s)} # s
      BY <3>1
    <3>3. h[s \ {First(s)}] = k[s \ {First(s)}]
      BY <3>2, <1>2
    <3>4. h[s] = f[First(s)] + h[s \ {First(s)}]
      BY <2>2 DEF IsSumFunction
    <3>5. k[s] = f[First(s)] + k[s \ {First(s)}]
      BY <2>2 DEF IsSumFunction
    <3> QED
      BY <3>3, <3>4, <3>5
  <2> QED
    BY <2>1, <2>2
<1>3. \A s \in SUBSET U : s \in Good
  <2> HIDE DEF Good
  <2> QED
    BY <1>1, <1>2, SubsetInduction
<1> QED
  BY <1>3

(* There is such a function. *)
LEMMA SumFunctionExists ==
    ASSUME NEW S, IsFiniteSet(S), NEW f
    PROVE  \E h : IsSumFunction(h, f, S)
<1> DEFINE Good == {s \in SUBSET S : \E h : IsSumFunction(h, f, s)}
<1> SUFFICES ASSUME NEW m \in SUBSET S, \A u \in SUBSET m : u # m => u \in Good
             PROVE  m \in Good
  <2>1. \A s \in SUBSET S : s \in Good
    <3> HIDE DEF Good
    <3> QED
      BY SubsetInduction
  <2> QED
    BY <2>1
<1> DEFINE K(u) == CHOOSE h : IsSumFunction(h, f, u)
           G(u) == K(u)[u]
           H == [s \in SUBSET m |-> IF s = {} THEN 0 ELSE f[First(s)] + G(s \ {First(s)})]
<1>2. ASSUME NEW u \in SUBSET m, u # m
      PROVE  IsSumFunction(K(u), f, u)
  <2>1. \E h : IsSumFunction(h, f, u)
    BY <1>2
  <2> QED
    BY <2>1
<1>3. ASSUME NEW u \in SUBSET m, u # m
      PROVE  H[u] = G(u)
  <2>1. CASE u = {}
    <3>1. IsSumFunction(K(u), f, u)
      BY <1>2, <1>3
    <3> HIDE DEF K
    <3>2. K(u)[u] = 0
      BY <3>1, <2>1 DEF IsSumFunction
    <3> QED
      BY <3>2, <2>1
  <2>2. CASE u # {}
    <3> DEFINE v == u \ {First(u)}
    <3>1. First(u) \in u
      BY <2>2, FirstIn
    <3>2. v \in SUBSET u /\ v \in SUBSET m /\ v # m
      BY <1>3, <3>1
    <3>3. IsSumFunction(K(u), f, u) /\ IsSumFunction(K(v), f, v)
      BY <1>2, <1>3, <3>2
    <3>4. IsFiniteSet(u)
      BY FS_Subset
    <3>5. \A s \in SUBSET v : K(u)[s] = K(v)[s]
      <4> HIDE DEF K, v
      <4> QED
        BY <3>2, <3>3, <3>4, SumFunctionsAgree
    <3>6. K(u)[v] = G(v)
      BY <3>5
    <3>7. K(u)[u] = f[First(u)] + K(u)[v]
      <4> HIDE DEF K
      <4> QED
        BY <3>3, <2>2 DEF IsSumFunction
    <3>8. H[u] = f[First(u)] + G(v)
      BY <2>2
    <3> QED
      BY <3>6, <3>7, <3>8
  <2> QED
    BY <2>1, <2>2
<1>4. ASSUME NEW s \in SUBSET m, s # {}
      PROVE  H[s] = f[First(s)] + H[s \ {First(s)}]
  <2>1. First(s) \in s
    BY <1>4, FirstIn
  <2>2. s \ {First(s)} \in SUBSET m /\ s \ {First(s)} # m
    BY <2>1
  <2>3. H[s \ {First(s)}] = G(s \ {First(s)})
    BY <2>2, <1>3
  <2> QED
    BY <1>4, <2>3
<1>5. H[{}] = 0
  OBVIOUS
<1>6. H = [s \in SUBSET m |-> IF s = {} THEN 0 ELSE f[First(s)] + H[s \ {First(s)}]]
  <2>1. H = [s \in SUBSET m |-> H[s]]
    OBVIOUS
  <2> HIDE DEF H
  <2> QED
    BY <1>4, <1>5, <2>1
<1>7. IsSumFunction(H, f, m)
  <2> HIDE DEF H
  <2> QED
    BY <1>6 DEF IsSumFunction
<1> QED
  BY <1>7

(* The sum is the sum of any finite set's elements, taken as the function does. *)
LEMMA SumRecursion ==
    ASSUME NEW S, IsFiniteSet(S), NEW f
    PROVE  SumFunctionOnSet(f, S) = IF S = {} THEN 0
                                    ELSE f[First(S)] + SumFunctionOnSet(f, S \ {First(S)})
<1> DEFINE h == CHOOSE k : IsSumFunction(k, f, S)
           V == S \ {First(S)}
           g == CHOOSE k : IsSumFunction(k, f, V)
<1>1. IsSumFunction(h, f, S) /\ SumFunctionOnSet(f, S) = h[S]
  BY SumFunctionExists, SumIsIter
<1>2. V \in SUBSET S /\ IsFiniteSet(V)
  BY FS_Subset
<1>3. IsSumFunction(g, f, V) /\ SumFunctionOnSet(f, V) = g[V]
  BY <1>2, SumFunctionExists, SumIsIter
<1>4. h[V] = g[V]
  <2> HIDE DEF h, g, V
  <2> QED
    BY <1>1, <1>2, <1>3, SumFunctionsAgree
<1>5. h[S] = IF S = {} THEN 0 ELSE f[First(S)] + h[V]
  <2> HIDE DEF h
  <2> QED
    BY <1>1 DEF IsSumFunction
<1> QED
  BY <1>1, <1>3, <1>4, <1>5

-----------------------------------------------------------------------------
(* The sum of nothing. *)
LEMMA SumEmpty ==
    ASSUME NEW f
    PROVE  SumFunctionOnSet(f, {}) = 0
BY SumRecursion, FS_EmptySet

(* A sum of integers is an integer. *)
LEMMA SumInt ==
    ASSUME NEW S, IsFiniteSet(S), NEW f, \A x \in S : f[x] \in Int
    PROVE  SumFunctionOnSet(f, S) \in Int
<1> DEFINE Good == {s \in SUBSET S : SumFunctionOnSet(f, s) \in Int}
<1>1. ASSUME NEW s \in SUBSET S, \A u \in SUBSET s : u # s => u \in Good
      PROVE  s \in Good
  <2>1. IsFiniteSet(s)
    BY FS_Subset
  <2>2. CASE s = {}
    BY <2>2, SumEmpty
  <2>3. CASE s # {}
    <3>1. First(s) \in s
      BY <2>3, FirstIn
    <3>2. SumFunctionOnSet(f, s \ {First(s)}) \in Int
      BY <1>1, <3>1
    <3>3. SumFunctionOnSet(f, s) = f[First(s)] + SumFunctionOnSet(f, s \ {First(s)})
      BY <2>1, <2>3, SumRecursion
    <3> QED
      BY <3>1, <3>2, <3>3
  <2> QED
    BY <2>2, <2>3
<1>2. \A s \in SUBSET S : s \in Good
  <2> HIDE DEF Good
  <2> QED
    BY <1>1, SubsetInduction
<1> QED
  BY <1>2

(* A sum depends on the summands only. *)
LEMMA SumSame ==
    ASSUME NEW S, IsFiniteSet(S), NEW f, NEW g, \A x \in S : f[x] = g[x]
    PROVE  SumFunctionOnSet(f, S) = SumFunctionOnSet(g, S)
<1> DEFINE Good == {s \in SUBSET S : SumFunctionOnSet(f, s) = SumFunctionOnSet(g, s)}
<1>1. ASSUME NEW s \in SUBSET S, \A u \in SUBSET s : u # s => u \in Good
      PROVE  s \in Good
  <2>1. IsFiniteSet(s)
    BY FS_Subset
  <2>2. CASE s = {}
    BY <2>2, SumEmpty
  <2>3. CASE s # {}
    <3>1. First(s) \in s
      BY <2>3, FirstIn
    <3>2. SumFunctionOnSet(f, s \ {First(s)}) = SumFunctionOnSet(g, s \ {First(s)})
      BY <1>1, <3>1
    <3>3. SumFunctionOnSet(f, s) = f[First(s)] + SumFunctionOnSet(f, s \ {First(s)})
      BY <2>1, <2>3, SumRecursion
    <3>4. SumFunctionOnSet(g, s) = g[First(s)] + SumFunctionOnSet(g, s \ {First(s)})
      BY <2>1, <2>3, SumRecursion
    <3> QED
      BY <3>1, <3>2, <3>3, <3>4
  <2> QED
    BY <2>2, <2>3
<1>2. \A s \in SUBSET S : s \in Good
  <2> HIDE DEF Good
  <2> QED
    BY <1>1, SubsetInduction
<1> QED
  BY <1>2

(* A sum of zeros is zero. *)
LEMMA SumZero ==
    ASSUME NEW S, IsFiniteSet(S), NEW f, \A x \in S : f[x] = 0
    PROVE  SumFunctionOnSet(f, S) = 0
<1> DEFINE Good == {s \in SUBSET S : SumFunctionOnSet(f, s) = 0}
<1>1. ASSUME NEW s \in SUBSET S, \A u \in SUBSET s : u # s => u \in Good
      PROVE  s \in Good
  <2>1. IsFiniteSet(s)
    BY FS_Subset
  <2>2. CASE s = {}
    BY <2>2, SumEmpty
  <2>3. CASE s # {}
    <3>1. First(s) \in s
      BY <2>3, FirstIn
    <3>2. SumFunctionOnSet(f, s \ {First(s)}) = 0
      BY <1>1, <3>1
    <3>3. SumFunctionOnSet(f, s) = f[First(s)] + SumFunctionOnSet(f, s \ {First(s)})
      BY <2>1, <2>3, SumRecursion
    <3> QED
      BY <3>1, <3>2, <3>3
  <2> QED
    BY <2>2, <2>3
<1>2. \A s \in SUBSET S : s \in Good
  <2> HIDE DEF Good
  <2> QED
    BY <1>1, SubsetInduction
<1> QED
  BY <1>2

(* Any summand can be taken first: the order does not matter. *)
LEMMA SumRemove ==
    ASSUME NEW S, IsFiniteSet(S), NEW f, \A x \in S : f[x] \in Int, NEW e \in S
    PROVE  SumFunctionOnSet(f, S) = f[e] + SumFunctionOnSet(f, S \ {e})
<1> DEFINE Good == {s \in SUBSET S : \A x \in s :
                       SumFunctionOnSet(f, s) = f[x] + SumFunctionOnSet(f, s \ {x})}
<1>1. ASSUME NEW s \in SUBSET S, \A u \in SUBSET s : u # s => u \in Good
      PROVE  s \in Good
  <2> SUFFICES ASSUME NEW x \in s
               PROVE  SumFunctionOnSet(f, s) = f[x] + SumFunctionOnSet(f, s \ {x})
    OBVIOUS
  <2> DEFINE y == First(s)
  <2>1. y \in s
    BY FirstIn
  <2> HIDE DEF y
  <2>2. \A u \in SUBSET S : IsFiniteSet(u) /\ SumFunctionOnSet(f, u) \in Int
    BY FS_Subset, SumInt
  <2>3. SumFunctionOnSet(f, s) = f[y] + SumFunctionOnSet(f, s \ {y})
    BY <2>2, SumRecursion DEF y
  <2>4. CASE y = x
    BY <2>3, <2>4
  <2>5. CASE y # x
    <3>1. s \ {y} \in Good /\ s \ {x} \in Good
      BY <1>1, <2>1
    <3>2. SumFunctionOnSet(f, s \ {y}) = f[x] + SumFunctionOnSet(f, (s \ {y}) \ {x})
      BY <3>1, <2>5
    <3>3. SumFunctionOnSet(f, s \ {x}) = f[y] + SumFunctionOnSet(f, (s \ {x}) \ {y})
      BY <3>1, <2>1, <2>5
    <3>4. (s \ {y}) \ {x} = (s \ {x}) \ {y}
      OBVIOUS
    <3>5. PICK r \in Int : r = SumFunctionOnSet(f, (s \ {x}) \ {y})
      BY <2>2
    <3>6. PICK a \in Int, b \in Int : a = f[x] /\ b = f[y]
      BY <2>1
    <3>7. SumFunctionOnSet(f, s) = b + (a + r) /\ SumFunctionOnSet(f, s \ {x}) = b + r
      BY <2>3, <3>2, <3>3, <3>4, <3>5, <3>6
    <3>8. b + (a + r) = a + (b + r)
      OBVIOUS
    <3> QED
      BY <3>6, <3>7, <3>8
  <2> QED
    BY <2>4, <2>5
<1>2. \A s \in SUBSET S : s \in Good
  <2> HIDE DEF Good
  <2> QED
    BY <1>1, SubsetInduction
<1> QED
  BY <1>2

(* One more summand. *)
LEMMA SumAdd ==
    ASSUME NEW S, IsFiniteSet(S), NEW e, e \notin S, NEW f, \A x \in S \cup {e} : f[x] \in Int
    PROVE  SumFunctionOnSet(f, S \cup {e}) = SumFunctionOnSet(f, S) + f[e]
<1>1. IsFiniteSet(S \cup {e})
  BY FS_AddElement
<1>2. (S \cup {e}) \ {e} = S
  OBVIOUS
<1>3. SumFunctionOnSet(f, S \cup {e}) = f[e] + SumFunctionOnSet(f, (S \cup {e}) \ {e})
  BY <1>1, SumRemove
<1>4. PICK r \in Int : r = SumFunctionOnSet(f, S)
  BY SumInt
<1>5. PICK a \in Int : a = f[e]
  OBVIOUS
<1>6. a + r = r + a
  OBVIOUS
<1> QED
  BY <1>2, <1>3, <1>4, <1>5, <1>6

(* One summand changes. *)
LEMMA SumChange ==
    ASSUME NEW S, IsFiniteSet(S), NEW e \in S, NEW f, NEW g,
           \A x \in S : f[x] \in Int, g[e] \in Int,
           \A x \in S \ {e} : g[x] = f[x]
    PROVE  SumFunctionOnSet(g, S) = SumFunctionOnSet(f, S) + g[e] - f[e]
<1>1. IsFiniteSet(S \ {e})
  BY FS_RemoveElement
<1>2. SumFunctionOnSet(g, S \ {e}) = SumFunctionOnSet(f, S \ {e})
  BY <1>1, SumSame
<1>3. SumFunctionOnSet(f, S \ {e}) \in Int
  BY <1>1, SumInt
<1>4. \A x \in S : g[x] \in Int
  OBVIOUS
<1>5. SumFunctionOnSet(f, S) = f[e] + SumFunctionOnSet(f, S \ {e})
  BY SumRemove
<1>6. SumFunctionOnSet(g, S) = g[e] + SumFunctionOnSet(g, S \ {e})
  BY <1>4, SumRemove
<1> QED
  BY <1>2, <1>3, <1>5, <1>6

-----------------------------------------------------------------------------
(* The number of members of a set up to one of them, which is its place among
   them: Nth and Rank are inverse, and keep the order.                        *)
Rank(S, i) == Cardinality({j \in S : j <= i})

LEMMA NthIs ==
    ASSUME NEW S \in SUBSET Int, IsFiniteSet(S)
    PROVE  /\ Cardinality(S) \in Nat
           /\ \A k \in 1 .. Cardinality(S) : Nth(S, k) \in S /\ Rank(S, Nth(S, k)) = k
           /\ \A i \in S : Rank(S, i) \in 1 .. Cardinality(S) /\ Nth(S, Rank(S, i)) = i
           /\ \A i, l \in S : i < l <=> Rank(S, i) < Rank(S, l)
<1> DEFINE Upto(i) == {j \in S : j <= i}
           n == Cardinality(S)
           r == [i \in S |-> Rank(S, i)]
<1>1. n \in Nat
  BY FS_CardinalityType
<1>2. ASSUME NEW i \in S
      PROVE  /\ IsFiniteSet(Upto(i)) /\ Upto(i) \in SUBSET S /\ i \in Upto(i)
             /\ Rank(S, i) = Cardinality(Upto(i)) /\ Rank(S, i) \in 1 .. n
  <2>1. Upto(i) \in SUBSET S /\ i \in Upto(i)
    OBVIOUS
  <2>2. IsFiniteSet(Upto(i)) /\ Cardinality(Upto(i)) <= n
    <3> HIDE DEF Upto
    <3> QED
      BY <2>1, FS_Subset
  <2>3. Cardinality(Upto(i)) \in Nat /\ Cardinality(Upto(i)) # 0
    <3> HIDE DEF Upto
    <3> QED
      BY <2>1, <2>2, FS_CardinalityType, FS_EmptySet
  <2>4. Rank(S, i) = Cardinality(Upto(i))
    BY DEF Rank
  <2>5. \A c \in Nat : c # 0 /\ c <= n => c \in 1 .. n
    <3> HIDE DEF n
    <3> QED
      BY <1>1
  <2> QED
    BY <2>1, <2>2, <2>3, <2>4, <2>5
<1>3. ASSUME NEW i \in S, NEW l \in S, i < l
      PROVE  Rank(S, i) < Rank(S, l)
  <2>6. i \in Int /\ l \in Int /\ \A j \in S : j \in Int
    OBVIOUS
  <2>7. \A j \in S : j <= i => j <= l
    BY <1>3, <2>6
  <2>8. ~(l <= i)
    BY <1>3, <2>6
  <2>1. Upto(i) \in SUBSET Upto(l) /\ l \notin Upto(i)
    BY <2>7, <2>8
  <2>2. IsFiniteSet(Upto(l)) /\ l \in Upto(l) /\ Rank(S, l) = Cardinality(Upto(l)) /\ Rank(S, i) = Cardinality(Upto(i))
    BY <1>2
  <2>3. Cardinality(Upto(i)) <= Cardinality(Upto(l)) /\ Cardinality(Upto(i)) # Cardinality(Upto(l))
    <3> HIDE DEF Upto
    <3> QED
      BY <2>1, <2>2, FS_Subset
  <2>4. Rank(S, i) \in 1 .. n /\ Rank(S, l) \in 1 .. n
    BY <1>2
  <2>5. \A a, b \in 1 .. n : a <= b /\ a # b => a < b
    BY <1>1
  <2> QED
    BY <2>2, <2>3, <2>4, <2>5
<1>4. ASSUME NEW i \in S, NEW l \in S, Rank(S, i) = Rank(S, l)
      PROVE  i = l
  <2>1. Rank(S, i) \in 1 .. n
    BY <1>2
  <2>2. ~(Rank(S, i) < Rank(S, l)) /\ ~(Rank(S, l) < Rank(S, i))
    BY <1>1, <1>4, <2>1
  <2>3. ~(i < l) /\ ~(l < i)
    BY <1>3, <2>2
  <2> QED
    BY <2>3
<1>5. r \in Injection(S, 1 .. n)
  BY <1>2, <1>4 DEF Injection, IsInjective
<1>6. r \in Surjection(S, 1 .. n)
  <2>1. IsFiniteSet(1 .. n) /\ Cardinality(1 .. n) = n
    <3>1. IsFiniteSet(1 .. n) /\ Cardinality(1 .. n) = IF 1 > n THEN 0 ELSE n - 1 + 1
      BY <1>1, FS_Interval
    <3> HIDE DEF n
    <3> QED
      BY <1>1, <3>1
  <2> HIDE DEF r
  <2> QED
    BY <1>5, <2>1, FS_Injection
<1>7. \A k \in 1 .. n : \E i \in S : r[i] = k
  BY <1>6 DEF Surjection
<1>8. ASSUME NEW k \in 1 .. n
      PROVE  Nth(S, k) \in S /\ Rank(S, Nth(S, k)) = k
  <2>1. \E i \in S : Rank(S, i) = k
    BY <1>7
  <2> QED
    BY <2>1 DEF Nth, Rank
<1>9. ASSUME NEW i \in S
      PROVE  Nth(S, Rank(S, i)) = i
  <2>1. PICK k \in 1 .. n : k = Rank(S, i)
    BY <1>2
  <2>2. Nth(S, k) \in S /\ Rank(S, Nth(S, k)) = k
    BY <1>8
  <2> QED
    BY <1>4, <2>1, <2>2
<1>10. ASSUME NEW i \in S, NEW l \in S, Rank(S, i) < Rank(S, l)
       PROVE  i < l
  <2>1. Rank(S, i) \in 1 .. n /\ Rank(S, l) \in 1 .. n
    BY <1>2
  <2>2. \A a, b \in 1 .. n : a < b => a # b /\ ~(b < a)
    BY <1>1
  <2>3. Rank(S, i) # Rank(S, l) /\ ~(Rank(S, l) < Rank(S, i))
    BY <1>10, <2>1, <2>2
  <2>4. i # l /\ ~(l < i)
    BY <1>3, <2>3
  <2> QED
    BY <2>4
<1> QED
  BY <1>1, <1>2, <1>3, <1>8, <1>9, <1>10

(* A sublist has the members at the places it is taken from, in their order. *)
LEMMA SublistIs ==
    ASSUME NEW T, NEW s \in Seq(T), NEW S \in SUBSET DOMAIN s
    PROVE  /\ Sublist(s, S) \in Seq(T) /\ Cardinality(S) \in Nat
           /\ DOMAIN Sublist(s, S) = 1 .. Cardinality(S) /\ Len(Sublist(s, S)) = Cardinality(S)
           /\ \A k \in 1 .. Cardinality(S) :
                 Nth(S, k) \in S /\ Rank(S, Nth(S, k)) = k /\ Sublist(s, S)[k] = s[Nth(S, k)]
           /\ \A i \in S :
                 Rank(S, i) \in 1 .. Cardinality(S) /\ Sublist(s, S)[Rank(S, i)] = s[i]
           /\ \A i, l \in S : i < l <=> Rank(S, i) < Rank(S, l)
<1> DEFINE n == Cardinality(S)
           w == [k \in 1 .. n |-> s[Nth(S, k)]]
<1>1. DOMAIN s = 1 .. Len(s) /\ Len(s) \in Nat /\ \A i \in DOMAIN s : s[i] \in T
  OBVIOUS
<1>2. IsFiniteSet(S) /\ S \in SUBSET Int
  <2>1. IsFiniteSet(1 .. Len(s))
    BY <1>1, FS_Interval
  <2>2. \A X \in SUBSET (1 .. Len(s)) : X \in SUBSET Int
    BY <1>1
  <2>3. S \in SUBSET (1 .. Len(s))
    BY <1>1
  <2> QED
    BY <2>1, <2>2, <2>3, FS_Subset
<1>3. /\ n \in Nat
      /\ \A k \in 1 .. n : Nth(S, k) \in S /\ Rank(S, Nth(S, k)) = k
      /\ \A i \in S : Rank(S, i) \in 1 .. n /\ Nth(S, Rank(S, i)) = i
      /\ \A i, l \in S : i < l <=> Rank(S, i) < Rank(S, l)
  BY <1>2, NthIs
<1>4. Sublist(s, S) = w
  BY DEF Sublist
<1> HIDE DEF n
<1>5. /\ w \in Seq(T) /\ DOMAIN w = 1 .. n /\ Len(w) = n
      /\ \A k \in 1 .. n : w[k] = s[Nth(S, k)]
  <2>1. \A k \in 1 .. n : s[Nth(S, k)] \in T
    BY <1>1, <1>3
  <2> QED
    BY <1>3, <2>1
<1> HIDE DEF w
<1>6. \A i \in S : w[Rank(S, i)] = s[i]
  BY <1>3, <1>5
<1> QED
  BY <1>3, <1>4, <1>5, <1>6 DEF n
=============================================================================
