--------------------------- MODULE AttributionProofs ---------------------------
(***************************************************************************)
(* Proofs about Attribution, for any accounts, workers, rings and reports.  *)
(***************************************************************************)
EXTENDS Attribution, FiniteSetTheorems, WellFoundedInduction, NaturalsInduction, TLAPS

-----------------------------------------------------------------------------
(* Sums over finite sets.                                                  *)

\* Sets of subsets of a finite set are built from the empty set, an element at a time.
LEMMA SubsetInduction ==
  ASSUME NEW U, IsFiniteSet(U), NEW G,
         {} \in G,
         \A s \in SUBSET U : s # {} /\ (\A x \in s : s \ {x} \in G) => s \in G
  PROVE  \A s \in SUBSET U : s \in G
<1> DEFINE Less == OpToRel(<, Nat)
           Sizes == {n \in Nat : \E s \in SUBSET U : s \notin G /\ Cardinality(s) = n}
<1>1. SUFFICES ASSUME Sizes # {} PROVE FALSE
  <2>1. ASSUME NEW s \in SUBSET U, s \notin G PROVE Cardinality(s) \in Sizes
    <3>1. Cardinality(s) \in Nat
      BY FS_Subset, FS_CardinalityType
    <3> QED
      BY <2>1, <3>1
  <2> QED
    BY <2>1
<1>2. PICK n \in Sizes : \A m \in Sizes : ~ (<<m, n>> \in Less)
  <2>1. IsWellFoundedOn(Less, Nat) /\ Sizes \in SUBSET Nat
    BY NatLessThanWellFounded
  <2> HIDE DEF Less, Sizes
  <2> QED
    BY <1>1, <2>1, WFMin
<1>3. PICK s \in SUBSET U : s \notin G /\ Cardinality(s) = n
  BY <1>2
<1>4. PICK x \in s : s \ {x} \notin G
  BY <1>3
<1>5. IsFiniteSet(s)
  BY FS_Subset
<1>6. Cardinality(s \ {x}) = Cardinality(s) - 1
  BY <1>5, FS_RemoveElement
<1>7. n - 1 \in Sizes /\ n \in Nat
  <2>1. Cardinality(s \ {x}) \in Nat /\ n \in Nat
    BY <1>2, <1>5, FS_RemoveElement, FS_CardinalityType
  <2> QED
    BY <1>3, <1>4, <1>6, <2>1
<1>8. <<n - 1, n>> \in Less
  <2>1. n - 1 \in Nat
    BY <1>7
  <2> QED
    BY <1>7, <2>1 DEF OpToRel
<1> QED
  BY <1>2, <1>7, <1>8

-----------------------------------------------------------------------------
\* SumFunctionOnSet as a function on the subsets of a set that solves an equation.
First(s) == CHOOSE x \in s : TRUE
Step(f, g, s) == IF s = {} THEN 0 ELSE f[First(s)] + g[s \ {First(s)}]
Solves(g, f, S) == g = [s \in SUBSET S |-> Step(f, g, s)]

LEMMA FirstIsIn ==
  ASSUME NEW s, s # {}
  PROVE  First(s) \in s
BY DEF First

LEMMA SumIsChosen ==
  ASSUME NEW f, NEW S
  PROVE  SumFunctionOnSet(f, S) = (CHOOSE g : Solves(g, f, S))[S]
BY DEF SumFunctionOnSet, FoldFunctionOnSet, MapThenFoldSet, Solves, Step, First

LEMMA SolvesSteps ==
  ASSUME NEW f, NEW g, NEW S, Solves(g, f, S)
  PROVE  \A s \in SUBSET S : g[s] = Step(f, g, s)
BY DEF Solves

\* Two solutions agree where both are defined.
LEMMA SolvesOnce ==
  ASSUME NEW f, NEW S, IsFiniteSet(S), NEW g, Solves(g, f, S),
         NEW T \in SUBSET S, NEW h, Solves(h, f, T)
  PROVE  \A s \in SUBSET T : g[s] = h[s]
<1> DEFINE G == {s \in SUBSET T : g[s] = h[s]}
<1>1. IsFiniteSet(T)
  BY FS_Subset
<1>2. \A s \in SUBSET T : g[s] = Step(f, g, s) /\ h[s] = Step(f, h, s)
  BY SolvesSteps
<1>3. {} \in G
  BY <1>2 DEF Step
<1>4. ASSUME NEW s \in SUBSET T, s # {}, \A x \in s : s \ {x} \in G PROVE s \in G
  <2>1. First(s) \in s
    BY <1>4, FirstIsIn
  <2>2. g[s \ {First(s)}] = h[s \ {First(s)}]
    BY <1>4, <2>1
  <2> QED
    BY <1>2, <1>4, <2>2 DEF Step
<1> HIDE DEF G
<1>5. \A s \in SUBSET T : s \in G
  BY <1>1, <1>3, <1>4, SubsetInduction
<1> QED
  BY <1>5 DEF G

\* A solution for a set has in it one for each of its subsets.
LEMMA SolvesPart ==
  ASSUME NEW f, NEW S, NEW g, Solves(g, f, S), NEW T \in SUBSET S
  PROVE  \E h : Solves(h, f, T)
<1> DEFINE h == [s \in SUBSET T |-> g[s]]
<1>1. ASSUME NEW s \in SUBSET T PROVE h[s] = Step(f, h, s)
  <2>1. g[s] = Step(f, g, s)
    BY SolvesSteps
  <2>2. h[s \ {First(s)}] = g[s \ {First(s)}]
    OBVIOUS
  <2>3. Step(f, h, s) = Step(f, g, s)
    BY <2>2 DEF Step
  <2> QED
    BY <2>1, <2>3
<1>2. Solves(h, f, T)
  BY <1>1 DEF Solves
<1> QED
  BY <1>2

\* There is a solution for every finite set.
LEMMA SolvesExists ==
  ASSUME NEW f, NEW S, IsFiniteSet(S)
  PROVE  \E g : Solves(g, f, S)
<1> DEFINE G == {s \in SUBSET S : \E g : Solves(g, f, s)}
           Sol(s) == CHOOSE g : Solves(g, f, s)
<1>1. {} \in G
  <2>1. Solves([s \in SUBSET {} |-> 0], f, {})
    BY DEF Solves, Step
  <2> QED
    BY <2>1
<1>2. ASSUME NEW s \in SUBSET S, s # {}, \A x \in s : s \ {x} \in G PROVE s \in G
  <2> DEFINE g == [t \in SUBSET s |->
                     IF t = {} THEN 0 ELSE f[First(t)] + Sol(t \ {First(t)})[t \ {First(t)}]]
  <2>1. ASSUME NEW t \in SUBSET s, NEW x \in t PROVE Solves(Sol(t \ {x}), f, t \ {x})
    <3>1. PICK h : Solves(h, f, s \ {x})
      BY <1>2
    <3>2. t \ {x} \in SUBSET (s \ {x})
      OBVIOUS
    <3>3. \E k : Solves(k, f, t \ {x})
      BY <3>1, <3>2, SolvesPart
    <3> QED
      BY <3>3
  <2>2. \A t \in SUBSET s : t # {} => g[t] = f[First(t)] + Sol(t \ {First(t)})[t \ {First(t)}]
    OBVIOUS
  <2>3. g[{}] = 0
    OBVIOUS
  <2> HIDE DEF Sol, g, G
  <2>4. ASSUME NEW t \in SUBSET s, t # {} PROVE g[t] = Step(f, g, t)
    <3> DEFINE u == t \ {First(t)}
               v == u \ {First(u)}
    <3>1. First(t) \in t /\ u \in SUBSET s
      BY <2>4, FirstIsIn
    <3>2. Solves(Sol(u), f, u)
      BY <2>1, <3>1
    <3>3. Sol(u)[u] = Step(f, Sol(u), u)
      BY <3>2, SolvesSteps
    <3>4. Sol(u)[u] = g[u]
      <4>1. CASE u = {}
        BY <2>3, <3>3, <4>1 DEF Step
      <4>2. CASE u # {}
        <5>1. First(u) \in u
          BY <4>2, FirstIsIn
        <5>2. Solves(Sol(v), f, v)
          BY <2>1, <3>1, <5>1
        <5>3. v \in SUBSET u /\ v \in SUBSET v /\ IsFiniteSet(u)
          BY <3>1, FS_Subset
        <5>4. Sol(u)[v] = Sol(v)[v]
          <6> HIDE DEF u, v
          <6> QED
            BY <3>2, <5>2, <5>3, SolvesOnce
        <5>5. g[u] = f[First(u)] + Sol(v)[v]
          BY <2>2, <3>1, <4>2
        <5>6. Sol(u)[u] = f[First(u)] + Sol(u)[v]
          BY <3>3, <4>2 DEF Step
        <5> QED
          BY <5>4, <5>5, <5>6
      <4> QED
        BY <4>1, <4>2
    <3>5. g[t] = f[First(t)] + Sol(u)[u]
      BY <2>2, <2>4
    <3>6. Step(f, g, t) = f[First(t)] + g[u]
      BY <2>4 DEF Step
    <3> QED
      BY <3>4, <3>5, <3>6
  <2>5. g = [t \in SUBSET s |-> g[t]]
    BY DEF g
  <2>6. Solves(g, f, s)
    <3>1. \A t \in SUBSET s : g[t] = Step(f, g, t)
      BY <2>3, <2>4 DEF Step
    <3> QED
      BY <2>5, <3>1 DEF Solves
  <2> QED
    BY <2>6 DEF G
<1> HIDE DEF G
<1>3. \A s \in SUBSET S : s \in G
  BY <1>1, <1>2, SubsetInduction
<1>4. S \in G
  BY <1>3
<1> QED
  BY <1>4 DEF G

-----------------------------------------------------------------------------
\* The sum over the empty set is 0; that over any other set is the value at one
\* of its elements and the sum over the rest.
LEMMA SumOfNone ==
  ASSUME NEW f
  PROVE  SumFunctionOnSet(f, {}) = 0
<1> DEFINE g == CHOOSE h : Solves(h, f, {})
<1>1. Solves(g, f, {})
  BY SolvesExists, FS_EmptySet
<1>2. g[{}] = Step(f, g, {})
  BY <1>1, SolvesSteps
<1>3. SumFunctionOnSet(f, {}) = g[{}]
  BY SumIsChosen
<1> HIDE DEF g
<1> QED
  BY <1>2, <1>3 DEF Step

LEMMA SumOfSome ==
  ASSUME NEW f, NEW S, IsFiniteSet(S), S # {}
  PROVE  \E x \in S : SumFunctionOnSet(f, S) = f[x] + SumFunctionOnSet(f, S \ {x})
<1> DEFINE g == CHOOSE h : Solves(h, f, S)
           x == First(S)
           T == S \ {x}
           h == CHOOSE k : Solves(k, f, T)
<1>1. x \in S
  BY FirstIsIn
<1>2. Solves(g, f, S)
  BY SolvesExists
<1>3. IsFiniteSet(T)
  BY FS_Subset
<1>4. Solves(h, f, T)
  BY <1>3, SolvesExists
<1>5. SumFunctionOnSet(f, S) = g[S] /\ SumFunctionOnSet(f, T) = h[T]
  BY SumIsChosen
<1> HIDE DEF g, h
<1>6. g[S] = f[x] + g[T]
  <2>1. g[S] = Step(f, g, S)
    BY <1>2, SolvesSteps
  <2> QED
    BY <2>1 DEF Step
<1>7. T \in SUBSET S /\ T \in SUBSET T
  OBVIOUS
<1>8. g[T] = h[T]
  <2> HIDE DEF T
  <2> QED
    BY <1>2, <1>4, <1>7, SolvesOnce
<1> QED
  BY <1>1, <1>5, <1>6, <1>8

\* A sum of integers is an integer, and any element may be taken out of it.
LEMMA SumType ==
  ASSUME NEW f, NEW S, IsFiniteSet(S), \A x \in S : f[x] \in Int
  PROVE  SumFunctionOnSet(f, S) \in Int
<1> DEFINE G == {s \in SUBSET S : SumFunctionOnSet(f, s) \in Int}
<1>1. {} \in G
  BY SumOfNone
<1>2. ASSUME NEW s \in SUBSET S, s # {}, \A x \in s : s \ {x} \in G PROVE s \in G
  <2>1. IsFiniteSet(s)
    BY FS_Subset
  <2>2. PICK x \in s : SumFunctionOnSet(f, s) = f[x] + SumFunctionOnSet(f, s \ {x})
    BY <1>2, <2>1, SumOfSome
  <2> QED
    BY <1>2, <2>2
<1> HIDE DEF G
<1>3. \A s \in SUBSET S : s \in G
  BY <1>1, <1>2, SubsetInduction
<1> QED
  BY <1>3 DEF G

LEMMA SumTakeOut ==
  ASSUME NEW f, NEW S, IsFiniteSet(S), \A x \in S : f[x] \in Int
  PROVE  \A x \in S : SumFunctionOnSet(f, S) = f[x] + SumFunctionOnSet(f, S \ {x})
<1> DEFINE Sum(s) == SumFunctionOnSet(f, s)
           G == {s \in SUBSET S : \A x \in s : Sum(s) = f[x] + Sum(s \ {x})}
<1>1. {} \in G
  OBVIOUS
<1>2. \A s \in SUBSET S : IsFiniteSet(s) /\ Sum(s) \in Int
  BY FS_Subset, SumType
<1>3. ASSUME NEW s \in SUBSET S, s # {}, \A x \in s : s \ {x} \in G PROVE s \in G
  <2>1. PICK y \in s : Sum(s) = f[y] + Sum(s \ {y})
    BY <1>2, <1>3, SumOfSome
  <2> HIDE DEF Sum
  <2>2. ASSUME NEW x \in s, x # y PROVE Sum(s) = f[x] + Sum(s \ {x})
    <3>1. Sum(s \ {y}) = f[x] + Sum((s \ {y}) \ {x})
      BY <1>3, <2>2
    <3>2. Sum(s \ {x}) = f[y] + Sum((s \ {x}) \ {y})
      BY <1>3, <2>2
    <3>3. (s \ {x}) \ {y} = (s \ {y}) \ {x}
      OBVIOUS
    <3>4. /\ f[x] \in Int /\ f[y] \in Int /\ Sum((s \ {y}) \ {x}) \in Int
          /\ Sum(s \ {x}) \in Int /\ Sum(s \ {y}) \in Int
      <4>1. /\ (s \ {y}) \ {x} \in SUBSET S /\ s \ {x} \in SUBSET S /\ s \ {y} \in SUBSET S
            /\ x \in S /\ y \in S
        OBVIOUS
      <4> QED
        BY <1>2, <4>1
    <3> QED
      BY <2>1, <3>1, <3>2, <3>3, <3>4
  <2> QED
    BY <2>1, <2>2
<1> HIDE DEF G
<1>4. \A s \in SUBSET S : s \in G
  BY <1>1, <1>3, SubsetInduction
<1> QED
  BY <1>4 DEF G

LEMMA SumOfOne ==
  ASSUME NEW f, NEW x, f[x] \in Int
  PROVE  SumFunctionOnSet(f, {x}) = f[x]
<1> DEFINE S == {x}
<1>1. IsFiniteSet(S) /\ x \in S /\ (\A y \in S : f[y] \in Int) /\ S \ {x} = {}
  BY FS_Singleton
<1> HIDE DEF S
<1>2. SumFunctionOnSet(f, S) = f[x] + SumFunctionOnSet(f, {})
  BY <1>1, SumTakeOut
<1> QED
  BY <1>2, SumOfNone DEF S

\* Functions that agree on a set have the same sum over it, and the sum of one
\* that is never larger is not larger.
LEMMA SumCompare ==
  ASSUME NEW f, NEW g, NEW S, IsFiniteSet(S), \A x \in S : f[x] \in Int /\ g[x] \in Int
  PROVE  /\ (\A x \in S : f[x] = g[x]) => SumFunctionOnSet(f, S) = SumFunctionOnSet(g, S)
         /\ (\A x \in S : f[x] <= g[x]) => SumFunctionOnSet(f, S) <= SumFunctionOnSet(g, S)
<1> DEFINE F(s) == SumFunctionOnSet(f, s)
           H(s) == SumFunctionOnSet(g, s)
           G == {s \in SUBSET S : /\ (\A x \in S : f[x] = g[x]) => F(s) = H(s)
                                  /\ (\A x \in S : f[x] <= g[x]) => F(s) <= H(s)}
<1>1. {} \in G
  BY SumOfNone
<1>2. ASSUME NEW s \in SUBSET S, s # {}, \A x \in s : s \ {x} \in G PROVE s \in G
  <2>1. PICK x \in s : TRUE
    BY <1>2
  <2>2. IsFiniteSet(s) /\ IsFiniteSet(s \ {x})
    BY FS_Subset
  <2>3. F(s) = f[x] + F(s \ {x}) /\ H(s) = g[x] + H(s \ {x})
    BY <2>2, SumTakeOut
  <2>4. F(s \ {x}) \in Int /\ H(s \ {x}) \in Int
    BY <2>2, SumType
  <2> HIDE DEF F, H
  <2>5. s \ {x} \in G /\ f[x] \in Int /\ g[x] \in Int
    BY <1>2
  <2> QED
    BY <2>3, <2>4, <2>5
<1> HIDE DEF G
<1>3. \A s \in SUBSET S : s \in G
  BY <1>1, <1>2, SubsetInduction
<1> QED
  BY <1>3 DEF G

LEMMA SumNatural ==
  ASSUME NEW f, NEW S, IsFiniteSet(S), \A x \in S : f[x] \in Nat
  PROVE  SumFunctionOnSet(f, S) \in Nat
<1> DEFINE G == {s \in SUBSET S : SumFunctionOnSet(f, s) \in Nat}
<1>1. {} \in G
  BY SumOfNone
<1>2. ASSUME NEW s \in SUBSET S, s # {}, \A x \in s : s \ {x} \in G PROVE s \in G
  <2>1. IsFiniteSet(s)
    BY FS_Subset
  <2>2. PICK x \in s : SumFunctionOnSet(f, s) = f[x] + SumFunctionOnSet(f, s \ {x})
    BY <1>2, <2>1, SumOfSome
  <2> QED
    BY <1>2, <2>2
<1> HIDE DEF G
<1>3. \A s \in SUBSET S : s \in G
  BY <1>1, <1>2, SubsetInduction
<1> QED
  BY <1>3 DEF G

\* The sum over a set is that over a part of it and that over the rest.
LEMMA SumSplit ==
  ASSUME NEW f, NEW S, IsFiniteSet(S), NEW T \in SUBSET S, \A x \in S : f[x] \in Int
  PROVE  SumFunctionOnSet(f, S) = SumFunctionOnSet(f, T) + SumFunctionOnSet(f, S \ T)
<1> DEFINE Sum(s) == SumFunctionOnSet(f, s)
           G == {s \in SUBSET S : Sum(s) = Sum(s \cap T) + Sum(s \ T)}
<1>1. {} \in G
  <2>1. {} \cap T = {} /\ {} \ T = {}
    OBVIOUS
  <2> QED
    BY <2>1, SumOfNone
<1>2. \A s \in SUBSET S : IsFiniteSet(s) /\ Sum(s) \in Int
  BY FS_Subset, SumType
<1>3. ASSUME NEW s \in SUBSET S, s # {}, \A x \in s : s \ {x} \in G PROVE s \in G
  <2>1. PICK x \in s : TRUE
    BY <1>3
  <2> DEFINE t == s \ {x}
  <2>2. Sum(s) = f[x] + Sum(t)
    BY <1>2, SumTakeOut
  <2>3. Sum(t) = Sum(t \cap T) + Sum(t \ T)
    BY <1>3
  <2>4. f[x] \in Int /\ Sum(t \cap T) \in Int /\ Sum(t \ T) \in Int
    BY <1>2
  <2>5. CASE x \in T
    <3>1. Sum(s \cap T) = f[x] + Sum((s \cap T) \ {x})
      BY <1>2, <2>5, SumTakeOut
    <3>2. (s \cap T) \ {x} = t \cap T /\ s \ T = t \ T
      BY <2>5
    <3> HIDE DEF Sum, t
    <3>3. Sum((s \cap T) \ {x}) = Sum(t \cap T) /\ Sum(s \ T) = Sum(t \ T)
      BY <3>2
    <3>4. Sum(s) = Sum(s \cap T) + Sum(s \ T)
      BY <2>2, <2>3, <2>4, <3>1, <3>3
    <3> QED
      BY <3>4
  <2>6. CASE x \notin T
    <3>1. Sum(s \ T) = f[x] + Sum((s \ T) \ {x})
      BY <1>2, <2>6, SumTakeOut
    <3>2. (s \ T) \ {x} = t \ T /\ s \cap T = t \cap T
      BY <2>6
    <3> HIDE DEF Sum, t
    <3>3. Sum((s \ T) \ {x}) = Sum(t \ T) /\ Sum(s \cap T) = Sum(t \cap T)
      BY <3>2
    <3>4. Sum(s) = Sum(s \cap T) + Sum(s \ T)
      BY <2>2, <2>3, <2>4, <3>1, <3>3
    <3> QED
      BY <3>4
  <2> QED
    BY <2>5, <2>6
<1> HIDE DEF G
<1>4. \A s \in SUBSET S : s \in G
  BY <1>1, <1>3, SubsetInduction
<1>5. S \in G /\ S \cap T = T
  BY <1>4
<1> QED
  BY <1>5 DEF G

\* A factor can be taken out of a sum.
LEMMA SumScale ==
  ASSUME NEW f, NEW g, NEW S, IsFiniteSet(S), NEW n \in Int,
         \A x \in S : f[x] \in Int /\ g[x] = n * f[x]
  PROVE  SumFunctionOnSet(g, S) = n * SumFunctionOnSet(f, S)
<1> DEFINE F(s) == SumFunctionOnSet(f, s)
           H(s) == SumFunctionOnSet(g, s)
           G == {s \in SUBSET S : H(s) = n * F(s)}
<1>1. {} \in G
  BY SumOfNone
<1>2. \A x \in S : g[x] \in Int
  OBVIOUS
<1>3. ASSUME NEW s \in SUBSET S, s # {}, \A x \in s : s \ {x} \in G PROVE s \in G
  <2>1. PICK x \in s : TRUE
    BY <1>3
  <2>2. IsFiniteSet(s) /\ IsFiniteSet(s \ {x})
    BY FS_Subset
  <2>3. F(s) = f[x] + F(s \ {x}) /\ H(s) = g[x] + H(s \ {x})
    BY <1>2, <2>2, SumTakeOut
  <2>4. F(s \ {x}) \in Int
    BY <2>2, SumType
  <2>5. H(s \ {x}) = n * F(s \ {x})
    BY <1>3
  <2> HIDE DEF F, H
  <2>6. f[x] \in Int /\ g[x] = n * f[x]
    OBVIOUS
  <2>7. \A i, j \in Int : n * (i + j) = n * i + n * j
    OBVIOUS
  <2> QED
    BY <2>3, <2>4, <2>5, <2>6, <2>7
<1> HIDE DEF G
<1>4. \A s \in SUBSET S : s \in G
  BY <1>1, <1>3, SubsetInduction
<1> QED
  BY <1>4 DEF G

LEMMA SumOfZeros ==
  ASSUME NEW f, NEW S, IsFiniteSet(S), \A x \in S : f[x] = 0
  PROVE  SumFunctionOnSet(f, S) = 0
<1>1. SumFunctionOnSet(f, S) = 0 * SumFunctionOnSet(f, S)
  BY SumScale
<1>2. SumFunctionOnSet(f, S) \in Int
  BY SumType
<1> QED
  BY <1>1, <1>2

\* A sum can be taken part by part: of each i, the elements that p sends to it.
LEMMA SumOfParts ==
  ASSUME NEW f, NEW S, IsFiniteSet(S), \A x \in S : f[x] \in Int,
         NEW I, IsFiniteSet(I), NEW p, \A x \in S : p[x] \in I
  PROVE  SumFunctionOnSet(f, S) =
           SumFunctionOnSet([i \in I |-> SumFunctionOnSet(f, {x \in S : p[x] = i})], I)
<1> DEFINE Sum(s) == SumFunctionOnSet(f, s)
           Part(s, i) == {x \in s : p[x] = i}
           Parts(s) == [i \in I |-> Sum(Part(s, i))]
           G == {s \in SUBSET S : Sum(s) = SumFunctionOnSet(Parts(s), I)}
<1>1. \A s \in SUBSET S : IsFiniteSet(s) /\ Sum(s) \in Int
  BY FS_Subset, SumType
<1>2. ASSUME NEW s \in SUBSET S, NEW i \in I PROVE Parts(s)[i] \in Int
  BY <1>1
<1>3. {} \in G
  <2> DEFINE none == [i \in I |-> 0]
  <2>1. \A i \in I : Parts({})[i] = 0 * none[i] /\ none[i] \in Int
    <3>1. \A i \in I : Part({}, i) = {}
      OBVIOUS
    <3> QED
      BY <3>1, SumOfNone
  <2> HIDE DEF none, Parts
  <2>2. SumFunctionOnSet(Parts({}), I) = 0 * SumFunctionOnSet(none, I)
    BY <2>1, SumScale
  <2>3. SumFunctionOnSet(none, I) \in Int
    BY <2>1, SumType
  <2> QED
    BY <2>2, <2>3, SumOfNone
<1>4. ASSUME NEW s \in SUBSET S, s # {}, \A x \in s : s \ {x} \in G PROVE s \in G
  <2>1. PICK x \in s : TRUE
    BY <1>4
  <2> DEFINE t == s \ {x}
             i == p[x]
  <2>2. i \in I /\ f[x] \in Int /\ t \in SUBSET S
    OBVIOUS
  <2>3. Sum(s) = f[x] + Sum(t)
    BY <1>1, SumTakeOut
  <2>4. Parts(s)[i] = f[x] + Parts(t)[i]
    <3>1. x \in Part(s, i) /\ Part(s, i) \in SUBSET S /\ Part(s, i) \ {x} = Part(t, i)
      OBVIOUS
    <3>2. Sum(Part(s, i)) = f[x] + Sum(Part(t, i))
      BY <1>1, <3>1, SumTakeOut
    <3> QED
      BY <2>2, <3>2
  <2>5. \A j \in I \ {i} : Parts(s)[j] = Parts(t)[j]
    <3>1. \A j \in I \ {i} : Part(s, j) = Part(t, j)
      OBVIOUS
    <3> QED
      BY <3>1
  <2>6. Sum(t) = SumFunctionOnSet(Parts(t), I)
    BY <1>4
  <2>7. (\A j \in I : Parts(s)[j] \in Int) /\ (\A j \in I : Parts(t)[j] \in Int)
    BY <1>2, <2>2
  <2>8. IsFiniteSet(I \ {i})
    BY FS_Subset
  <2> HIDE DEF Sum, Parts, i, t
  <2>9. /\ SumFunctionOnSet(Parts(s), I) = Parts(s)[i] + SumFunctionOnSet(Parts(s), I \ {i})
        /\ SumFunctionOnSet(Parts(t), I) = Parts(t)[i] + SumFunctionOnSet(Parts(t), I \ {i})
    BY <2>2, <2>7, SumTakeOut
  <2>10. /\ SumFunctionOnSet(Parts(s), I \ {i}) = SumFunctionOnSet(Parts(t), I \ {i})
         /\ SumFunctionOnSet(Parts(t), I \ {i}) \in Int
    BY <2>5, <2>7, <2>8, SumCompare, SumType
  <2> QED
    BY <2>2, <2>3, <2>4, <2>6, <2>7, <2>9, <2>10
<1> HIDE DEF G
<1>5. \A s \in SUBSET S : s \in G
  BY <1>3, <1>4, SubsetInduction
<1>6. S \in G
  BY <1>5
<1> QED
  BY <1>6 DEF G

ImageOf(p, S) == {p[x] : x \in S}

LEMMA ImageIsFinite ==
  ASSUME NEW S, IsFiniteSet(S), NEW p
  PROVE  IsFiniteSet(ImageOf(p, S))
<1>1. [x \in S |-> p[x]] \in Surjection(S, ImageOf(p, S))
  BY DEF Surjection, ImageOf
<1> QED
  BY <1>1, FS_Surjection

\* A sum can be taken over what its elements are sent to, one to one.
LEMMA SumOfImage ==
  ASSUME NEW f, NEW S, IsFiniteSet(S), NEW g, NEW p,
         \A x \in S : f[x] \in Int /\ g[p[x]] = f[x],
         \A x, y \in S : p[x] = p[y] => x = y
  PROVE  SumFunctionOnSet(f, S) = SumFunctionOnSet(g, ImageOf(p, S))
<1> DEFINE I == ImageOf(p, S)
           Parts == [i \in I |-> SumFunctionOnSet(f, {x \in S : p[x] = i})]
<1>1. IsFiniteSet(I)
  BY ImageIsFinite
<1>2. SumFunctionOnSet(f, S) = SumFunctionOnSet(Parts, I)
  <2>1. \A x \in S : p[x] \in I
    BY DEF ImageOf
  <2> HIDE DEF I
  <2> QED
    BY <1>1, <2>1, SumOfParts
<1>3. ASSUME NEW x \in S PROVE Parts[p[x]] = g[p[x]] /\ g[p[x]] \in Int
  <2>1. {y \in S : p[y] = p[x]} = {x}
    OBVIOUS
  <2>2. SumFunctionOnSet(f, {x}) = f[x]
    BY SumOfOne
  <2>3. p[x] \in I
    BY DEF ImageOf
  <2> HIDE DEF I
  <2>4. Parts[p[x]] = SumFunctionOnSet(f, {x})
    BY <2>1, <2>3
  <2> QED
    BY <2>2, <2>4
<1>4. \A i \in I : Parts[i] = g[i] /\ Parts[i] \in Int /\ g[i] \in Int
  BY <1>3 DEF ImageOf
<1> HIDE DEF I, Parts
<1>5. SumFunctionOnSet(Parts, I) = SumFunctionOnSet(g, I)
  BY <1>1, <1>4, SumCompare
<1> QED
  BY <1>2, <1>5 DEF I

-----------------------------------------------------------------------------
(* The invariant.                                                          *)

\* What a member of a ring may have held: nothing known, or what a report said.
WindowBy(ring, report) ==
  LET by == ByWorker(ring, report) IN
  [w \in Range(ring) |-> IF w \in DOMAIN by THEN by[w] ELSE Null]
Windows(ring) ==
  {[w \in Range(ring) |-> Null]} \cup {WindowBy(ring, report) : report \in Reports}

RowOf(ring) ==
  [status : {"assembling", "live", "terminated"}, ring : {ring},
   ready : BOOLEAN, reported : BOOLEAN, window : Windows(ring)]

TypeOK ==
  /\ workers \subseteq Worker /\ keys \subseteq Key
  /\ clusters \in [Cluster -> {NoCluster} \cup UNION {RowOf(ring) : ring \in Rings}]
  /\ now \in 0..MaxTime

\* Requests are numbered in the order they are recorded, each under a cluster
\* that was formed.
Numbered ==
  /\ made \in Nat
  /\ IsFiniteSet(requests)
  /\ \A r \in requests :
       /\ r.id \in Nat /\ r.id <= made
       /\ r.key \in Key /\ r.at \in 0..MaxTime /\ r.tokens = Unit
       /\ r.cluster \in Cluster /\ clusters[r.cluster] # NoCluster
  /\ \A q, r \in requests : q.id = r.id => q = r

IInv == TypeOK /\ Numbered

LEMMA RowShape ==
  ASSUME NEW ring \in Rings, NEW row \in RowOf(ring)
  PROVE  /\ row # NoCluster
         /\ row.ring = ring /\ DOMAIN row.window = Range(ring)
         /\ \A s \in {"assembling", "live", "terminated"} :
              [row EXCEPT !.status = s] \in RowOf(ring)
         /\ [row EXCEPT !.ready = TRUE] \in RowOf(ring)
         /\ Gated(row) \in RowOf(ring)
<1>1. row # NoCluster
  <2>1. row.status # "none"
    BY DEF RowOf
  <2> QED
    BY <2>1 DEF NoCluster
<1>2. row.ring = ring
  BY DEF RowOf
<1>3. DOMAIN row.window = Range(ring)
  <2>1. row.window \in Windows(ring)
    BY DEF RowOf
  <2> QED
    BY <2>1 DEF Windows, WindowBy
<1>4. \A s \in {"assembling", "live", "terminated"} : [row EXCEPT !.status = s] \in RowOf(ring)
  BY DEF RowOf
<1>5. [row EXCEPT !.ready = TRUE] \in RowOf(ring)
  BY DEF RowOf
<1>6. Gated(row) \in RowOf(ring)
  BY <1>4 DEF Gated
<1> QED
  BY <1>1, <1>2, <1>3, <1>4, <1>5, <1>6

LEMMA RowReported ==
  ASSUME NEW ring \in Rings, NEW row \in RowOf(ring), NEW report \in Reports
  PROVE  WithDistribution(row, ByWorker(ring, report)) \in RowOf(ring)
<1> DEFINE by == ByWorker(ring, report)
           window == [w \in DOMAIN row.window |-> IF w \in DOMAIN by THEN by[w] ELSE Null]
           after == [row EXCEPT !.reported = TRUE, !.window = window]
<1>1. window = WindowBy(ring, report)
  BY RowShape DEF WindowBy
<1>2. window \in Windows(ring)
  BY <1>1 DEF Windows
<1>3. WithDistribution(row, by) = IF row.status = "terminated" THEN row ELSE Gated(after)
  BY DEF WithDistribution
<1> HIDE DEF window, by
<1>4. after \in RowOf(ring)
  BY <1>2 DEF RowOf
<1> HIDE DEF after
<1>5. Gated(after) \in RowOf(ring)
  BY <1>4, RowShape
<1> QED
  BY <1>3, <1>5 DEF by

\* The row of a cluster that was formed is one of its ring.
LEMMA RowOfCluster ==
  ASSUME TypeOK, NEW c \in Cluster, clusters[c] # NoCluster
  PROVE  \E ring \in Rings : clusters[c] \in RowOf(ring) /\ clusters[c].ring = ring
<1>1. clusters[c] \in UNION {RowOf(ring) : ring \in Rings}
  BY DEF TypeOK
<1>2. PICK ring \in Rings : clusters[c] \in RowOf(ring)
  BY <1>1
<1> QED
  BY <1>2, RowShape

\* A step that gives a cluster's row another of its ring, and no request or time.
LEMMA RowReplaced ==
  ASSUME IInv, NEW c \in Cluster, NEW ring \in Rings, NEW row \in RowOf(ring),
         clusters' = [clusters EXCEPT ![c] = row],
         UNCHANGED <<workers, keys, requests, made, now>>
  PROVE  IInv'
<1>1. TypeOK'
  BY DEF IInv, TypeOK
<1>2. row # NoCluster
  BY RowShape
<1>3. \A d \in Cluster : clusters[d] # NoCluster => clusters'[d] # NoCluster
  BY <1>2 DEF IInv, TypeOK
<1>4. Numbered'
  BY <1>3 DEF IInv, Numbered
<1> QED
  BY <1>1, <1>4 DEF IInv

LEMMA InitHolds == Init => IInv
<1> SUFFICES ASSUME Init PROVE IInv
  OBVIOUS
<1>1. TypeOK
  BY BoundAssumption DEF Init, TypeOK
<1>2. Numbered
  BY FS_EmptySet DEF Init, Numbered
<1> QED
  BY <1>1, <1>2 DEF IInv

LEMMA NextKeeps == IInv /\ [Next]_vars => IInv'
<1> SUFFICES ASSUME IInv, [Next]_vars PROVE IInv'
  OBVIOUS
<1>1. ASSUME NEW c \in Cluster, NEW ring \in Rings, Form(c, ring) PROVE IInv'
  <2> DEFINE row == [NoCluster EXCEPT !.status = "assembling", !.ring = ring,
                                      !.window = [w \in Range(ring) |-> Null]]
  <2>1. row \in RowOf(ring)
    BY DEF RowOf, NoCluster, Windows
  <2>2. clusters' = [clusters EXCEPT ![c] = row] /\ UNCHANGED <<workers, keys, requests, made, now>>
    BY <1>1 DEF Form
  <2> HIDE DEF row
  <2> QED
    BY <2>1, <2>2, RowReplaced
<1>2. ASSUME NEW c \in Cluster, AllReady(c) PROVE IInv'
  <2>1. clusters[c] # NoCluster
    BY <1>2 DEF AllReady, Active, NoCluster
  <2>2. PICK ring \in Rings : clusters[c] \in RowOf(ring)
    BY <2>1, RowOfCluster DEF IInv
  <2> DEFINE row == Gated([clusters[c] EXCEPT !.ready = TRUE])
  <2>3. row \in RowOf(ring)
    BY <2>2, RowShape
  <2>4. clusters' = [clusters EXCEPT ![c] = row] /\ UNCHANGED <<workers, keys, requests, made, now>>
    BY <1>2 DEF AllReady, IInv, TypeOK
  <2> HIDE DEF row
  <2> QED
    BY <2>3, <2>4, RowReplaced
<1>3. ASSUME NEW c \in Cluster, NEW report \in Reports, Report(c, report) PROVE IInv'
  <2>1. clusters[c] # NoCluster
    BY <1>3 DEF Report
  <2>2. PICK ring \in Rings : clusters[c] \in RowOf(ring) /\ clusters[c].ring = ring
    BY <2>1, RowOfCluster DEF IInv
  <2> DEFINE row == WithDistribution(clusters[c], ByWorker(ring, report))
  <2>3. row \in RowOf(ring)
    BY <2>2, RowReported
  <2>4. clusters' = [clusters EXCEPT ![c] = row] /\ UNCHANGED <<workers, keys, requests, made, now>>
    BY <1>3, <2>2 DEF Report, IInv, TypeOK
  <2> HIDE DEF row
  <2> QED
    BY <2>3, <2>4, RowReplaced
<1>4. ASSUME NEW c \in Cluster, Terminate(c) PROVE IInv'
  <2>1. clusters[c] # NoCluster
    BY <1>4 DEF Terminate, Active, NoCluster
  <2>2. PICK ring \in Rings : clusters[c] \in RowOf(ring)
    BY <2>1, RowOfCluster DEF IInv
  <2> DEFINE row == [clusters[c] EXCEPT !.status = "terminated"]
  <2>3. row \in RowOf(ring)
    BY <2>2, RowShape
  <2>4. clusters' = [clusters EXCEPT ![c] = row] /\ UNCHANGED <<workers, keys, requests, made, now>>
    BY <1>4 DEF Terminate, IInv, TypeOK
  <2> HIDE DEF row
  <2> QED
    BY <2>3, <2>4, RowReplaced
<1>5. ASSUME NEW c \in Cluster, NEW k \in Key, Record(k, c) PROVE IInv'
  <2> DEFINE new == [id |-> made + 1, key |-> k, cluster |-> c, tokens |-> Unit, at |-> now]
  <2>1. /\ new.id = made + 1 /\ new.cluster = c /\ new.key = k
        /\ new.tokens = Unit /\ new.at = now
    OBVIOUS
  <2>2. /\ requests' = requests \cup {new} /\ made' = made + 1
        /\ UNCHANGED <<workers, keys, clusters, now>>
    BY <1>5 DEF Record
  <2> HIDE DEF new
  <2>3. clusters[c] # NoCluster
    BY <1>5 DEF Record, NoCluster
  <2>4. made' \in Nat /\ IsFiniteSet(requests')
    BY <2>2, FS_AddElement DEF IInv, Numbered
  <2>5. \A r \in requests' :
          /\ r.id \in Nat /\ r.id <= made'
          /\ r.key \in Key /\ r.at \in 0..MaxTime /\ r.tokens = Unit
          /\ r.cluster \in Cluster /\ clusters[r.cluster] # NoCluster
    BY <2>1, <2>2, <2>3 DEF IInv, Numbered, TypeOK
  <2>6. \A q \in requests : q.id # new.id
    BY <2>1 DEF IInv, Numbered
  <2>7. \A q, r \in requests' : q.id = r.id => q = r
    BY <2>2, <2>6 DEF IInv, Numbered
  <2>8. Numbered'
    BY <2>2, <2>4, <2>5, <2>7 DEF Numbered
  <2>9. TypeOK'
    BY <2>2 DEF IInv, TypeOK
  <2> QED
    BY <2>8, <2>9 DEF IInv
<1>6. ASSUME NEW w \in Worker, DeleteWorker(w) PROVE IInv'
  <2>1. ASSUME NEW c \in Cluster
        PROVE  /\ clusters'[c] \in {NoCluster} \cup UNION {RowOf(ring) : ring \in Rings}
               /\ clusters[c] # NoCluster => clusters'[c] # NoCluster
    <3>1. CASE Active(c) /\ w \in Members(c)
      <4>1. clusters[c] # NoCluster
        BY <3>1 DEF Active, NoCluster
      <4>2. PICK ring \in Rings : clusters[c] \in RowOf(ring)
        BY <4>1, RowOfCluster DEF IInv
      <4> DEFINE row == [clusters[c] EXCEPT !.status = "terminated"]
      <4>3. row \in RowOf(ring)
        BY <4>2, RowShape
      <4>4. clusters'[c] = row
        BY <1>6, <3>1 DEF DeleteWorker
      <4> HIDE DEF row
      <4>5. row # NoCluster
        BY <4>3, RowShape
      <4> QED
        BY <4>3, <4>4, <4>5
    <3>2. CASE ~(Active(c) /\ w \in Members(c))
      <4>1. clusters'[c] = clusters[c]
        BY <1>6, <3>2 DEF DeleteWorker
      <4> QED
        BY <4>1 DEF IInv, TypeOK
    <3> QED
      BY <3>1, <3>2
  <2>2. clusters' = [c \in Cluster |-> clusters'[c]] /\ workers' \subseteq workers
        /\ UNCHANGED <<keys, requests, made, now>>
    BY <1>6 DEF DeleteWorker
  <2>3. TypeOK'
    BY <2>1, <2>2 DEF IInv, TypeOK
  <2>4. Numbered'
    BY <2>1, <2>2 DEF IInv, Numbered
  <2> QED
    BY <2>3, <2>4 DEF IInv
<1>7. ASSUME NEW k \in Key, RevokeKey(k) PROVE IInv'
  <2>1. /\ requests' \in SUBSET requests /\ keys' \subseteq keys
        /\ UNCHANGED <<workers, clusters, made, now>>
    BY <1>7 DEF RevokeKey
  <2>2. IsFiniteSet(requests')
    BY <2>1, FS_Subset DEF IInv, Numbered
  <2> QED
    BY <2>1, <2>2 DEF IInv, TypeOK, Numbered
<1>8. CASE Tick
  <2>1. now' \in 0..MaxTime
    BY <1>8, BoundAssumption DEF Tick, IInv, TypeOK
  <2> QED
    BY <1>8, <2>1 DEF Tick, IInv, TypeOK, Numbered
<1>9. CASE UNCHANGED vars
  BY <1>9 DEF vars, IInv, TypeOK, Numbered
<1> QED
  BY <1>1, <1>2, <1>3, <1>4, <1>5, <1>6, <1>7, <1>8, <1>9 DEF Next

LEMMA Invariance == Spec => []IInv
<1> QED
  BY InitHolds, NextKeeps, PTL DEF Spec

-----------------------------------------------------------------------------
(* Settled once ended.                                                     *)

\* Workers do not come back, and a cluster that has ended keeps its members and
\* their windows: a late report is turned away by set_cluster_distribution.
LEMMA EndedKept ==
  ASSUME IInv, [Next]_vars
  PROVE  /\ workers' \subseteq workers
         /\ \A c \in Cluster :
              clusters[c].status = "terminated" => clusters'[c] = clusters[c]
<1> USE DEF IInv
<1>1. ASSUME NEW c \in Cluster, NEW ring \in Rings, Form(c, ring)
      PROVE  \A d \in Cluster : clusters[d].status = "terminated" => clusters'[d] = clusters[d]
  <2>1. clusters[c].status = "none"
    BY <1>1 DEF Form, NoCluster
  <2> QED
    BY <1>1, <2>1 DEF Form
<1>2. ASSUME NEW c \in Cluster, NEW report \in Reports, Report(c, report)
      PROVE  \A d \in Cluster : clusters[d].status = "terminated" => clusters'[d] = clusters[d]
  BY <1>2 DEF Report, WithDistribution
<1>3. ASSUME NEW c \in Cluster, AllReady(c) \/ Terminate(c)
      PROVE  \A d \in Cluster : clusters[d].status = "terminated" => clusters'[d] = clusters[d]
  <2>1. clusters[c].status # "terminated"
    BY <1>3 DEF AllReady, Terminate, Active
  <2> QED
    BY <1>3, <2>1 DEF AllReady, Terminate, TypeOK
<1>4. ASSUME NEW w \in Worker, DeleteWorker(w)
      PROVE  \A d \in Cluster : clusters[d].status = "terminated" => clusters'[d] = clusters[d]
  BY <1>4 DEF DeleteWorker, Active
<1>5. \A c \in Cluster : clusters[c].status = "terminated" => clusters'[c] = clusters[c]
  BY <1>1, <1>2, <1>3, <1>4 DEF Next, Record, RevokeKey, Tick, vars
<1>6. workers' \subseteq workers
  BY DEF Next, Form, AllReady, Report, Terminate, Record, DeleteWorker, RevokeKey, Tick, vars
<1> QED
  BY <1>5, <1>6

\* Recording adds a request with a number of its own; revoking a key takes some
\* away; nothing else touches them.
LEMMA RequestsKept ==
  ASSUME IInv, [Next]_vars
  PROVE  \A q \in requests' : q \in requests \/ \A r \in requests : r.id # q.id
<1>1. ASSUME NEW c \in Cluster, NEW k \in Key, Record(k, c)
      PROVE  \A q \in requests' : q \in requests \/ \A r \in requests : r.id # q.id
  <2> DEFINE new == [id |-> made + 1, key |-> k, cluster |-> c, tokens |-> Unit, at |-> now]
  <2>1. new.id = made + 1 /\ requests' = requests \cup {new}
    BY <1>1 DEF Record
  <2>2. \A r \in requests : r.id # new.id
    BY <2>1 DEF IInv, Numbered
  <2> QED
    BY <2>1, <2>2
<1> QED
  BY <1>1 DEF Next, Form, AllReady, Report, Terminate, DeleteWorker, RevokeKey, Tick, vars

\* What a row of a log is.
LEMMA LogRows ==
  ASSUME NEW a \in Account
  PROVE  /\ \A row : row \in Log(a) <=>
              \E r \in requests, w \in workers :
                /\ During(r, 0, MaxTime + 1)
                /\ w \in Members(r.cluster)
                /\ Owner[w] = a
                /\ row = Credit(r, w)
         /\ \A row : row \in Log(a)' <=>
              \E r \in requests', w \in workers' :
                /\ During(r, 0, MaxTime + 1)
                /\ w \in Members(r.cluster)'
                /\ Owner[w] = a
                /\ row = Credit(r, w)'
BY DEF Log, WorkerLog, AskedFor

\* What a cluster says of a request's worker is said by its row alone.
LEMMA CreditKept ==
  ASSUME NEW r, NEW w, clusters'[r.cluster] = clusters[r.cluster]
  PROVE  /\ (Members(r.cluster))' = Members(r.cluster)
         /\ (Credit(r, w))' = Credit(r, w)
BY DEF Members, Credit

\* Once its cluster has ended, what is shown of a request stays as it is.
THEOREM SettledOnceEnded == Spec => EndedIsSettled
<1> DEFINE Settled(a) ==
      Ended(Log(a)') = {row \in Ended(Log(a)) :
                          /\ row.worker \in workers'
                          /\ \E r \in requests' : r.id = row.request}
<1>1. ASSUME IInv, [Next]_vars, NEW a \in Account PROVE Settled(a)
  <2> USE <1>1
  <2>1. ASSUME NEW row \in Ended(Log(a)')
        PROVE  /\ row \in Ended(Log(a))
               /\ row.worker \in workers'
               /\ \E r \in requests' : r.id = row.request
    <3>1. PICK r \in requests', w \in workers' :
            /\ During(r, 0, MaxTime + 1)
            /\ w \in (Members(r.cluster))'
            /\ Owner[w] = a
            /\ row = (Credit(r, w))'
      BY <2>1, LogRows DEF Ended
    <3>2. row.request = r.id /\ row.worker = w /\ row.cluster = r.cluster
      BY <3>1 DEF Credit
    <3>3. r \in requests
      BY <2>1, <3>2, RequestsKept DEF Ended
    <3>4. clusters'[r.cluster] = clusters[r.cluster]
      BY <2>1, <3>2, <3>3, EndedKept DEF Ended, IInv, Numbered
    <3>5. w \in Members(r.cluster) /\ row = Credit(r, w)
      BY <3>1, <3>4, CreditKept
    <3>6. row \in Log(a)
      BY <3>1, <3>3, <3>5, LogRows, EndedKept
    <3> QED
      BY <2>1, <3>2, <3>6 DEF Ended
  <2>2. ASSUME NEW row \in Ended(Log(a)), row.worker \in workers',
               NEW q \in requests', q.id = row.request
        PROVE  row \in Ended(Log(a)')
    <3>1. PICK r \in requests, w \in workers :
            /\ During(r, 0, MaxTime + 1)
            /\ w \in Members(r.cluster)
            /\ Owner[w] = a
            /\ row = Credit(r, w)
      BY <2>2, LogRows DEF Ended
    <3>2. row.request = r.id /\ row.worker = w /\ row.cluster = r.cluster
      BY <3>1 DEF Credit
    <3>3. r \in requests'
      <4>1. q \in requests
        BY <2>2, <3>2, RequestsKept
      <4>2. q = r
        BY <2>2, <3>2, <4>1 DEF IInv, Numbered
      <4> QED
        BY <4>2
    <3>4. clusters'[r.cluster] = clusters[r.cluster]
      BY <2>2, <3>2, EndedKept DEF Ended, IInv, Numbered
    <3>5. w \in (Members(r.cluster))' /\ row = (Credit(r, w))'
      BY <3>1, <3>4, CreditKept
    <3>6. row \in Log(a)'
      BY <2>2, <3>1, <3>2, <3>3, <3>5, LogRows
    <3> QED
      BY <2>2, <3>6 DEF Ended
  <2>3. \A row : row \in Ended(Log(a)') <=>
                   /\ row \in Ended(Log(a))
                   /\ row.worker \in workers'
                   /\ \E r \in requests' : r.id = row.request
    BY <2>1, <2>2
  <2> QED
    BY <2>3
<1>2. IInv /\ [Next]_vars => [\A a \in Account : Settled(a)]_vars
  BY <1>1
<1> QED
  BY <1>2, Invariance, PTL DEF Spec, EndedIsSettled

-----------------------------------------------------------------------------
(* Shares.                                                                 *)

\* Of what is known of the members of a ring, every window is a count, and a
\* total that is not zero divides the tokens of a request.
Known(row) == {w \in Range(row.ring) : row.window[w] # Null}

LEMMA RingIsFinite ==
  ASSUME NEW ring \in Rings
  PROVE  Range(ring) \subseteq Worker /\ IsFiniteSet(Range(ring))
<1>1. ring \in Seq(Worker)
  BY RingAssumption
<1>2. Range(ring) \subseteq Worker
  BY <1>1 DEF Range
<1> QED
  BY <1>2, OwnerAssumption, FS_Subset

LEMMA ByWorkerCounts ==
  ASSUME NEW ring \in Rings, NEW report \in Reports
  PROVE  LET by == ByWorker(ring, report) IN
         DOMAIN by \subseteq Range(ring) /\ \A w \in DOMAIN by : by[w] \in Nat
<1> DEFINE ranks == {k \in DOMAIN report : k \in 0..(Len(ring) - 1)}
           by == ByWorker(ring, report)
<1>1. ring \in Seq(Worker)
  BY RingAssumption
<1>2. /\ DOMAIN by = {ring[k + 1] : k \in ranks}
      /\ \A w \in DOMAIN by : by[w] = report[CHOOSE k \in ranks : ring[k + 1] = w]
  BY DEF ByWorker
<1>3. ASSUME NEW w \in DOMAIN by PROVE w \in Range(ring) /\ by[w] \in Nat
  <2>1. PICK k \in ranks : ring[k + 1] = w
    BY <1>2
  <2>2. k + 1 \in DOMAIN ring
    BY <1>1, <2>1
  <2>3. PICK m \in ranks : by[w] = report[m]
    BY <1>2, <2>1
  <2>4. report[m] \in Nat
    BY <2>3, ReportAssumption DEF Range
  <2> QED
    BY <2>1, <2>2, <2>3, <2>4 DEF Range
<1> QED
  BY <1>3

LEMMA TotalDivides ==
  ASSUME NEW ring \in Rings, NEW row \in RowOf(ring)
  PROVE  /\ \A w \in Known(row) : row.window[w] \in Nat
         /\ Known(row) # {} =>
              LET total == SumFunctionOnSet(row.window, Known(row)) IN
              total # 0 => Unit % total = 0
<1>1. row.ring = ring /\ row.window \in Windows(ring)
  BY DEF RowOf
<1>2. CASE row.window = [w \in Range(ring) |-> Null]
  <2>1. Known(row) = {}
    BY <1>1, <1>2 DEF Known
  <2> QED
    BY <2>1
<1>3. CASE \E report \in Reports : row.window = WindowBy(ring, report)
  <2>1. PICK report \in Reports : row.window = WindowBy(ring, report)
    BY <1>3
  <2> DEFINE by == ByWorker(ring, report)
  <2>2. DOMAIN by \subseteq Range(ring) /\ \A w \in DOMAIN by : by[w] \in Nat
    BY ByWorkerCounts
  <2>3. \A w \in Range(ring) : row.window[w] = IF w \in DOMAIN by THEN by[w] ELSE Null
    BY <2>1 DEF WindowBy
  <2>4. SumFunction(by) # 0 => Unit % SumFunction(by) = 0
    BY UnitAssumption
  <2>5. SumFunction(by) = SumFunctionOnSet(by, DOMAIN by)
    BY DEF SumFunction
  <2> HIDE DEF by
  <2>6. Known(row) = DOMAIN by /\ \A w \in Known(row) : row.window[w] = by[w]
    BY <1>1, <2>2, <2>3, UnitAssumption DEF Known
  <2>7. IsFiniteSet(Known(row))
    BY <1>1, RingIsFinite, FS_Subset DEF Known
  <2>8. SumFunctionOnSet(row.window, Known(row)) = SumFunctionOnSet(by, Known(row))
    BY <2>2, <2>6, <2>7, SumCompare
  <2> QED
    BY <2>2, <2>4, <2>5, <2>6, <2>8
<1> QED
  BY <1>1, <1>2, <1>3 DEF Windows

LEMMA ExactQuotient ==
  ASSUME NEW m \in Nat, NEW t \in Nat, t # 0
  PROVE  (t * m) \div t = m
OBVIOUS

\* Shares of tokens in proportion to counts are never more than the tokens, and
\* exactly those if they come out whole.
LEMMA Quotients ==
  ASSUME NEW n \in Nat, NEW t \in Nat, t # 0
  PROVE  /\ n \div t \in Nat /\ t * (n \div t) <= n
         /\ n % t = 0 => n = t * (n \div t)
OBVIOUS

LEMMA QuotientOfProduct ==
  ASSUME NEW n \in Nat, NEW m \in Nat, NEW t \in Nat, t # 0
  PROVE  /\ (n * m) \div t \in Nat /\ t * ((n * m) \div t) <= n * m
         /\ n % t = 0 => t * ((n * m) \div t) = n * m
<1>1. n * m \in Nat
  OBVIOUS
<1>2. (n * m) \div t \in Nat /\ t * ((n * m) \div t) <= n * m
  BY <1>1, Quotients
<1>3. ASSUME n % t = 0 PROVE t * ((n * m) \div t) = n * m
  <2> DEFINE q == n \div t
  <2>1. q \in Nat /\ n = t * q
    BY <1>3, Quotients
  <2> HIDE DEF q
  <2>2. n * m = t * (q * m) /\ q * m \in Nat
    BY <2>1
  <2>3. (t * (q * m)) \div t = q * m
    BY <2>2, ExactQuotient
  <2> QED
    BY <2>2, <2>3
<1> QED
  BY <1>2, <1>3

LEMMA Cancel ==
  ASSUME NEW m \in Int, NEW n \in Int, NEW t \in Nat, t # 0
  PROVE  /\ t * m <= t * n => m <= n
         /\ t * m = t * n => m = n
OBVIOUS

\* What the members of a request's cluster did for it.
Work(r) == [w \in Members(r.cluster) |-> Effective(Credit(r, w))]

LEMMA WorkAddsUp ==
  ASSUME IInv, NEW r \in requests
  PROVE  LET held == ClusterTotal(clusters[r.cluster])
             members == Members(r.cluster) IN
         /\ members \subseteq Worker /\ IsFiniteSet(members)
         /\ \A w \in members : Work(r)[w] \in Nat
         /\ SumFunctionOnSet(Work(r), members) <= r.tokens
         /\ held \notin {Null, 0} => SumFunctionOnSet(Work(r), members) = r.tokens
<1> DEFINE row == clusters[r.cluster]
           held == ClusterTotal(row)
           members == Members(r.cluster)
           known == Known(row)
<1>1. PICK ring \in Rings : row \in RowOf(ring) /\ row.ring = ring
  BY RowOfCluster DEF IInv, Numbered
<1>2. members = Range(ring) /\ members \subseteq Worker /\ IsFiniteSet(members)
  BY <1>1, RingIsFinite DEF Members
<1>3. known \in SUBSET members /\ IsFiniteSet(known)
  BY <1>1, <1>2, FS_Subset DEF Known
<1>4. /\ \A w \in known : row.window[w] \in Nat
      /\ known # {} => LET total == SumFunctionOnSet(row.window, known) IN
                       total # 0 => Unit % total = 0
  BY <1>1, TotalDivides
<1>5. held = IF known = {} THEN Null ELSE SumFunctionOnSet(row.window, known)
  BY DEF ClusterTotal, Known
<1>6. r.tokens = Unit /\ Unit \in Nat /\ Null \notin Nat
  BY UnitAssumption DEF IInv, Numbered
<1>7. known # {} => held \in Nat
  BY <1>3, <1>4, <1>5, SumNatural
<1>8. ASSUME NEW w \in members
      PROVE  Work(r)[w] = IF row.window[w] # Null /\ held \notin {Null, 0}
                          THEN (Unit * row.window[w]) \div held ELSE 0
  <2>1. /\ Credit(r, w).window = row.window[w] /\ Credit(r, w).total = held
        /\ Credit(r, w).tokens = Unit
    BY <1>6 DEF Credit
  <2> QED
    BY <2>1 DEF Work, Effective, HasShare
<1> HIDE DEF row, held, members
<1>9. CASE held \in {Null, 0}
  <2>1. \A w \in members : Work(r)[w] = 0
    BY <1>8, <1>9
  <2>2. SumFunctionOnSet(Work(r), members) = 0
    BY <1>2, <2>1, SumOfZeros
  <2> QED
    BY <1>2, <1>6, <1>9, <2>1, <2>2 DEF row, held, members
<1>10. CASE held \notin {Null, 0}
  <2> DEFINE scaled == [w \in known |-> held * Work(r)[w]]
             asked == [w \in known |-> Unit * row.window[w]]
             did == SumFunctionOnSet(Work(r), known)
  <2>1. known # {} /\ held \in Nat /\ held # 0 /\ held = SumFunctionOnSet(row.window, known)
    BY <1>5, <1>7, <1>10
  <2>2. Unit % held = 0
    BY <1>4, <2>1
  <2>3. \A w \in members : w \in known <=> row.window[w] # Null
    BY <1>1, <1>2 DEF Known
  <2>4. ASSUME NEW w \in known
        PROVE  /\ Work(r)[w] \in Nat /\ row.window[w] \in Nat
               /\ held * Work(r)[w] = Unit * row.window[w]
    <3>1. Work(r)[w] = (Unit * row.window[w]) \div held
      BY <1>3, <1>8, <1>10, <2>3
    <3>2. row.window[w] \in Nat
      BY <1>4
    <3> DEFINE m == row.window[w]
    <3> HIDE DEF m
    <3>3. (Unit * m) \div held \in Nat /\ held * ((Unit * m) \div held) = Unit * m
      BY <1>6, <2>1, <2>2, <3>2, QuotientOfProduct DEF m
    <3> QED
      BY <3>1, <3>2, <3>3 DEF m
  <2>5. ASSUME NEW w \in members \ known PROVE Work(r)[w] = 0
    BY <1>8, <2>3
  <2>6. SumFunctionOnSet(scaled, known) = held * did
    <3>1. \A w \in known : Work(r)[w] \in Int /\ scaled[w] = held * Work(r)[w]
      BY <2>4
    <3> HIDE DEF scaled
    <3> QED
      BY <1>3, <2>1, <3>1, SumScale
  <2>7. SumFunctionOnSet(asked, known) = Unit * held
    <3>1. \A w \in known : row.window[w] \in Int /\ asked[w] = Unit * row.window[w]
      BY <2>4
    <3> HIDE DEF asked
    <3> QED
      BY <1>3, <1>6, <2>1, <3>1, SumScale
  <2>8. SumFunctionOnSet(scaled, known) = SumFunctionOnSet(asked, known)
    <3>1. \A w \in known : /\ scaled[w] = asked[w]
                           /\ scaled[w] \in Int /\ asked[w] \in Int
      BY <1>6, <2>1, <2>4
    <3> HIDE DEF scaled, asked
    <3> QED
      BY <1>3, <3>1, SumCompare
  <2>9. did = Unit
    <3>1. did \in Int
      BY <1>3, <2>4, SumType
    <3>2. held * did = held * Unit
      BY <1>6, <2>1, <2>6, <2>7, <2>8
    <3> HIDE DEF did
    <3> QED
      BY <1>6, <2>1, <3>1, <3>2, Cancel
  <2>10. SumFunctionOnSet(Work(r), members) = did
    <3>1. \A w \in members : Work(r)[w] \in Int
      BY <2>4, <2>5
    <3>2. SumFunctionOnSet(Work(r), members)
            = did + SumFunctionOnSet(Work(r), members \ known)
      BY <1>2, <1>3, <3>1, SumSplit
    <3>3. IsFiniteSet(members \ known)
      BY <1>2, FS_Subset
    <3>4. SumFunctionOnSet(Work(r), members \ known) = 0
      BY <2>5, <3>3, SumOfZeros
    <3> QED
      BY <1>6, <2>9, <3>2, <3>4
  <2>11. \A w \in members : Work(r)[w] \in Nat
    BY <2>4, <2>5
  <2> QED
    BY <1>2, <1>6, <2>9, <2>10, <2>11 DEF row, held, members
<1> QED
  BY <1>9, <1>10

\* Some members did no more than all.
LEMMA WorkOfSome ==
  ASSUME IInv, NEW r \in requests, NEW W \in SUBSET Members(r.cluster)
  PROVE  SumFunctionOnSet(Work(r), W) \in Nat /\ SumFunctionOnSet(Work(r), W) <= r.tokens
<1> DEFINE members == Members(r.cluster)
           all == SumFunctionOnSet(Work(r), members)
           some == SumFunctionOnSet(Work(r), W)
           others == SumFunctionOnSet(Work(r), members \ W)
<1>1. /\ IsFiniteSet(members) /\ \A w \in members : Work(r)[w] \in Nat
      /\ all <= r.tokens
  BY WorkAddsUp
<1>2. IsFiniteSet(W) /\ IsFiniteSet(members \ W)
  BY <1>1, FS_Subset
<1>3. some \in Nat /\ others \in Nat
  BY <1>1, <1>2, SumNatural
<1>4. all = some + others
  BY <1>1, SumSplit
<1>5. r.tokens \in Nat
  BY UnitAssumption DEF IInv, Numbered
<1> HIDE DEF all, some, others
<1>6. some \in Nat /\ some <= r.tokens
  BY <1>1, <1>3, <1>4, <1>5
<1> QED
  BY <1>6 DEF some

\* The rows that credit some of the members of a request's cluster have together
\* what those members did.
LEMMA CreditedIsDone ==
  ASSUME IInv, NEW r \in requests, NEW W \in SUBSET Members(r.cluster),
         NEW E, \A w \in W : E[Credit(r, w)] = Effective(Credit(r, w))
  PROVE  SumFunctionOnSet(E, {Credit(r, w) : w \in W}) = SumFunctionOnSet(Work(r), W)
<1> DEFINE p == [w \in W |-> Credit(r, w)]
<1>1. /\ IsFiniteSet(Members(r.cluster))
      /\ \A w \in Members(r.cluster) : Work(r)[w] \in Nat
  BY WorkAddsUp
<1>2. IsFiniteSet(W)
  BY <1>1, FS_Subset
<1>3. \A w \in W : Work(r)[w] \in Int /\ E[p[w]] = Work(r)[w]
  BY <1>1 DEF Work
<1>4. \A v, w \in W : p[v] = p[w] => v = w
  <2>1. \A w \in W : p[w].worker = w
    BY DEF Credit
  <2> QED
    BY <2>1
<1>5. {Credit(r, w) : w \in W} = ImageOf(p, W)
  BY DEF ImageOf
<1> HIDE DEF p
<1>6. SumFunctionOnSet(Work(r), W) = SumFunctionOnSet(E, ImageOf(p, W))
  BY <1>2, <1>3, <1>4, SumOfImage
<1> QED
  BY <1>5, <1>6

\* The rows for a request, whoever is shown them, are those of the members of
\* its cluster that still exist.
LEMMA RowsOfRequest ==
  ASSUME IInv, NEW r \in requests
  PROVE  RowsOf(r) = {Credit(r, w) : w \in Members(r.cluster) \cap workers}
<1>1. ASSUME NEW row \in RowsOf(r)
      PROVE  row \in {Credit(r, w) : w \in Members(r.cluster) \cap workers}
  <2>1. PICK a \in Account : row \in Log(a)
    BY DEF RowsOf
  <2>2. PICK q \in requests, w \in workers :
          w \in Members(q.cluster) /\ row = Credit(q, w)
    BY <2>1, LogRows
  <2>3. q.id = r.id
    BY <2>2 DEF RowsOf, Credit
  <2>4. q = r
    BY <2>3 DEF IInv, Numbered
  <2> QED
    BY <2>2, <2>4
<1>2. ASSUME NEW w \in Members(r.cluster) \cap workers PROVE Credit(r, w) \in RowsOf(r)
  <2>1. w \in Worker /\ Owner[w] \in Account
    BY OwnerAssumption DEF IInv, TypeOK
  <2>2. During(r, 0, MaxTime + 1)
    BY BoundAssumption DEF IInv, Numbered, During
  <2>3. Credit(r, w) \in Log(Owner[w])
    BY <2>1, <2>2, LogRows
  <2>4. Credit(r, w).request = r.id
    BY DEF Credit
  <2> QED
    BY <2>1, <2>3, <2>4 DEF RowsOf
<1> QED
  BY <1>1, <1>2

\* The tokens of a request are shared out among the members of its cluster:
\* never more than it has, and all of them while every member exists.
THEOREM TokensAreShared == Spec => []SharesAddUp
<1>1. ASSUME IInv, NEW r \in requests
      PROVE  LET held == ClusterTotal(clusters[r.cluster]) IN
             /\ Attributed(r) <= r.tokens
             /\ Members(r.cluster) \subseteq workers /\ held \notin {Null, 0}
                  => Attributed(r) = r.tokens
  <2> DEFINE here == Members(r.cluster) \cap workers
             E == [row \in RowsOf(r) |-> Effective(row)]
  <2>1. Attributed(r) = SumFunctionOnSet(E, RowsOf(r))
    BY DEF Attributed, SumFunction
  <2>2. RowsOf(r) = {Credit(r, w) : w \in here}
    BY <1>1, RowsOfRequest
  <2>3. here \in SUBSET Members(r.cluster)
    OBVIOUS
  <2>4. \A w \in here : E[Credit(r, w)] = Effective(Credit(r, w))
    BY <2>2
  <2> HIDE DEF here, E
  <2>5. Attributed(r) = SumFunctionOnSet(Work(r), here)
    BY <1>1, <2>1, <2>2, <2>3, <2>4, CreditedIsDone
  <2>6. Attributed(r) <= r.tokens
    BY <1>1, <2>3, <2>5, WorkOfSome
  <2>7. Members(r.cluster) \subseteq workers => here = Members(r.cluster)
    BY DEF here
  <2> QED
    BY <1>1, <2>5, <2>6, <2>7, WorkAddsUp
<1>2. IInv => SharesAddUp
  BY <1>1 DEF SharesAddUp
<1> QED
  BY <1>2, Invariance, PTL

-----------------------------------------------------------------------------
(* Statistics.                                                             *)

\* A row of a log, for whichever window and workers it is asked.
Asked(a, w, wanted) == Owner[w] = a /\ (wanted = {} \/ w \in wanted)

LEMMA WorkerLogRows ==
  ASSUME NEW a, NEW begin, NEW end, NEW wanted
  PROVE  \A row : row \in WorkerLog(a, begin, end, wanted) <=>
           \E r \in requests, w \in workers :
             /\ During(r, begin, end)
             /\ w \in Members(r.cluster)
             /\ Asked(a, w, wanted)
             /\ row = Credit(r, w)
BY DEF WorkerLog, AskedFor, Asked

EffectiveIn(rows) == [row \in rows |-> Effective(row)]
TokensIn(rows) == [row \in rows |-> row.tokens]

LEMMA StatsAreSums ==
  ASSUME NEW a, NEW begin, NEW end, NEW wanted
  PROVE  LET rows == WorkerLog(a, begin, end, wanted) IN
         /\ Stats(a, begin, end, wanted).total = SumFunctionOnSet(TokensIn(rows), rows)
         /\ Stats(a, begin, end, wanted).effective = SumFunctionOnSet(EffectiveIn(rows), rows)
BY DEF Stats, SumFunction, TokensIn, EffectiveIn

\* Rows that credit members of the requests' clusters are finitely many, and the
\* tokens of each are a number, as are its effective ones.
LEMMA RowsAreFinite ==
  ASSUME IInv, NEW rows,
         \A row \in rows : \E r \in requests, w \in workers :
            w \in Members(r.cluster) /\ row = Credit(r, w)
  PROVE  /\ IsFiniteSet(rows)
         /\ \A row \in rows : TokensIn(rows)[row] \in Int /\ EffectiveIn(rows)[row] \in Int
<1> DEFINE pairs == requests \X Worker
           p == [pair \in pairs |-> Credit(pair[1], pair[2])]
<1>1. IsFiniteSet(pairs)
  BY OwnerAssumption, FS_Product DEF IInv, Numbered
<1>2. rows \in SUBSET ImageOf(p, pairs)
  <2>1. ASSUME NEW row \in rows PROVE row \in ImageOf(p, pairs)
    <3>1. PICK r \in requests, w \in workers : row = Credit(r, w)
      OBVIOUS
    <3>2. <<r, w>> \in pairs
      BY DEF IInv, TypeOK
    <3>3. row = p[<<r, w>>]
      BY <3>1, <3>2
    <3> QED
      BY <3>2, <3>3 DEF ImageOf
  <2> QED
    BY <2>1
<1>3. IsFiniteSet(rows)
  <2> HIDE DEF p, pairs
  <2> QED
    BY <1>1, <1>2, ImageIsFinite, FS_Subset
<1>4. ASSUME NEW row \in rows PROVE row.tokens \in Int /\ Effective(row) \in Int
  <2>1. PICK r \in requests, w \in workers : w \in Members(r.cluster) /\ row = Credit(r, w)
    OBVIOUS
  <2>2. Work(r)[w] \in Nat
    BY <2>1, WorkAddsUp
  <2>3. row.tokens = Unit
    BY <2>1 DEF Credit, IInv, Numbered
  <2> QED
    BY <2>1, <2>2, <2>3, UnitAssumption DEF Work
<1>5. \A row \in rows : TokensIn(rows)[row] \in Int /\ EffectiveIn(rows)[row] \in Int
  BY <1>4 DEF TokensIn, EffectiveIn
<1> QED
  BY <1>3, <1>5

LEMMA LogIsFinite ==
  ASSUME IInv, NEW a, NEW begin, NEW end, NEW wanted
  PROVE  LET rows == WorkerLog(a, begin, end, wanted) IN
         /\ IsFiniteSet(rows)
         /\ \A row \in rows : TokensIn(rows)[row] \in Int /\ EffectiveIn(rows)[row] \in Int
<1> DEFINE rows == WorkerLog(a, begin, end, wanted)
<1>1. \A row \in rows : \E r \in requests, w \in workers :
         w \in Members(r.cluster) /\ row = Credit(r, w)
  BY WorkerLogRows
<1> HIDE DEF rows
<1> QED
  BY <1>1, RowsAreFinite DEF rows

\* The sums over some of the rows of a log are those over the log's own functions.
LEMMA SumsOfSome ==
  ASSUME NEW rows, IsFiniteSet(rows), NEW some \in SUBSET rows,
         \A row \in rows : TokensIn(rows)[row] \in Int /\ EffectiveIn(rows)[row] \in Int
  PROVE  /\ SumFunctionOnSet(TokensIn(rows), some) = SumFunctionOnSet(TokensIn(some), some)
         /\ SumFunctionOnSet(EffectiveIn(rows), some) = SumFunctionOnSet(EffectiveIn(some), some)
<1>1. IsFiniteSet(some)
  BY FS_Subset
<1>2. /\ \A row \in some : TokensIn(rows)[row] = TokensIn(some)[row]
      /\ \A row \in some : EffectiveIn(rows)[row] = EffectiveIn(some)[row]
  BY DEF TokensIn, EffectiveIn
<1>3. /\ \A row \in some : TokensIn(rows)[row] \in Int /\ TokensIn(some)[row] \in Int
      /\ \A row \in some : EffectiveIn(rows)[row] \in Int /\ EffectiveIn(some)[row] \in Int
  BY <1>2
<1>4. SumFunctionOnSet(TokensIn(rows), some) = SumFunctionOnSet(TokensIn(some), some)
  BY <1>1, <1>2, <1>3, SumCompare
<1>5. SumFunctionOnSet(EffectiveIn(rows), some) = SumFunctionOnSet(EffectiveIn(some), some)
  BY <1>1, <1>2, <1>3, SumCompare
<1> QED
  BY <1>4, <1>5

\* Adjacent windows share no row, and have all of those of both.
LEMMA WindowsSplit ==
  ASSUME IInv, NEW a, NEW end \in 0..(MaxTime + 1), NEW mid \in 0..end
  PROVE  /\ WorkerLog(a, 0, mid, {}) \in SUBSET WorkerLog(a, 0, end, {})
         /\ WorkerLog(a, mid, end, {}) = WorkerLog(a, 0, end, {}) \ WorkerLog(a, 0, mid, {})
<1> DEFINE early == WorkerLog(a, 0, mid, {})
           late == WorkerLog(a, mid, end, {})
           whole == WorkerLog(a, 0, end, {})
<1>1. \A r \in requests :
        /\ r.at \in Nat
        /\ During(r, 0, mid) => During(r, 0, end) /\ ~During(r, mid, end)
        /\ During(r, mid, end) => During(r, 0, end)
        /\ During(r, 0, end) => During(r, 0, mid) \/ During(r, mid, end)
  BY BoundAssumption DEF IInv, Numbered, During
<1>2. early \in SUBSET whole
  BY <1>1, WorkerLogRows
<1>3. late \in SUBSET whole
  BY <1>1, WorkerLogRows
<1>4. ASSUME NEW row \in early, row \in late PROVE FALSE
  <2>1. PICK q \in requests, v \in workers : During(q, 0, mid) /\ row = Credit(q, v)
    BY <1>4, WorkerLogRows
  <2>2. PICK r \in requests, w \in workers : During(r, mid, end) /\ row = Credit(r, w)
    BY <1>4, WorkerLogRows
  <2>3. q.id = r.id
    BY <2>1, <2>2 DEF Credit
  <2> QED
    BY <1>1, <2>1, <2>2, <2>3 DEF IInv, Numbered
<1>5. ASSUME NEW row \in whole, row \notin early PROVE row \in late
  <2>1. PICK r \in requests, w \in workers :
          /\ During(r, 0, end) /\ w \in Members(r.cluster)
          /\ Asked(a, w, {}) /\ row = Credit(r, w)
    BY WorkerLogRows
  <2>2. During(r, mid, end)
    BY <1>1, <1>5, <2>1, WorkerLogRows
  <2> QED
    BY <2>1, <2>2, WorkerLogRows
<1> HIDE DEF early, late, whole
<1>6. late = whole \ early
  BY <1>3, <1>4, <1>5
<1> QED
  BY <1>2, <1>6 DEF early, late, whole

LEMMA WindowsAddUp ==
  ASSUME IInv, NEW a \in Account, NEW end \in 0..(MaxTime + 1), NEW mid \in 0..end
  PROVE  LET early == Stats(a, 0, mid, {})
             late  == Stats(a, mid, end, {})
             whole == Stats(a, 0, end, {}) IN
         /\ early.total + late.total = whole.total
         /\ early.effective + late.effective = whole.effective
<1> DEFINE early == WorkerLog(a, 0, mid, {})
           late == WorkerLog(a, mid, end, {})
           whole == WorkerLog(a, 0, end, {})
<1>1. /\ Stats(a, 0, mid, {}).total = SumFunctionOnSet(TokensIn(early), early)
      /\ Stats(a, 0, mid, {}).effective = SumFunctionOnSet(EffectiveIn(early), early)
      /\ Stats(a, mid, end, {}).total = SumFunctionOnSet(TokensIn(late), late)
      /\ Stats(a, mid, end, {}).effective = SumFunctionOnSet(EffectiveIn(late), late)
      /\ Stats(a, 0, end, {}).total = SumFunctionOnSet(TokensIn(whole), whole)
      /\ Stats(a, 0, end, {}).effective = SumFunctionOnSet(EffectiveIn(whole), whole)
  BY StatsAreSums
<1>2. /\ IsFiniteSet(whole)
      /\ \A row \in whole : TokensIn(whole)[row] \in Int /\ EffectiveIn(whole)[row] \in Int
  BY LogIsFinite
<1>3. early \in SUBSET whole /\ late = whole \ early
  BY WindowsSplit
<1> HIDE DEF early, late, whole
<1>4. late \in SUBSET whole
  BY <1>3
<1>5. /\ SumFunctionOnSet(TokensIn(whole), early) = SumFunctionOnSet(TokensIn(early), early)
      /\ SumFunctionOnSet(EffectiveIn(whole), early) = SumFunctionOnSet(EffectiveIn(early), early)
  BY <1>2, <1>3, SumsOfSome
<1>6. /\ SumFunctionOnSet(TokensIn(whole), late) = SumFunctionOnSet(TokensIn(late), late)
      /\ SumFunctionOnSet(EffectiveIn(whole), late) = SumFunctionOnSet(EffectiveIn(late), late)
  BY <1>2, <1>4, SumsOfSome
<1>7. SumFunctionOnSet(TokensIn(whole), whole)
        = SumFunctionOnSet(TokensIn(whole), early) + SumFunctionOnSet(TokensIn(whole), late)
  BY <1>2, <1>3, SumSplit
<1>8. SumFunctionOnSet(EffectiveIn(whole), whole)
        = SumFunctionOnSet(EffectiveIn(whole), early) + SumFunctionOnSet(EffectiveIn(whole), late)
  BY <1>2, <1>3, SumSplit
<1> QED
  BY <1>1, <1>5, <1>6, <1>7, <1>8

\* What is credited to one worker is what is asked of that worker alone.
LEMMA WorkersAddUp ==
  ASSUME IInv, NEW a \in Account, NEW end \in 0..(MaxTime + 1)
  PROVE  Stats(a, 0, end, {}).effective
           = SumFunction([w \in Worker |-> Stats(a, 0, end, {w}).effective])
<1> DEFINE whole == WorkerLog(a, 0, end, {})
           E == EffectiveIn(whole)
           p == [row \in whole |-> row.worker]
           parts == [w \in Worker |-> SumFunctionOnSet(E, {row \in whole : p[row] = w})]
           each == [w \in Worker |-> Stats(a, 0, end, {w}).effective]
<1>1. Stats(a, 0, end, {}).effective = SumFunctionOnSet(E, whole)
  BY StatsAreSums
<1>2. IsFiniteSet(whole) /\ \A row \in whole : TokensIn(whole)[row] \in Int /\ E[row] \in Int
  BY LogIsFinite
<1>3. \A row \in whole : p[row] \in Worker
  <2>1. ASSUME NEW row \in whole PROVE row.worker \in Worker
    <3>1. PICK r \in requests, w \in workers : row = Credit(r, w)
      BY WorkerLogRows
    <3> QED
      BY <3>1 DEF Credit, IInv, TypeOK
  <2> QED
    BY <2>1
<1>4. ASSUME NEW w \in Worker PROVE parts[w] = each[w]
  <2> DEFINE own == WorkerLog(a, 0, end, {w})
  <2>1. own = {row \in whole : p[row] = w}
    <3>1. \A r \in requests, v \in workers : Credit(r, v).worker = v
      BY DEF Credit
    <3>2. \A v \in workers : Asked(a, v, {w}) <=> Asked(a, v, {}) /\ v = w
      BY DEF Asked
    <3>3. ASSUME NEW row \in own PROVE row \in whole /\ row.worker = w
      <4>1. PICK r \in requests, v \in workers :
              /\ During(r, 0, end) /\ v \in Members(r.cluster)
              /\ Asked(a, v, {w}) /\ row = Credit(r, v)
        BY WorkerLogRows
      <4> QED
        BY <3>1, <3>2, <4>1, WorkerLogRows
    <3>4. ASSUME NEW row \in whole, row.worker = w PROVE row \in own
      <4>1. PICK r \in requests, v \in workers :
              /\ During(r, 0, end) /\ v \in Members(r.cluster)
              /\ Asked(a, v, {}) /\ row = Credit(r, v)
        BY WorkerLogRows
      <4> QED
        BY <3>1, <3>2, <3>4, <4>1, WorkerLogRows
    <3> QED
      BY <3>3, <3>4
  <2>2. own \in SUBSET whole
    BY <2>1
  <2>3. each[w] = SumFunctionOnSet(EffectiveIn(own), own)
    BY StatsAreSums
  <2>4. parts[w] = SumFunctionOnSet(E, own)
    BY <2>1
  <2> HIDE DEF own, whole, parts, each
  <2>5. SumFunctionOnSet(E, own) = SumFunctionOnSet(EffectiveIn(own), own)
    BY <1>2, <2>2, SumsOfSome
  <2> QED
    BY <2>3, <2>4, <2>5
<1>5. parts = each
  BY <1>4
<1>6. SumFunctionOnSet(E, whole) = SumFunctionOnSet(parts, Worker)
  <2> HIDE DEF whole, E, p
  <2> QED
    BY <1>2, <1>3, OwnerAssumption, SumOfParts
<1>7. SumFunction(each) = SumFunctionOnSet(each, Worker)
  BY DEF SumFunction
<1> HIDE DEF parts, each, whole
<1> QED
  BY <1>1, <1>5, <1>6, <1>7 DEF each

\* The requests of a window.
RequestsIn(begin, end) == {r \in requests : During(r, begin, end)}

\* The tokens of the requests of a window are what the accounts used in it.
LEMMA UsageAddsUp ==
  ASSUME IInv, NEW end \in 0..(MaxTime + 1)
  PROVE  SumFunction([b \in Account |-> Usage(b, 0, end)])
           = SumFunctionOnSet(TokensIn(RequestsIn(0, end)), RequestsIn(0, end))
<1> DEFINE R == RequestsIn(0, end)
           T == TokensIn(R)
           p == [r \in R |-> KeyOwner[r.key]]
           parts == [b \in Account |-> SumFunctionOnSet(T, {r \in R : p[r] = b})]
           each == [b \in Account |-> Usage(b, 0, end)]
<1>1. R \in SUBSET requests /\ IsFiniteSet(R)
  BY FS_Subset DEF RequestsIn, IInv, Numbered
<1>2. \A r \in R : T[r] = r.tokens /\ T[r] \in Int /\ p[r] \in Account
  BY <1>1, OwnerAssumption, UnitAssumption DEF TokensIn, IInv, Numbered
<1>3. ASSUME NEW b \in Account PROVE parts[b] = each[b]
  <2> DEFINE own == UsageLog(b, 0, end)
             used == [r \in own |-> r.tokens]
  <2>1. own = {r \in R : p[r] = b}
    BY DEF UsageLog, RequestsIn
  <2>2. each[b] = SumFunctionOnSet(used, own)
    BY DEF Usage, SumFunction
  <2>3. parts[b] = SumFunctionOnSet(T, own)
    BY <2>1
  <2>4. own \in SUBSET R
    BY <2>1
  <2>5. \A r \in own : used[r] = T[r] /\ used[r] \in Int /\ T[r] \in Int
    BY <1>2, <2>4
  <2>6. IsFiniteSet(own)
    BY <1>1, <2>4, FS_Subset
  <2> HIDE DEF own, used, parts, each, T
  <2>7. SumFunctionOnSet(T, own) = SumFunctionOnSet(used, own)
    BY <2>5, <2>6, SumCompare
  <2> QED
    BY <2>2, <2>3, <2>7
<1>4. parts = each
  BY <1>3
<1>5. SumFunctionOnSet(T, R) = SumFunctionOnSet(parts, Account)
  <2> HIDE DEF R, T, p
  <2> QED
    BY <1>1, <1>2, OwnerAssumption, SumOfParts
<1>6. SumFunction(each) = SumFunctionOnSet(each, Account)
  BY DEF SumFunction
<1> HIDE DEF parts, each, R, T
<1> QED
  BY <1>4, <1>5, <1>6 DEF each, R, T

\* What the accounts are shown of a window together.
EveryLog(end) == UNION {WorkerLog(a, 0, end, {}) : a \in Account}

LEMMA EveryLogRows ==
  ASSUME IInv, NEW end
  PROVE  \A row : row \in EveryLog(end) <=>
           \E r \in RequestsIn(0, end), w \in workers :
             w \in Members(r.cluster) /\ row = Credit(r, w)
<1>1. ASSUME NEW row \in EveryLog(end)
      PROVE  \E r \in RequestsIn(0, end), w \in workers :
               w \in Members(r.cluster) /\ row = Credit(r, w)
  <2>1. PICK a \in Account : row \in WorkerLog(a, 0, end, {})
    BY DEF EveryLog
  <2> QED
    BY <2>1, WorkerLogRows DEF RequestsIn
<1>2. ASSUME NEW r \in RequestsIn(0, end), NEW w \in workers, w \in Members(r.cluster)
      PROVE  Credit(r, w) \in EveryLog(end)
  <2>1. Owner[w] \in Account /\ Asked(Owner[w], w, {})
    BY OwnerAssumption DEF IInv, TypeOK, Asked
  <2>2. Credit(r, w) \in WorkerLog(Owner[w], 0, end, {})
    BY <1>2, <2>1, WorkerLogRows DEF RequestsIn
  <2> QED
    BY <2>1, <2>2 DEF EveryLog
<1> QED
  BY <1>1, <1>2

LEMMA EveryLogIsFinite ==
  ASSUME IInv, NEW end
  PROVE  LET rows == EveryLog(end) IN
         /\ IsFiniteSet(rows)
         /\ \A row \in rows : TokensIn(rows)[row] \in Int /\ EffectiveIn(rows)[row] \in Int
<1>1. \A row \in EveryLog(end) : \E r \in requests, w \in workers :
         w \in Members(r.cluster) /\ row = Credit(r, w)
  BY EveryLogRows DEF RequestsIn
<1> QED
  BY <1>1, RowsAreFinite

\* A row is shown to one account, the owner of its worker.
LEMMA AccountsAddUp ==
  ASSUME IInv, NEW end
  PROVE  SumFunction([a \in Account |-> Stats(a, 0, end, {}).effective])
           = SumFunctionOnSet(EffectiveIn(EveryLog(end)), EveryLog(end))
<1> DEFINE U == EveryLog(end)
           E == EffectiveIn(U)
           p == [row \in U |-> Owner[row.worker]]
           parts == [a \in Account |-> SumFunctionOnSet(E, {row \in U : p[row] = a})]
           each == [a \in Account |-> Stats(a, 0, end, {}).effective]
<1>1. IsFiniteSet(U) /\ \A row \in U : TokensIn(U)[row] \in Int /\ E[row] \in Int
  BY EveryLogIsFinite
<1>2. \A w \in workers : Owner[w] \in Account
  BY OwnerAssumption DEF IInv, TypeOK
<1>3. \A r \in requests, w \in workers : Credit(r, w).worker = w
  BY DEF Credit
<1>4. \A row \in U : p[row] \in Account
  <2>1. ASSUME NEW row \in U PROVE Owner[row.worker] \in Account
    <3>1. PICK r \in RequestsIn(0, end), w \in workers : row = Credit(r, w)
      BY EveryLogRows
    <3> QED
      BY <1>2, <1>3, <3>1 DEF RequestsIn
  <2> QED
    BY <2>1
<1>5. ASSUME NEW a \in Account PROVE parts[a] = each[a]
  <2> DEFINE own == WorkerLog(a, 0, end, {})
  <2>1. own = {row \in U : p[row] = a}
    <3>1. \A w \in workers : Asked(a, w, {}) <=> Owner[w] = a
      BY DEF Asked
    <3>2. ASSUME NEW row \in own PROVE row \in U /\ Owner[row.worker] = a
      <4>1. PICK r \in requests, w \in workers :
              Asked(a, w, {}) /\ row = Credit(r, w)
        BY WorkerLogRows
      <4> QED
        BY <1>3, <3>1, <4>1 DEF EveryLog
    <3>3. ASSUME NEW row \in U, Owner[row.worker] = a PROVE row \in own
      <4>1. PICK r \in RequestsIn(0, end), w \in workers :
              w \in Members(r.cluster) /\ row = Credit(r, w)
        BY EveryLogRows
      <4> QED
        BY <1>3, <3>1, <3>3, <4>1, WorkerLogRows DEF RequestsIn
    <3> QED
      BY <3>2, <3>3
  <2>2. own \in SUBSET U
    BY <2>1
  <2>3. each[a] = SumFunctionOnSet(EffectiveIn(own), own)
    BY StatsAreSums
  <2>4. parts[a] = SumFunctionOnSet(E, own)
    BY <2>1
  <2> HIDE DEF own, U, parts, each
  <2>5. SumFunctionOnSet(E, own) = SumFunctionOnSet(EffectiveIn(own), own)
    BY <1>1, <2>2, SumsOfSome
  <2> QED
    BY <2>3, <2>4, <2>5
<1>6. parts = each
  BY <1>5
<1>7. SumFunctionOnSet(E, U) = SumFunctionOnSet(parts, Account)
  <2> HIDE DEF U, E, p
  <2> QED
    BY <1>1, <1>4, OwnerAssumption, SumOfParts
<1>8. SumFunction(each) = SumFunctionOnSet(each, Account)
  BY DEF SumFunction
<1> HIDE DEF parts, each, U
<1> QED
  BY <1>6, <1>7, <1>8 DEF each, U

\* The accounts are credited with no more than the tokens of the window's requests.
LEMMA CreditedIsUsed ==
  ASSUME IInv, NEW end
  PROVE  SumFunctionOnSet(EffectiveIn(EveryLog(end)), EveryLog(end))
           <= SumFunctionOnSet(TokensIn(RequestsIn(0, end)), RequestsIn(0, end))
<1> DEFINE R == RequestsIn(0, end)
           T == TokensIn(R)
           U == EveryLog(end)
           E == EffectiveIn(U)
           p == [row \in U |-> CHOOSE r \in R : r.id = row.request]
           parts == [r \in R |-> SumFunctionOnSet(E, {row \in U : p[row] = r})]
<1>1. R \in SUBSET requests /\ IsFiniteSet(R)
  BY FS_Subset DEF RequestsIn, IInv, Numbered
<1>2. IsFiniteSet(U) /\ \A row \in U : E[row] \in Int
  BY EveryLogIsFinite
<1>3. ASSUME NEW r \in R, NEW w \in workers, Credit(r, w) \in U
      PROVE  p[Credit(r, w)] = r
  <2>1. Credit(r, w).request = r.id
    BY DEF Credit
  <2>2. \A q \in R : q.id = r.id => q = r
    BY <1>1 DEF IInv, Numbered
  <2> QED
    BY <1>3, <2>1, <2>2
<1>4. ASSUME NEW row \in U
      PROVE  \E r \in R, w \in workers : w \in Members(r.cluster) /\ row = Credit(r, w)
  BY EveryLogRows
<1>5. \A row \in U : p[row] \in R
  BY <1>3, <1>4
<1>6. ASSUME NEW r \in R PROVE parts[r] \in Int /\ T[r] \in Int /\ parts[r] <= T[r]
  <2> DEFINE W == Members(r.cluster) \cap workers
             own == {row \in U : p[row] = r}
  <2>1. own = {Credit(r, w) : w \in W}
    <3>1. ASSUME NEW row \in own PROVE row \in {Credit(r, w) : w \in W}
      <4>1. PICK q \in R, w \in workers : w \in Members(q.cluster) /\ row = Credit(q, w)
        BY <1>4
      <4>2. q = r
        BY <1>3, <4>1
      <4> QED
        BY <4>1, <4>2
    <3>2. ASSUME NEW w \in W PROVE Credit(r, w) \in own
      <4>1. Credit(r, w) \in U
        BY EveryLogRows
      <4> QED
        BY <1>3, <4>1
    <3> QED
      BY <3>1, <3>2
  <2>2. W \in SUBSET Members(r.cluster) /\ r \in requests
    BY <1>1
  <2>3. \A w \in W : E[Credit(r, w)] = Effective(Credit(r, w))
    BY <2>1 DEF EffectiveIn
  <2>4. parts[r] = SumFunctionOnSet(E, own)
    OBVIOUS
  <2>5. T[r] = r.tokens /\ r.tokens \in Int
    BY <2>2, UnitAssumption DEF TokensIn, IInv, Numbered
  <2> HIDE DEF W, E, own, T, parts
  <2>6. SumFunctionOnSet(E, {Credit(r, w) : w \in W}) = SumFunctionOnSet(Work(r), W)
    BY <2>2, <2>3, CreditedIsDone
  <2>7. SumFunctionOnSet(Work(r), W) \in Nat /\ SumFunctionOnSet(Work(r), W) <= r.tokens
    BY <2>2, WorkOfSome
  <2> QED
    BY <2>1, <2>4, <2>5, <2>6, <2>7
<1>7. SumFunctionOnSet(E, U) = SumFunctionOnSet(parts, R)
  <2> HIDE DEF R, U, E, p
  <2> QED
    BY <1>1, <1>2, <1>5, SumOfParts
<1> HIDE DEF R, T, U, E, parts
<1>8. SumFunctionOnSet(parts, R) <= SumFunctionOnSet(T, R)
  BY <1>1, <1>6, SumCompare
<1> QED
  BY <1>7, <1>8 DEF R, T, U, E

\* The statistics of adjacent windows, and those of single workers, add up, and
\* the accounts together are credited with no more than they used.
THEOREM StatisticsAddUp == Spec => []StatsAddUp
<1>1. ASSUME IInv, NEW end \in 0..(MaxTime + 1), NEW a \in Account
      PROVE  LET whole == Stats(a, 0, end, {}) IN
             /\ \A mid \in 0..end :
                  LET early == Stats(a, 0, mid, {})
                      late  == Stats(a, mid, end, {}) IN
                  /\ early.total + late.total = whole.total
                  /\ early.effective + late.effective = whole.effective
             /\ whole.effective = SumFunction([w \in Worker |-> Stats(a, 0, end, {w}).effective])
  BY <1>1, WindowsAddUp, WorkersAddUp
<1>2. ASSUME IInv, NEW end \in 0..(MaxTime + 1)
      PROVE  SumFunction([a \in Account |-> Stats(a, 0, end, {}).effective])
               <= SumFunction([a \in Account |-> Usage(a, 0, end)])
  BY <1>2, AccountsAddUp, CreditedIsUsed, UsageAddsUp
<1>3. IInv => StatsAddUp
  BY <1>1, <1>2 DEF StatsAddUp
<1> QED
  BY <1>3, Invariance, PTL
====
