------------------------------ MODULE FiniteFacts ------------------------------
(***************************************************************************)
(* Facts about finite data that the proofs of several components cite:     *)
(* smallest counterexamples, which stand in for induction, functions that  *)
(* are defined by recursion on a number, and sums over finite sets, the    *)
(* fold of module Functions.                                               *)
(***************************************************************************)
EXTENDS Integers, FiniteSets, Functions, FiniteSetTheorems, WellFoundedInduction, TLAPS
-----------------------------------------------------------------------------
(* Smallest counterexamples.                                               *)

\* Induction over the size of a set, without an operator as parameter: among the
\* finite subsets that fail something there is one all of whose subsets do not.
LEMMA MinimalSubset ==
  ASSUME NEW S, IsFiniteSet(S), NEW Bad \in SUBSET (SUBSET S), Bad # {}
  PROVE  \E T \in Bad : \A U \in Bad : U \subseteq T => U = T
<1>1. FiniteSubsetsOf(S) = SUBSET S
  BY FS_FiniteSubsetsOfFinite
<1>2. IsWellFoundedOn(StrictSubsetOrdering(S), SUBSET S)
  BY <1>1, FS_StrictSubsetOrderingWellFounded
<1>3. PICK T \in Bad : \A U \in Bad : ~(<<U, T>> \in StrictSubsetOrdering(S))
  BY <1>2, WFMin
<1>4. ASSUME NEW U \in Bad, U \subseteq T PROVE U = T
  BY <1>3, <1>4 DEF StrictSubsetOrdering
<1> QED
  BY <1>4

\* The same for a number.
LEMMA SmallestNumber ==
  ASSUME NEW Bad \in SUBSET Nat, Bad # {}
  PROVE  \E m \in Bad : \A k \in Bad : m <= k
<1>1. PICK b \in Bad : TRUE
  OBVIOUS
<1> DEFINE Upto == {1..k : k \in {k \in Bad : k <= b}}
<1>2. Upto # {} /\ Upto \in SUBSET (SUBSET (1..b))
  BY <1>1
<1>3. IsFiniteSet(1..b)
  BY <1>1, FS_Interval
<1>4. PICK T \in Upto : \A U \in Upto : U \subseteq T => U = T
  <2> DEFINE S == 1..b
  <2>1. Upto # {} /\ Upto \in SUBSET (SUBSET S) /\ IsFiniteSet(S)
    BY <1>2, <1>3
  <2> HIDE DEF Upto, S
  <2> QED
    BY <2>1, MinimalSubset
<1>5. PICK m \in Bad : m <= b /\ T = 1..m
  OBVIOUS
<1>6. ASSUME NEW k \in Bad, k < m PROVE FALSE
  <2>1. 1..k \in Upto /\ 1..k \subseteq 1..m
    BY <1>1, <1>5, <1>6
  <2>2. 1..k = 1..m
    BY <1>4, <1>5, <2>1
  <2>3. m \in 1..m /\ m \notin 1..k
    BY <1>6
  <2> QED
    BY <2>2, <2>3
<1>7. \A k \in Bad : m <= k
  BY <1>6
<1> QED
  BY <1>7

\* A value for 0 and a step from each number to the next one define a function.
Recurs(g, n, base, F) == g[0] = base /\ \A i \in 1..n : g[i] = F[<<i, g[i - 1]>>]

LEMMA NatRecursion ==
  ASSUME NEW n \in Nat, NEW A, NEW base \in A, NEW F \in [(1..n) \X A -> A]
  PROVE  \E g \in [0..n -> A] : Recurs(g, n, base, F)
<1> DEFINE Defines(g, m) == g[0] = base /\ \A i \in 1..m : g[i] = F[<<i, g[i - 1]>>]
           Bad == {m \in 0..n : ~\E g \in [0..m -> A] : Defines(g, m)}
<1> SUFFICES ASSUME Bad # {} PROVE FALSE
  <2>1. n \in 0..n
    OBVIOUS
  <2> QED
    BY <2>1 DEF Recurs
<1>1. PICK m \in Bad : \A k \in Bad : m <= k
  <2>1. Bad \in SUBSET Nat
    OBVIOUS
  <2> HIDE DEF Bad
  <2> QED
    BY <2>1, SmallestNumber
<1>2. CASE m = 0
  <2> DEFINE g == [i \in 0..0 |-> base]
  <2>1. g \in [0..m -> A] /\ Defines(g, m)
    BY <1>2
  <2> HIDE DEF g
  <2> QED
    BY <2>1
<1>3. CASE m # 0
  <2>1. m - 1 \in 0..n /\ m - 1 \notin Bad /\ m \in 1..n
    <3>1. m \in 0..n /\ ~(m <= m - 1)
      OBVIOUS
    <3> HIDE DEF Bad
    <3> QED
      BY <1>1, <1>3, <3>1
  <2>2. PICK g \in [0..(m - 1) -> A] : Defines(g, m - 1)
    BY <2>1
  <2> DEFINE next == F[<<m, g[m - 1]>>]
             h == [i \in 0..m |-> IF i = m THEN next ELSE g[i]]
  <2>3. next \in A
    BY <2>1
  <2>4. h \in [0..m -> A]
    <3> HIDE DEF next
    <3> QED
      BY <2>1, <2>3
  <2>5. \A i \in 0..(m - 1) : h[i] = g[i]
    BY <2>1
  <2>6. h[m] = F[<<m, h[m - 1]>>]
    <3>1. h[m] = next
      BY <2>1
    <3>2. h[m - 1] = g[m - 1]
      BY <2>1, <2>5
    <3> HIDE DEF h
    <3> QED
      BY <3>1, <3>2
  <2>7. ASSUME NEW i \in 1..m PROVE h[i] = F[<<i, h[i - 1]>>]
    <3> HIDE DEF h
    <3>1. CASE i = m
      BY <2>6, <3>1
    <3>2. CASE i # m
      BY <2>1, <2>2, <2>5, <3>2
    <3> QED
      BY <3>1, <3>2
  <2> HIDE DEF h
  <2>8. Defines(h, m)
    BY <2>1, <2>2, <2>5, <2>7
  <2> QED
    BY <2>4, <2>8
<1> QED
  BY <1>2, <1>3
-----------------------------------------------------------------------------
(* Sums.                                                                   *)

Pick(s) == CHOOSE x \in s : TRUE

\* The sum as its definition computes it, on every subset of S.
IsSum(g, fun, S) ==
    g = [s \in SUBSET S |-> IF s = {} THEN 0 ELSE fun[Pick(s)] + g[s \ {Pick(s)}]]

Sums(fun, S) == CHOOSE g : IsSum(g, fun, S)

LEMMA SumIs == ASSUME NEW fun, NEW S PROVE SumFunctionOnSet(fun, S) = Sums(fun, S)[S]
BY DEF SumFunctionOnSet, FoldFunctionOnSet, MapThenFoldSet, Sums, IsSum, Pick

\* A solution on a set is one on its subsets.
LEMMA SumsAgree ==
  ASSUME NEW fun, NEW T, IsFiniteSet(T), NEW U \in SUBSET T, NEW g, NEW h,
         IsSum(g, fun, T), IsSum(h, fun, U)
  PROVE  \A s \in SUBSET U : g[s] = h[s]
<1> DEFINE Bad == {s \in SUBSET U : g[s] # h[s]}
<1> SUFFICES ASSUME Bad # {} PROVE FALSE
  OBVIOUS
<1>1. IsFiniteSet(U)
  BY FS_Subset
<1>2. PICK s \in Bad : \A r \in Bad : r \subseteq s => r = s
  <2>1. Bad \in SUBSET (SUBSET U)
    OBVIOUS
  <2> HIDE DEF Bad
  <2> QED
    BY <2>1, <1>1, MinimalSubset
<1>3. /\ g[s] = IF s = {} THEN 0 ELSE fun[Pick(s)] + g[s \ {Pick(s)}]
      /\ h[s] = IF s = {} THEN 0 ELSE fun[Pick(s)] + h[s \ {Pick(s)}]
  BY DEF IsSum
<1>4. s # {}
  BY <1>3
<1>5. Pick(s) \in s
  BY <1>4 DEF Pick
<1>6. s \ {Pick(s)} \in SUBSET U /\ s \ {Pick(s)} \notin Bad
  BY <1>2, <1>5
<1> QED
  BY <1>3, <1>4, <1>6

LEMMA SumsExist == ASSUME NEW fun, NEW S, IsFiniteSet(S) PROVE IsSum(Sums(fun, S), fun, S)
<1> DEFINE Bad == {T \in SUBSET S : ~\E g : IsSum(g, fun, T)}
<1>1. ASSUME NEW T, NEW g, IsSum(g, fun, T) PROVE IsSum(Sums(fun, T), fun, T)
  BY <1>1 DEF Sums
<1>2. SUFFICES ASSUME Bad # {} PROVE FALSE
  BY <1>1
<1>3. PICK T \in Bad : \A U \in Bad : U \subseteq T => U = T
  <2>1. Bad \in SUBSET (SUBSET S)
    OBVIOUS
  <2> HIDE DEF Bad
  <2> QED
    BY <2>1, <1>2, MinimalSubset
<1> DEFINE Below(s) == Sums(fun, s \ {Pick(s)})[s \ {Pick(s)}]
           g == [s \in SUBSET T |-> IF s = {} THEN 0 ELSE fun[Pick(s)] + Below(s)]
<1>4. ASSUME NEW r \in SUBSET T, r # T PROVE IsSum(Sums(fun, r), fun, r)
  <2>1. r \in SUBSET S /\ r \notin Bad
    BY <1>3, <1>4
  <2> QED
    BY <1>1, <2>1
<1>5. ASSUME NEW r \in SUBSET T, r # T PROVE Sums(fun, r)[r] = g[r]
  <2>1. IsSum(Sums(fun, r), fun, r)
    BY <1>4, <1>5
  <2>2. Sums(fun, r)[r] = IF r = {} THEN 0 ELSE fun[Pick(r)] + Sums(fun, r)[r \ {Pick(r)}]
    BY <2>1 DEF IsSum
  <2>3. CASE r = {}
    BY <2>2, <2>3
  <2>4. CASE r # {}
    <3>1. Pick(r) \in r
      BY <2>4 DEF Pick
    <3>2. r \ {Pick(r)} \in SUBSET T /\ r \ {Pick(r)} # T
      BY <3>1
    <3>3. IsSum(Sums(fun, r \ {Pick(r)}), fun, r \ {Pick(r)})
      BY <1>4, <3>2
    <3>4. IsFiniteSet(r)
      BY FS_Subset
    <3>5. Sums(fun, r)[r \ {Pick(r)}] = Below(r)
      BY <2>1, <3>3, <3>4, SumsAgree
    <3> QED
      BY <2>2, <2>4, <3>5
  <2> QED
    BY <2>3, <2>4
<1>6. ASSUME NEW s \in SUBSET T, s # {} PROVE Below(s) = g[s \ {Pick(s)}]
  <2>1. Pick(s) \in s
    BY <1>6 DEF Pick
  <2>2. s \ {Pick(s)} \in SUBSET T /\ s \ {Pick(s)} # T
    BY <2>1
  <2> HIDE DEF g
  <2> QED
    BY <1>5, <2>2
<1>7. g = [s \in SUBSET T |-> IF s = {} THEN 0 ELSE fun[Pick(s)] + g[s \ {Pick(s)}]]
  <2>1. ASSUME NEW s \in SUBSET T
        PROVE  g[s] = IF s = {} THEN 0 ELSE fun[Pick(s)] + g[s \ {Pick(s)}]
    BY <1>6, <2>1
  <2>2. g = [s \in SUBSET T |-> g[s]]
    OBVIOUS
  <2> HIDE DEF g
  <2> QED
    BY <2>1, <2>2
<1> HIDE DEF g
<1>8. IsSum(g, fun, T)
  BY <1>7 DEF IsSum
<1> QED
  BY <1>3, <1>8

\* What the fold computes: nothing, or one element and the rest.
LEMMA SumEmpty == ASSUME NEW fun PROVE SumFunctionOnSet(fun, {}) = 0
<1>1. IsSum(Sums(fun, {}), fun, {})
  BY SumsExist, FS_EmptySet
<1> QED
  BY <1>1, SumIs DEF IsSum

LEMMA SumStep ==
  ASSUME NEW fun, NEW S, IsFiniteSet(S), S # {}
  PROVE  /\ Pick(S) \in S
         /\ SumFunctionOnSet(fun, S) = fun[Pick(S)] + SumFunctionOnSet(fun, S \ {Pick(S)})
<1> DEFINE R == S \ {Pick(S)}
<1>1. Pick(S) \in S
  BY DEF Pick
<1>2. IsFiniteSet(R)
  BY FS_Subset
<1>3. IsSum(Sums(fun, S), fun, S) /\ IsSum(Sums(fun, R), fun, R)
  BY <1>2, SumsExist
<1>4. Sums(fun, S)[S] = fun[Pick(S)] + Sums(fun, S)[R]
  BY <1>3 DEF IsSum
<1>5. Sums(fun, S)[R] = Sums(fun, R)[R]
  <2>1. R \in SUBSET S /\ R \in SUBSET R
    OBVIOUS
  <2> HIDE DEF R
  <2> QED
    BY <1>3, <2>1, SumsAgree
<1> QED
  BY <1>1, <1>4, <1>5, SumIs

LEMMA SumType ==
  ASSUME NEW S, IsFiniteSet(S), NEW fun, \A x \in S : fun[x] \in Nat
  PROVE  SumFunctionOnSet(fun, S) \in Nat
<1> DEFINE Bad == {T \in SUBSET S : SumFunctionOnSet(fun, T) \notin Nat}
<1> SUFFICES ASSUME Bad # {} PROVE FALSE
  OBVIOUS
<1>1. PICK T \in Bad : \A U \in Bad : U \subseteq T => U = T
  <2>1. Bad \in SUBSET (SUBSET S)
    OBVIOUS
  <2> HIDE DEF Bad
  <2> QED
    BY <2>1, MinimalSubset
<1>2. IsFiniteSet(T) /\ T # {}
  <2>1. T \in SUBSET S
    OBVIOUS
  <2>2. T # {}
    BY SumEmpty
  <2> QED
    BY <2>1, <2>2, FS_Subset
<1>3. Pick(T) \in T /\ SumFunctionOnSet(fun, T) = fun[Pick(T)] + SumFunctionOnSet(fun, T \ {Pick(T)})
  BY <1>2, SumStep
<1>4. T \ {Pick(T)} \notin Bad /\ T \ {Pick(T)} \in SUBSET S
  BY <1>1, <1>3
<1>5. SumFunctionOnSet(fun, T \ {Pick(T)}) \in Nat /\ fun[Pick(T)] \in Nat
  BY <1>3, <1>4
<1> QED
  BY <1>3, <1>5

\* The order in which the fold takes the elements does not matter.
LEMMA SumRemove ==
  ASSUME NEW S, IsFiniteSet(S), NEW fun, \A x \in S : fun[x] \in Nat
  PROVE  \A x \in S : SumFunctionOnSet(fun, S) = fun[x] + SumFunctionOnSet(fun, S \ {x})
<1> DEFINE Sum(T) == SumFunctionOnSet(fun, T)
           Bad == {T \in SUBSET S : \E x \in T : Sum(T) # fun[x] + Sum(T \ {x})}
<1> SUFFICES ASSUME Bad # {} PROVE FALSE
  OBVIOUS
<1>1. PICK T \in Bad : \A U \in Bad : U \subseteq T => U = T
  <2>1. Bad \in SUBSET (SUBSET S)
    OBVIOUS
  <2> HIDE DEF Bad
  <2> QED
    BY <2>1, MinimalSubset
<1>2. PICK x \in T : Sum(T) # fun[x] + Sum(T \ {x})
  BY <1>1
<1> DEFINE p == Pick(T)
<1>3. IsFiniteSet(T)
  BY FS_Subset
<1>4. p \in T /\ Sum(T) = fun[p] + Sum(T \ {p})
  BY <1>2, <1>3, SumStep
<1> HIDE DEF p
<1>5. p # x
  BY <1>2, <1>4
<1>6. T \ {p} \notin Bad /\ T \ {x} \notin Bad
  BY <1>1, <1>4
<1>7. Sum(T \ {p}) = fun[x] + Sum((T \ {p}) \ {x})
  BY <1>2, <1>5, <1>6
<1>8. Sum(T \ {x}) = fun[p] + Sum((T \ {x}) \ {p})
  BY <1>4, <1>5, <1>6
<1>9. (T \ {p}) \ {x} = (T \ {x}) \ {p}
  OBVIOUS
<1>10. Sum((T \ {x}) \ {p}) \in Nat /\ fun[p] \in Nat /\ fun[x] \in Nat
  <2>1. IsFiniteSet((T \ {x}) \ {p})
    BY <1>3, FS_Subset
  <2> QED
    BY <1>2, <1>4, <2>1, SumType
<1> HIDE DEF Sum
<1> QED
  BY <1>2, <1>4, <1>7, <1>8, <1>9, <1>10

\* A sum depends on the values over its set only.
LEMMA SumSame ==
  ASSUME NEW S, IsFiniteSet(S), NEW f, NEW g, \A x \in S : f[x] = g[x]
  PROVE  SumFunctionOnSet(f, S) = SumFunctionOnSet(g, S)
<1> DEFINE Bad == {T \in SUBSET S : SumFunctionOnSet(f, T) # SumFunctionOnSet(g, T)}
<1> SUFFICES ASSUME Bad # {} PROVE FALSE
  OBVIOUS
<1>1. PICK T \in Bad : \A U \in Bad : U \subseteq T => U = T
  <2>1. Bad \in SUBSET (SUBSET S)
    OBVIOUS
  <2> HIDE DEF Bad
  <2> QED
    BY <2>1, MinimalSubset
<1>2. IsFiniteSet(T) /\ T # {}
  <2>1. T \in SUBSET S
    OBVIOUS
  <2>2. T # {}
    BY SumEmpty
  <2> QED
    BY <2>1, <2>2, FS_Subset
<1>3. /\ Pick(T) \in T
      /\ SumFunctionOnSet(f, T) = f[Pick(T)] + SumFunctionOnSet(f, T \ {Pick(T)})
      /\ SumFunctionOnSet(g, T) = g[Pick(T)] + SumFunctionOnSet(g, T \ {Pick(T)})
  BY <1>2, SumStep
<1>4. T \ {Pick(T)} \notin Bad /\ T \ {Pick(T)} \in SUBSET S
  BY <1>1, <1>3
<1> QED
  BY <1>3, <1>4

LEMMA SumZero ==
  ASSUME NEW S, IsFiniteSet(S), NEW fun, \A x \in S : fun[x] = 0
  PROVE  SumFunctionOnSet(fun, S) = 0
<1> DEFINE Bad == {T \in SUBSET S : SumFunctionOnSet(fun, T) # 0}
<1> SUFFICES ASSUME Bad # {} PROVE FALSE
  OBVIOUS
<1>1. PICK T \in Bad : \A U \in Bad : U \subseteq T => U = T
  <2>1. Bad \in SUBSET (SUBSET S)
    OBVIOUS
  <2> HIDE DEF Bad
  <2> QED
    BY <2>1, MinimalSubset
<1>2. IsFiniteSet(T) /\ T # {}
  <2>1. T \in SUBSET S
    OBVIOUS
  <2>2. T # {}
    BY SumEmpty
  <2> QED
    BY <2>1, <2>2, FS_Subset
<1>3. Pick(T) \in T /\ SumFunctionOnSet(fun, T) = fun[Pick(T)] + SumFunctionOnSet(fun, T \ {Pick(T)})
  BY <1>2, SumStep
<1>4. T \ {Pick(T)} \notin Bad /\ T \ {Pick(T)} \in SUBSET S
  BY <1>1, <1>3
<1> QED
  BY <1>3, <1>4

\* One summand changes.
LEMMA SumChange ==
  ASSUME NEW S, IsFiniteSet(S), NEW f, NEW g, NEW x \in S,
         \A y \in S : f[y] \in Nat /\ g[y] \in Nat,
         \A y \in S \ {x} : f[y] = g[y]
  PROVE  /\ SumFunctionOnSet(f, S) \in Nat /\ SumFunctionOnSet(g, S) \in Nat
         /\ SumFunctionOnSet(g, S) + f[x] = SumFunctionOnSet(f, S) + g[x]
<1>1. IsFiniteSet(S \ {x})
  BY FS_Subset
<1>2. /\ SumFunctionOnSet(f, S) = f[x] + SumFunctionOnSet(f, S \ {x})
      /\ SumFunctionOnSet(g, S) = g[x] + SumFunctionOnSet(g, S \ {x})
  BY SumRemove
<1>3. SumFunctionOnSet(f, S \ {x}) = SumFunctionOnSet(g, S \ {x})
  BY <1>1, SumSame
<1>4. SumFunctionOnSet(f, S \ {x}) \in Nat
  BY <1>1, SumType
<1> QED
  BY <1>2, <1>3, <1>4

\* One more summand.
LEMMA SumAdd ==
  ASSUME NEW S, IsFiniteSet(S), NEW x, x \notin S, NEW f, NEW g,
         \A y \in S : f[y] \in Nat /\ g[y] = f[y], g[x] \in Nat
  PROVE  /\ SumFunctionOnSet(f, S) \in Nat
         /\ SumFunctionOnSet(g, S \cup {x}) = SumFunctionOnSet(f, S) + g[x]
<1> DEFINE T == S \cup {x}
<1>1. IsFiniteSet(T) /\ x \in T /\ \A y \in T : g[y] \in Nat
  BY FS_AddElement
<1>2. T \ {x} = S
  OBVIOUS
<1> HIDE DEF T
<1>3. SumFunctionOnSet(g, T) = g[x] + SumFunctionOnSet(g, T \ {x})
  BY <1>1, SumRemove
<1>4. SumFunctionOnSet(g, S) = SumFunctionOnSet(f, S)
  BY SumSame
<1>5. SumFunctionOnSet(f, S) \in Nat
  BY SumType
<1>6. SumFunctionOnSet(g, T) = SumFunctionOnSet(f, S) + g[x]
  <2> DEFINE a == g[x]
             b == SumFunctionOnSet(f, S)
  <2>1. SumFunctionOnSet(g, T) = a + b
    BY <1>2, <1>3, <1>4
  <2>2. a \in Nat /\ b \in Nat
    BY <1>5
  <2> HIDE DEF a, b
  <2>3. a + b = b + a
    BY <2>2
  <2> QED
    BY <2>1, <2>3 DEF a, b
<1> QED
  BY <1>5, <1>6 DEF T

\* The sizes of sets that have nothing in common add up to the size of their union.
LEMMA SumOfParts ==
  ASSUME NEW T, IsFiniteSet(T), NEW size, NEW part,
         \A a \in T : IsFiniteSet(part[a]) /\ size[a] = Cardinality(part[a]),
         \A a, b \in T : a # b => part[a] \cap part[b] = {},
         NEW whole, \A x : x \in whole <=> \E a \in T : x \in part[a]
  PROVE  SumFunctionOnSet(size, T) = Cardinality(whole)
<1>0. SUFFICES SumFunctionOnSet(size, T) = Cardinality(UNION {part[a] : a \in T})
  <2>1. whole = UNION {part[a] : a \in T}
    OBVIOUS
  <2> QED
    BY <2>1
<1> DEFINE All(U) == UNION {part[a] : a \in U}
           Bad == {U \in SUBSET T : ~(/\ IsFiniteSet(All(U))
                                      /\ SumFunctionOnSet(size, U) = Cardinality(All(U)))}
<1> SUFFICES ASSUME Bad # {} PROVE FALSE
  OBVIOUS
<1>1. PICK U \in Bad : \A V \in Bad : V \subseteq U => V = U
  <2>1. Bad \in SUBSET (SUBSET T)
    OBVIOUS
  <2> HIDE DEF Bad
  <2> QED
    BY <2>1, MinimalSubset
<1>2. U # {}
  <2>1. All({}) = {}
    OBVIOUS
  <2>2. {} \notin Bad
    BY <2>1, SumEmpty, FS_EmptySet
  <2> QED
    BY <2>2
<1>3. PICK a \in U : TRUE
  BY <1>2
<1> DEFINE V == U \ {a}
<1>4. IsFiniteSet(U) /\ IsFiniteSet(V) /\ V \in SUBSET T /\ a \in T
  BY FS_Subset
<1>5. IsFiniteSet(All(V)) /\ SumFunctionOnSet(size, V) = Cardinality(All(V))
  <2>1. V \notin Bad
    <3>1. V \subseteq U /\ V # U
      BY <1>3
    <3> HIDE DEF Bad
    <3> QED
      BY <1>1, <3>1
  <2> HIDE DEF V
  <2> QED
    BY <1>4, <2>1
<1>6. \A b \in U : size[b] \in Nat
  BY FS_CardinalityType
<1>7. SumFunctionOnSet(size, U) = size[a] + SumFunctionOnSet(size, V)
  BY <1>4, <1>6, SumRemove
<1>8. All(U) = part[a] \cup All(V) /\ part[a] \cap All(V) = {}
  BY <1>4
<1>9. IsFiniteSet(part[a]) /\ size[a] = Cardinality(part[a])
  BY <1>4
<1> HIDE DEF All
<1>10. /\ IsFiniteSet(All(U))
       /\ Cardinality(All(U)) = Cardinality(part[a]) + Cardinality(All(V)) - Cardinality({})
  <2> DEFINE p == part[a]
             q == All(V)
  <2>1. All(U) = p \cup q /\ p \cap q = {} /\ IsFiniteSet(p) /\ IsFiniteSet(q)
    BY <1>5, <1>8, <1>9
  <2> HIDE DEF p, q
  <2>2. /\ IsFiniteSet(p \cup q)
        /\ Cardinality(p \cup q) = Cardinality(p) + Cardinality(q) - Cardinality(p \cap q)
    BY <2>1, FS_Union
  <2>3. p \cap q = {} /\ All(U) = p \cup q
    BY <2>1
  <2>4. Cardinality(All(U)) = Cardinality(p) + Cardinality(q) - Cardinality({})
    BY <2>2, <2>3
  <2> QED
    BY <2>2, <2>3, <2>4 DEF p, q
<1>11. Cardinality(All(U)) = size[a] + SumFunctionOnSet(size, V)
  BY <1>5, <1>9, <1>10, FS_EmptySet, FS_CardinalityType
<1> QED
  BY <1>7, <1>10, <1>11

\* The elements of a finite set, one by one, make a finite set.
LEMMA FiniteImage ==
  ASSUME NEW S, IsFiniteSet(S), NEW f
  PROVE  IsFiniteSet({f[x] : x \in S})
<1> DEFINE T == {f[x] : x \in S}
           g == [x \in S |-> f[x]]
<1>1. g \in Surjection(S, T)
  BY DEF Surjection
<1> HIDE DEF g, T
<1>2. IsFiniteSet(T)
  BY <1>1, FS_Surjection
<1> QED
  BY <1>2 DEF T
=============================================================================
