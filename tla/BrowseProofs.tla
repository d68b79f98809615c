------------------------------ MODULE BrowseProofs -----------------------------
(***************************************************************************)
(* The proofs about the pages that read (Browse, EventDetail) and about    *)
(* what they derive from the collector's rows (Derive).                    *)
(*                                                                         *)
(* First what the operators of Derive return, whatever they are given:     *)
(* filtering, sorting, the rows of a stack trace, events, applications and *)
(* series.  Each is defined by a function or a sum; recursion is followed  *)
(* to its first value that fails, which FiniteFacts finds.  From them      *)
(* follows that whatever the queries were answered is Sound and Counted,   *)
(* whichever states their tables were read in, and that is all the         *)
(* inductive invariant IInv says of the answers: the properties of the     *)
(* pages are theorems about what is rendered from it.  That the newest     *)
(* occurrence is shown needs what the requests and the cache hold as well  *)
(* (Requested, UpToDate).                                                  *)
(***************************************************************************)
EXTENDS Browse, FiniteFacts, SequenceTheorems, TLAPS
-----------------------------------------------------------------------------
(* Filtering.                                                              *)

IsUpto(g, s, K) ==
    g = [n \in 0..Len(s) |->
            IF n = 0 THEN <<>> ELSE IF n \in K THEN Append(g[n - 1], s[n]) ELSE g[n - 1]]

Upto(s, K) == CHOOSE g : IsUpto(g, s, K)

LEMMA AtIs == ASSUME NEW s, NEW K PROVE At(s, K) = Upto(s, K)[Len(s)]
BY DEF At, Upto, IsUpto

LEMMA UptoExists ==
  ASSUME NEW S, NEW s \in Seq(S), NEW K
  PROVE  /\ IsUpto(Upto(s, K), s, K)
         /\ \A n \in 0..Len(s) : Upto(s, K)[n] \in Seq(S)
<1> DEFINE N == Len(s)
           A == Seq(S)
           F == [p \in (1..N) \X A |-> IF p[1] \in K THEN Append(p[2], s[p[1]]) ELSE p[2]]
<1>1. N \in Nat /\ <<>> \in A
  OBVIOUS
<1>2. \A i \in 1..N, v \in A : /\ <<i, v>> \in (1..N) \X A
                               /\ F[<<i, v>>] = IF i \in K THEN Append(v, s[i]) ELSE v
  OBVIOUS
<1>3. \A i \in 1..N, v \in A : Append(v, s[i]) \in A
  OBVIOUS
<1>4. F \in [(1..N) \X A -> A]
  <2>1. \A p \in (1..N) \X A : p[1] \in 1..N /\ p[2] \in A
    OBVIOUS
  <2> HIDE DEF N, A
  <2> QED
    BY <1>3, <2>1
<1>5. ASSUME NEW g \in [0..N -> A], g[0] = <<>>, \A i \in 1..N : g[i] = F[<<i, g[i - 1]>>]
      PROVE  IsUpto(g, s, K)
  <2>1. ASSUME NEW n \in 0..N
        PROVE  g[n] = IF n = 0 THEN <<>>
                      ELSE IF n \in K THEN Append(g[n - 1], s[n]) ELSE g[n - 1]
    <3>1. CASE n = 0
      BY <1>5, <3>1
    <3>2. CASE n # 0
      <4>1. n \in 1..N /\ n - 1 \in 0..N
        BY <1>1, <3>2
      <4>2. g[n - 1] \in A
        BY <4>1
      <4> HIDE DEF F, A, N
      <4> QED
        BY <1>2, <1>5, <3>2, <4>1, <4>2
    <3> QED
      BY <3>1, <3>2
  <2>2. g = [n \in 0..N |-> g[n]]
    OBVIOUS
  <2> HIDE DEF A
  <2> QED
    BY <2>1, <2>2 DEF IsUpto
<1>6. PICK g \in [0..N -> A] : g[0] = <<>> /\ \A i \in 1..N : g[i] = F[<<i, g[i - 1]>>]
  <2> DEFINE base == <<>>
  <2> SUFFICES \E g \in [0..N -> A] : Recurs(g, N, base, F)
    BY DEF Recurs
  <2>1. N \in Nat /\ base \in A
    BY <1>1
  <2> HIDE DEF N, A, F, base
  <2> QED
    BY <2>1, <1>4, NatRecursion
<1>7. IsUpto(g, s, K)
  BY <1>5, <1>6
<1>8. IsUpto(Upto(s, K), s, K)
  BY <1>7 DEF Upto
<1> DEFINE u == Upto(s, K)
           Bad == {n \in 0..N : u[n] \notin A}
<1>9. \A n \in 0..N : u[n] = IF n = 0 THEN <<>>
                             ELSE IF n \in K THEN Append(u[n - 1], s[n]) ELSE u[n - 1]
  BY <1>8 DEF IsUpto
<1>10. Bad = {}
  <2> SUFFICES ASSUME Bad # {} PROVE FALSE
    OBVIOUS
  <2>1. PICK m \in Bad : \A k \in Bad : m <= k
    <3>1. Bad \in SUBSET Nat
      OBVIOUS
    <3> HIDE DEF Bad
    <3> QED
      BY <3>1, SmallestNumber
  <2>2. m \in 0..N /\ u[m] \notin A
    OBVIOUS
  <2> HIDE DEF u, A
  <2>3. m # 0
    BY <1>1, <1>9, <2>2
  <2>4. m - 1 \in 0..N /\ m \in 1..N /\ ~(m <= m - 1)
    BY <1>1, <2>2, <2>3
  <2>5. u[m - 1] \in A
    BY <2>1, <2>4
  <2> QED
    BY <1>3, <1>9, <2>2, <2>3, <2>4, <2>5
<1> HIDE DEF u
<1> QED
  BY <1>8, <1>10 DEF u

\* What Array.filter() returns: the elements at the positions that are kept, each once.
Positions(order, s, K) ==
    /\ Len(order) = Len(At(s, K))
    /\ \A k \in 1..Len(order) : At(s, K)[k] = s[order[k]]
    /\ \A k, l \in 1..Len(order) : order[k] = order[l] => k = l
    /\ \A i \in K : \E k \in 1..Len(order) : order[k] = i

LEMMA AtFacts ==
  ASSUME NEW S, NEW s \in Seq(S), NEW K \in SUBSET DOMAIN s
  PROVE  At(s, K) \in Seq(S) /\ \E order \in Seq(K) : Positions(order, s, K)
<1> DEFINE u == Upto(s, K)
           N == Len(s)
           Orders(o, n) ==
               /\ Len(o) = Len(u[n])
               /\ \A k \in 1..Len(o) : u[n][k] = s[o[k]]
               /\ \A k, l \in 1..Len(o) : o[k] = o[l] => k = l
               /\ \A k \in 1..Len(o) : o[k] \in K /\ o[k] <= n
               /\ \A i \in K : i <= n => \E k \in 1..Len(o) : o[k] = i
           Bad == {n \in 0..N : ~\E o \in Seq(K) : Orders(o, n)}
<1>1. /\ N \in Nat /\ K \subseteq 1..N
      /\ \A n \in 0..N : u[n] \in Seq(S)
      /\ \A n \in 0..N : u[n] = IF n = 0 THEN <<>>
                                ELSE IF n \in K THEN Append(u[n - 1], s[n]) ELSE u[n - 1]
  <2>1. N \in Nat /\ K \subseteq 1..N
    OBVIOUS
  <2>2. IsUpto(u, s, K) /\ \A n \in 0..N : u[n] \in Seq(S)
    BY UptoExists
  <2> HIDE DEF u
  <2>3. \A n \in 0..N : u[n] = IF n = 0 THEN <<>>
                               ELSE IF n \in K THEN Append(u[n - 1], s[n]) ELSE u[n - 1]
    BY <2>2 DEF IsUpto
  <2> QED
    BY <2>1, <2>2, <2>3
<1> HIDE DEF u
<1>2. Bad = {}
  <2> SUFFICES ASSUME Bad # {} PROVE FALSE
    OBVIOUS
  <2>1. PICK m \in Bad : \A k \in Bad : m <= k
    <3>1. Bad \in SUBSET Nat
      OBVIOUS
    <3> HIDE DEF Bad
    <3> QED
      BY <3>1, SmallestNumber
  <2>2. m \in 0..N /\ ~\E o \in Seq(K) : Orders(o, m)
    OBVIOUS
  <2>3. m # 0
    <3>1. u[0] = <<>> /\ <<>> \in Seq(K) /\ Len(<<>>) = 0 /\ \A i \in K : ~(i <= 0)
      BY <1>1
    <3>2. Orders(<<>>, 0)
      BY <3>1
    <3> HIDE DEF Orders
    <3> QED
      BY <2>2, <3>1, <3>2
  <2>4. m - 1 \in 0..N /\ m \in 1..N /\ ~(m <= m - 1) /\ m \in Nat
    BY <1>1, <2>2, <2>3
  <2>5. PICK o \in Seq(K) : Orders(o, m - 1)
    BY <2>1, <2>4
  <2> HIDE DEF Bad
  <2>6. CASE m \notin K
    <3>1. u[m] = u[m - 1]
      BY <1>1, <2>3, <2>4, <2>6
    <3>2. \A k \in 1..Len(o) : o[k] \in K /\ o[k] <= m
      BY <1>1, <2>4, <2>5
    <3>3. \A i \in K : i <= m => i <= m - 1
      BY <1>1, <2>4, <2>6
    <3>4. Orders(o, m)
      BY <2>5, <3>1, <3>2, <3>3
    <3> QED
      BY <2>2, <3>4
  <2>7. CASE m \in K
    <3> DEFINE p == Append(o, m)
               v == u[m - 1]
    <3>1. u[m] = Append(v, s[m]) /\ v \in Seq(S) /\ s[m] \in S
      <4>1. m \in 0..N /\ m - 1 \in 0..N /\ m \in DOMAIN s
        BY <2>2, <2>4
      <4>2. s[m] \in S
        BY <4>1
      <4> HIDE DEF N, Orders
      <4> QED
        BY <1>1, <2>3, <2>7, <4>1, <4>2
    <3>2. /\ p \in Seq(K) /\ Len(p) = Len(o) + 1 /\ p[Len(o) + 1] = m
          /\ \A k \in 1..Len(o) : p[k] = o[k]
      <4> HIDE DEF Orders
      <4> QED
        BY <2>7, AppendProperties
    <3>3. /\ Len(u[m]) = Len(v) + 1 /\ u[m][Len(v) + 1] = s[m]
          /\ \A k \in 1..Len(v) : u[m][k] = v[k]
      BY <3>1
    <3>4. /\ Len(o) = Len(v) /\ Len(o) \in Nat
          /\ \A k \in 1..Len(o) : v[k] = s[o[k]] /\ o[k] \in K /\ o[k] <= m - 1
          /\ \A k, l \in 1..Len(o) : o[k] = o[l] => k = l
          /\ \A i \in K : i <= m - 1 => \E k \in 1..Len(o) : o[k] = i
      BY <2>5
    <3> HIDE DEF p, v
    <3>5. \A k \in 1..Len(p) : u[m][k] = s[p[k]] /\ p[k] \in K /\ p[k] <= m
      <4> SUFFICES ASSUME NEW k \in 1..Len(p)
                   PROVE  u[m][k] = s[p[k]] /\ p[k] \in K /\ p[k] <= m
        OBVIOUS
      <4>1. CASE k = Len(o) + 1
        BY <2>4, <2>7, <3>2, <3>3, <3>4, <4>1
      <4>2. CASE k # Len(o) + 1
        <5>1. k \in 1..Len(o)
          BY <3>2, <3>4, <4>2
        <5>2. p[k] = o[k] /\ u[m][k] = v[k] /\ o[k] \in K /\ o[k] <= m - 1 /\ v[k] = s[o[k]]
          BY <3>2, <3>3, <3>4, <5>1
        <5>3. o[k] <= m
          BY <1>1, <2>4, <5>2
        <5> QED
          BY <5>2, <5>3
      <4> QED
        BY <4>1, <4>2
    <3>6. \A k, l \in 1..Len(p) : p[k] = p[l] => k = l
      <4> SUFFICES ASSUME NEW k \in 1..Len(p), NEW l \in 1..Len(p), p[k] = p[l] PROVE k = l
        OBVIOUS
      <4>1. \A j \in 1..Len(o) : p[j] # m
        BY <1>1, <2>4, <3>2, <3>4
      <4>2. (k \in 1..Len(o) \/ k = Len(o) + 1) /\ (l \in 1..Len(o) \/ l = Len(o) + 1)
        BY <3>2, <3>4
      <4> QED
        BY <3>2, <3>4, <4>1, <4>2
    <3>7. \A i \in K : i <= m => \E k \in 1..Len(p) : p[k] = i
      <4> SUFFICES ASSUME NEW i \in K, i <= m PROVE \E k \in 1..Len(p) : p[k] = i
        OBVIOUS
      <4>1. CASE i = m
        <5>1. Len(o) + 1 \in 1..Len(p)
          BY <3>2, <3>4
        <5> QED
          BY <3>2, <4>1, <5>1
      <4>2. CASE i # m
        <5>1. i <= m - 1
          BY <1>1, <2>4, <4>2
        <5>2. PICK k \in 1..Len(o) : o[k] = i
          BY <3>4, <5>1
        <5>3. k \in 1..Len(p)
          BY <3>2, <3>4
        <5> QED
          BY <3>2, <5>2, <5>3
      <4> QED
        BY <4>1, <4>2
    <3>8. Len(p) = Len(u[m])
      BY <3>2, <3>3, <3>4
    <3> QED
      BY <2>2, <3>2, <3>5, <3>6, <3>7, <3>8
  <2> QED
    BY <2>6, <2>7
<1>3. N \in 0..N /\ At(s, K) = u[N]
  BY <1>1, AtIs DEF u
<1>4. PICK o \in Seq(K) : Orders(o, N)
  BY <1>2, <1>3
<1>5. At(s, K) \in Seq(S)
  BY <1>1, <1>3
<1>6. \A k \in 1..Len(o) : At(s, K)[k] = s[o[k]]
  BY <1>3, <1>4
<1>7. Len(o) = Len(At(s, K))
  BY <1>3, <1>4
<1>8. \A i \in K : \E k \in 1..Len(o) : o[k] = i
  BY <1>1, <1>4
<1>9. \A k, l \in 1..Len(o) : o[k] = o[l] => k = l
  BY <1>4
<1> QED
  BY <1>5, <1>6, <1>7, <1>8, <1>9 DEF Positions

Distinct(s) == \A i, j \in DOMAIN s : s[i] = s[j] => i = j

LEMMA AtSet ==
  ASSUME NEW S, NEW s \in Seq(S), NEW K \in SUBSET DOMAIN s
  PROVE  /\ At(s, K) \in Seq(S)
         /\ ToSet(At(s, K)) = {s[i] : i \in K}
         /\ Len(At(s, K)) = Cardinality(K)
         /\ Distinct(s) => Distinct(At(s, K))
<1>1. At(s, K) \in Seq(S)
  BY AtFacts
<1> DEFINE r == At(s, K)
<1>0. PICK order \in Seq(K) : Positions(order, s, K)
  BY AtFacts
<1>2. /\ Len(order) = Len(r)
      /\ \A k \in 1..Len(order) : r[k] = s[order[k]]
      /\ \A k, l \in 1..Len(order) : order[k] = order[l] => k = l
      /\ \A i \in K : \E k \in 1..Len(order) : order[k] = i
  BY <1>0 DEF Positions
<1> HIDE DEF r
<1> DEFINE n == Len(order)
<1>3. /\ n \in Nat /\ Len(r) = n /\ DOMAIN r = 1..n
      /\ order \in [1..n -> K]
      /\ \A k \in 1..n : order[k] \in K
  BY <1>1, <1>2 DEF r
<1>4. ToSet(r) = {s[i] : i \in K}
  <2> HIDE DEF n
  <2>1. ToSet(r) = {r[k] : k \in 1..n}
    BY <1>3 DEF ToSet
  <2>2. \A k \in 1..n : r[k] = s[order[k]]
    BY <1>2 DEF n
  <2>3. \A i \in K : \E k \in 1..n : order[k] = i
    BY <1>2 DEF n
  <2> QED
    BY <1>3, <2>1, <2>2, <2>3
<1>5. Len(r) = Cardinality(K)
  <2>1. order \in Bijection(1..n, K)
    BY <1>2, <1>3 DEF Bijection, Injection, Surjection, IsInjective
  <2>2. ExistsBijection(1..n, K)
    BY <2>1 DEF ExistsBijection
  <2> QED
    BY <1>3, <2>2, FS_CountingElements
<1>6. ASSUME Distinct(s) PROVE Distinct(r)
  BY <1>2, <1>3, <1>6 DEF Distinct
<1> QED
  BY <1>1, <1>4, <1>5, <1>6 DEF r

LEMMA DistinctSize ==
  ASSUME NEW S, NEW s \in Seq(S), Distinct(s)
  PROVE  IsFiniteSet(ToSet(s)) /\ Cardinality(ToSet(s)) = Len(s)
<1> DEFINE n == Len(s)
<1>1. n \in Nat /\ DOMAIN s = 1..n /\ s \in [1..n -> ToSet(s)]
  BY DEF ToSet
<1>2. s \in Bijection(1..n, ToSet(s))
  BY <1>1 DEF Bijection, Injection, Surjection, IsInjective, Distinct, ToSet
<1>3. ExistsBijection(1..n, ToSet(s))
  BY <1>2 DEF ExistsBijection
<1> HIDE DEF n
<1>4. Cardinality(ToSet(s)) = n
  BY <1>1, <1>3, FS_CountingElements
<1>5. IsFiniteSet(ToSet(s))
  BY <1>1, <1>3, FS_NatBijection
<1> QED
  BY <1>4, <1>5 DEF n
-----------------------------------------------------------------------------
(* Sorting.                                                                *)

\* What comes before a position in a strict order.
StrictOrder(I, before) ==
    /\ before = [i \in I |-> before[i]]
    /\ \A i \in I : before[i] \subseteq I /\ i \notin before[i]
    /\ \A i, j \in I : i \in before[j] => before[i] \subseteq before[j]
    /\ \A i, j \in I : i = j \/ i \in before[j] \/ j \in before[i]

\* Every position has its place, and every place one position.
LEMMA InOrderFacts ==
  ASSUME NEW I, IsFiniteSet(I), NEW before, StrictOrder(I, before)
  PROVE  /\ InOrder(before) \in [1..Cardinality(I) -> I]
         /\ \A k \in 1..Cardinality(I) : Cardinality(before[InOrder(before)[k]]) = k - 1
         /\ \A i \in I : \E k \in 1..Cardinality(I) : InOrder(before)[k] = i
         /\ \A k, l \in 1..Cardinality(I) : InOrder(before)[k] = InOrder(before)[l] => k = l
<1> DEFINE n == Cardinality(I)
           rank == [i \in I |-> Cardinality(before[i]) + 1]
           order == InOrder(before)
<1>1. n \in Nat /\ DOMAIN before = I
  BY FS_CardinalityType DEF StrictOrder
<1>2. ASSUME NEW i \in I PROVE IsFiniteSet(before[i]) /\ Cardinality(before[i]) \in 0..(n - 1)
  <2>1. before[i] \in SUBSET (I \ {i})
    BY DEF StrictOrder
  <2>2. IsFiniteSet(I \ {i}) /\ Cardinality(I \ {i}) = n - 1
    BY FS_RemoveElement
  <2>3. IsFiniteSet(before[i]) /\ Cardinality(before[i]) <= n - 1
    BY <2>1, <2>2, FS_Subset
  <2> QED
    BY <1>1, <2>3, FS_CardinalityType
<1>3. ASSUME NEW i \in I, NEW j \in I, i \in before[j]
      PROVE  Cardinality(before[i]) < Cardinality(before[j])
  <2>1. before[i] \in SUBSET before[j] /\ i \notin before[i]
    BY <1>3 DEF StrictOrder
  <2>2. Cardinality(before[i]) <= Cardinality(before[j]) /\ before[i] # before[j]
    BY <1>2, <1>3, <2>1, FS_Subset
  <2>3. Cardinality(before[i]) # Cardinality(before[j])
    BY <1>2, <2>1, <2>2, FS_Subset
  <2> QED
    BY <1>2, <2>2, <2>3
<1>4. ASSUME NEW i \in I, NEW j \in I, rank[i] = rank[j] PROVE i = j
  <2>1. Cardinality(before[i]) = Cardinality(before[j])
    BY <1>2, <1>4
  <2>2. i \notin before[j] /\ j \notin before[i]
    BY <1>2, <1>3, <2>1
  <2> QED
    BY <2>2 DEF StrictOrder
<1>5. rank \in [I -> 1..n]
  <2>1. \A i \in I : Cardinality(before[i]) + 1 \in 1..n
    BY <1>1, <1>2
  <2> HIDE DEF n
  <2> QED
    BY <2>1
<1>6. rank \in Surjection(I, 1..n)
  <2>1. rank \in Injection(I, 1..n)
    BY <1>4, <1>5 DEF Injection, IsInjective
  <2>2. IsFiniteSet(1..n) /\ Cardinality(1..n) = n
    BY <1>1, FS_Interval
  <2> HIDE DEF rank
  <2> QED
    BY <2>1, <2>2, FS_Injection
<1>7. ASSUME NEW k \in 1..n PROVE \E i \in I : Cardinality(before[i]) = k - 1
  <2>1. PICK i \in I : rank[i] = k
    BY <1>6 DEF Surjection
  <2> QED
    BY <1>2, <2>1
<1>8. order = [k \in 1..n |-> CHOOSE i \in I : Cardinality(before[i]) = k - 1]
  BY <1>1 DEF InOrder
<1>9. ASSUME NEW k \in 1..n PROVE order[k] \in I /\ Cardinality(before[order[k]]) = k - 1
  BY <1>7, <1>8
<1>10. order \in [1..n -> I]
  BY <1>8, <1>9
<1>11. ASSUME NEW i \in I PROVE \E k \in 1..n : order[k] = i
  <2>1. rank[i] \in 1..n
    BY <1>5
  <2>2. order[rank[i]] \in I /\ Cardinality(before[order[rank[i]]]) = rank[i] - 1
    BY <1>9, <2>1
  <2>3. rank[order[rank[i]]] = rank[i]
    BY <1>2, <2>2
  <2>4. order[rank[i]] = i
    BY <1>4, <2>2, <2>3
  <2> QED
    BY <2>1, <2>4
<1>12. ASSUME NEW k \in 1..n, NEW l \in 1..n, order[k] = order[l] PROVE k = l
  BY <1>9, <1>12
<1> HIDE DEF n, order
<1> QED
  BY <1>9, <1>10, <1>11, <1>12 DEF n, order

Ranked(s, key) ==
    [i \in DOMAIN s |-> {j \in DOMAIN s : key[j] > key[i] \/ (j < i /\ ~(key[i] > key[j]))}]

\* What a sort by a number returns: what it was given, the largest number first.
LEMMA SortFacts ==
  ASSUME NEW S, NEW s \in Seq(S), NEW key, \A i \in DOMAIN s : key[i] \in Int
  PROVE  LET r == Along(s, InOrder(Ranked(s, key)))
         IN  /\ r \in Seq(S) /\ Len(r) = Len(s) /\ ToSet(r) = ToSet(s)
             /\ s # <<>> => \E i \in DOMAIN s : r[1] = s[i] /\ \A j \in DOMAIN s : key[j] <= key[i]
<1> DEFINE n == Len(s)
           before == Ranked(s, key)
           order == InOrder(before)
           r == Along(s, order)
<1>1. n \in Nat /\ DOMAIN s = 1..n
  OBVIOUS
<1>2. IsFiniteSet(1..n) /\ Cardinality(1..n) = n
  <2> HIDE DEF n
  <2> QED
    BY <1>1, FS_Interval
<1>3. StrictOrder(1..n, before)
  <2>1. \A i \in 1..n : before[i] = {j \in 1..n : key[j] > key[i] \/ (j < i /\ ~(key[i] > key[j]))}
    BY <1>1 DEF Ranked
  <2>2. before = [i \in 1..n |-> before[i]]
    BY <1>1 DEF Ranked
  <2>3. \A i \in 1..n : key[i] \in Int
    BY <1>1
  <2> HIDE DEF n, before
  <2>4. \A i \in 1..n : before[i] \subseteq 1..n /\ i \notin before[i]
    BY <1>1, <2>1, <2>3
  <2>5. \A i, j \in 1..n : i = j \/ i \in before[j] \/ j \in before[i]
    BY <1>1, <2>1, <2>3
  <2>6. ASSUME NEW i \in 1..n, NEW j \in 1..n, i \in before[j], NEW k \in before[i]
        PROVE  k \in before[j]
    <3>1. k \in 1..n /\ (key[k] > key[i] \/ (k < i /\ ~(key[i] > key[k])))
      BY <2>1
    <3>2. key[i] > key[j] \/ (i < j /\ ~(key[j] > key[i]))
      BY <2>1, <2>6
    <3>3. key[k] > key[j] \/ (k < j /\ ~(key[j] > key[k]))
      BY <1>1, <2>3, <3>1, <3>2
    <3> QED
      BY <2>1, <3>1, <3>3
  <2> QED
    BY <2>2, <2>4, <2>5, <2>6 DEF StrictOrder
<1> HIDE DEF before
<1>4. /\ order \in [1..n -> 1..n]
      /\ \A k \in 1..n : Cardinality(before[order[k]]) = k - 1
      /\ \A i \in 1..n : \E k \in 1..n : order[k] = i
  BY <1>2, <1>3, InOrderFacts
<1> HIDE DEF order
<1>5. r = [k \in 1..n |-> s[order[k]]] /\ \A k \in 1..n : r[k] = s[order[k]] /\ r[k] \in S
  <2>1. DOMAIN order = 1..n /\ \A k \in 1..n : order[k] \in 1..n
    BY <1>4
  <2>2. \A i \in 1..n : s[i] \in S
    BY <1>1
  <2> HIDE DEF n
  <2>3. r = [k \in 1..n |-> s[order[k]]]
    BY <2>1 DEF Along
  <2> HIDE DEF r
  <2> QED
    BY <2>1, <2>2, <2>3
<1>6. r \in Seq(S) /\ Len(r) = n /\ DOMAIN r = 1..n
  <2>1. r \in [1..n -> S]
    BY <1>5
  <2> HIDE DEF r
  <2> QED
    BY <1>1, <2>1
<1> HIDE DEF r
<1>7. ToSet(r) = ToSet(s)
  <2>1. \A k \in 1..n : order[k] \in 1..n
    BY <1>4
  <2> HIDE DEF n
  <2> QED
    BY <1>1, <1>4, <1>5, <1>6, <2>1 DEF ToSet
<1>8. ASSUME s # <<>>
      PROVE  \E i \in DOMAIN s : r[1] = s[i] /\ \A j \in DOMAIN s : key[j] <= key[i]
  <2>1. 1 \in 1..n
    BY <1>1, <1>8
  <2> DEFINE i == order[1]
  <2>2. i \in 1..n /\ r[1] = s[i] /\ Cardinality(before[i]) = 0
    <3> HIDE DEF n
    <3>1. Cardinality(before[i]) = 1 - 1 /\ i \in 1..n
      BY <1>4, <2>1
    <3> QED
      BY <1>5, <2>1, <3>1
  <2>3. before[i] = {}
    <3>1. IsFiniteSet(before[i])
      BY <1>2, <1>3, <2>2, FS_Subset DEF StrictOrder
    <3> QED
      BY <2>2, <3>1, FS_EmptySet
  <2>4. \A j \in 1..n : ~(key[j] > key[i])
    BY <1>1, <2>2, <2>3 DEF before, Ranked
  <2>5. \A j \in 1..n : key[j] <= key[i]
    BY <1>1, <2>2, <2>4
  <2> QED
    BY <1>1, <2>2, <2>5
<1> QED
  BY <1>6, <1>7, <1>8 DEF r, order, before
-----------------------------------------------------------------------------
(* The rows of the stack trace.                                            *)

IsFlat(g, ss) == g = [i \in 1..Len(ss) |-> IF i = 1 THEN ss[i] ELSE g[i - 1] \o ss[i]]

Flat(ss) == CHOOSE g : IsFlat(g, ss)

LEMMA FlattenIs ==
  ASSUME NEW ss PROVE FlattenSeq(ss) = IF Len(ss) = 0 THEN ss ELSE Flat(ss)[Len(ss)]
BY DEF FlattenSeq, Flat, IsFlat

LEMMA FlatExists ==
  ASSUME NEW S, NEW ss \in Seq(Seq(S))
  PROVE  /\ IsFlat(Flat(ss), ss)
         /\ \A i \in 1..Len(ss) : Flat(ss)[i] \in Seq(S)
<1> DEFINE N == Len(ss)
           A == Seq(S)
           base == <<>>
           F == [p \in (1..N) \X A |-> IF p[1] = 1 THEN ss[p[1]] ELSE p[2] \o ss[p[1]]]
<1>1. N \in Nat /\ base \in A /\ \A i \in 1..N : ss[i] \in A
  OBVIOUS
<1>2. \A i \in 1..N, v \in A : /\ <<i, v>> \in (1..N) \X A
                               /\ F[<<i, v>>] = IF i = 1 THEN ss[i] ELSE v \o ss[i]
  OBVIOUS
<1>3. \A v, w \in A : v \o w \in A
  OBVIOUS
<1>4. F \in [(1..N) \X A -> A]
  <2>1. \A p \in (1..N) \X A : p[1] \in 1..N /\ p[2] \in A
    OBVIOUS
  <2> HIDE DEF N, A
  <2> QED
    BY <1>1, <1>3, <2>1
<1>5. PICK h \in [0..N -> A] : Recurs(h, N, base, F)
  <2> HIDE DEF N, A, F, base
  <2> QED
    BY <1>1, <1>4, NatRecursion
<1> DEFINE g == [i \in 1..N |-> h[i]]
<1>6. IsFlat(g, ss)
  <2> HIDE DEF F, A
  <2>1. \A i \in 1..N : i - 1 \in 0..N /\ i \in 0..N /\ h[i - 1] \in A
    <3> HIDE DEF N
    <3>1. \A i \in 1..N : i - 1 \in 0..N /\ i \in 0..N
      BY <1>1
    <3> QED
      BY <3>1
  <2>2. \A i \in 1..N : h[i] = IF i = 1 THEN ss[i] ELSE h[i - 1] \o ss[i]
    BY <1>2, <1>5, <2>1 DEF Recurs
  <2>3. \A i \in 1..N : i # 1 => i - 1 \in 1..N
    BY <1>1
  <2>4. \A i \in 1..N : h[i] = IF i = 1 THEN ss[i] ELSE g[i - 1] \o ss[i]
    BY <2>2, <2>3
  <2>5. \A i \in 1..N : g[i] = h[i]
    OBVIOUS
  <2> HIDE DEF N
  <2>6. g = [i \in 1..N |-> IF i = 1 THEN ss[i] ELSE g[i - 1] \o ss[i]]
    BY <2>4
  <2> QED
    BY <2>6 DEF IsFlat, N
<1> HIDE DEF g
<1>7. IsFlat(Flat(ss), ss)
  BY <1>6 DEF Flat
<1> DEFINE u == Flat(ss)
           Bad == {i \in 1..N : u[i] \notin A}
<1>8. \A i \in 1..N : u[i] = IF i = 1 THEN ss[i] ELSE u[i - 1] \o ss[i]
  BY <1>7 DEF IsFlat
<1>9. Bad = {}
  <2> SUFFICES ASSUME Bad # {} PROVE FALSE
    OBVIOUS
  <2>1. PICK m \in Bad : \A k \in Bad : m <= k
    <3>1. Bad \in SUBSET Nat
      OBVIOUS
    <3> HIDE DEF Bad
    <3> QED
      BY <3>1, SmallestNumber
  <2>2. m \in 1..N /\ u[m] \notin A
    OBVIOUS
  <2> HIDE DEF u, A, N
  <2>3. m # 1
    BY <1>1, <1>8, <2>2
  <2>4. m - 1 \in 1..N /\ ~(m <= m - 1)
    BY <1>1, <2>2, <2>3
  <2>5. u[m - 1] \in A
    BY <2>1, <2>4
  <2> QED
    BY <1>1, <1>3, <1>8, <2>2, <2>3, <2>5
<1> HIDE DEF u
<1> QED
  BY <1>7, <1>9 DEF u

\* The rows come out in the order they were put in.
LEMMA FlattenFacts ==
  ASSUME NEW S, NEW ss \in Seq(Seq(S)), NEW x \in Seq(S)
  PROVE  /\ FlattenSeq(ss) \in Seq(S)
         /\ FlattenSeq(<<>>) = <<>>
         /\ FlattenSeq(Append(ss, x)) = FlattenSeq(ss) \o x
<1> DEFINE N == Len(ss)
           tt == Append(ss, x)
           f == Flat(ss)
           g == Flat(tt)
           Bad == {i \in 1..N : f[i] # g[i]}
<1>1. /\ tt \in Seq(Seq(S)) /\ N \in Nat /\ Len(tt) = N + 1 /\ tt[N + 1] = x
      /\ \A i \in 1..N : tt[i] = ss[i] /\ ss[i] \in Seq(S)
  BY AppendProperties
<1>2. /\ \A i \in 1..N : f[i] = IF i = 1 THEN ss[i] ELSE f[i - 1] \o ss[i]
      /\ \A i \in 1..N : f[i] \in Seq(S)
  <2>1. IsFlat(f, ss) /\ \A i \in 1..N : f[i] \in Seq(S)
    BY FlatExists
  <2> HIDE DEF f
  <2> QED
    BY <2>1 DEF IsFlat
<1>3. \A i \in 1..(N + 1) : g[i] = IF i = 1 THEN tt[i] ELSE g[i - 1] \o tt[i]
  <2> HIDE DEF tt
  <2>1. IsFlat(g, tt)
    BY <1>1, FlatExists
  <2> HIDE DEF g
  <2> QED
    BY <1>1, <2>1 DEF IsFlat
<1> HIDE DEF tt, f, g, N
<1>4. Bad = {}
  <2> SUFFICES ASSUME Bad # {} PROVE FALSE
    OBVIOUS
  <2>1. PICK m \in Bad : \A k \in Bad : m <= k
    <3>1. Bad \in SUBSET Nat
      BY <1>1
    <3> HIDE DEF Bad
    <3> QED
      BY <3>1, SmallestNumber
  <2>2. m \in 1..N /\ m \in 1..(N + 1) /\ f[m] # g[m]
    BY <1>1
  <2>3. m # 1
    BY <1>1, <1>2, <1>3, <2>2
  <2>4. m - 1 \in 1..N /\ ~(m <= m - 1)
    BY <1>1, <2>2, <2>3
  <2>5. f[m - 1] = g[m - 1]
    BY <2>1, <2>4
  <2> QED
    BY <1>1, <1>2, <1>3, <2>2, <2>3, <2>5
<1>5. FlattenSeq(tt) = g[N + 1]
  <2>1. FlattenSeq(tt) = IF Len(tt) = 0 THEN tt ELSE g[Len(tt)]
    BY FlattenIs DEF g
  <2>2. Len(tt) # 0
    BY <1>1
  <2> QED
    BY <1>1, <2>1, <2>2
<1>6. FlattenSeq(ss) = IF N = 0 THEN ss ELSE f[N]
  BY FlattenIs DEF N, f
<1>7. FlattenSeq(<<>>) = <<>>
  BY FlattenIs
<1>8. CASE N = 0
  <2>1. ss = <<>>
    BY <1>8 DEF N
  <2>2. g[N + 1] = x
    BY <1>1, <1>3, <1>8
  <2>3. FlattenSeq(ss) = <<>>
    BY <1>6, <1>8, <2>1
  <2>4. <<>> \o x = x
    OBVIOUS
  <2>5. <<>> \in Seq(S)
    OBVIOUS
  <2> QED
    BY <1>5, <1>7, <2>2, <2>3, <2>4, <2>5 DEF tt
<1>9. CASE N # 0
  <2>1. N \in 1..N /\ N + 1 \in 1..(N + 1) /\ N + 1 # 1
    BY <1>1, <1>9
  <2>2. g[N + 1] = g[N] \o x
    <3>1. g[N + 1] = g[(N + 1) - 1] \o tt[N + 1]
      BY <1>3, <2>1
    <3>2. (N + 1) - 1 = N
      BY <1>1
    <3> QED
      BY <1>1, <3>1, <3>2
  <2>3. g[N] = f[N] /\ f[N] \in Seq(S)
    BY <1>2, <1>4, <2>1
  <2> QED
    BY <1>5, <1>6, <1>7, <1>9, <2>2, <2>3 DEF tt
<1> QED
  BY <1>8, <1>9

Identity(n) == [i \in 1..n |-> i]

Flush(acc) == IF acc.buffer = <<>> THEN acc.out ELSE Append(acc.out, acc.buffer)

Traced(acc, user, n) ==
    IF user THEN [out |-> Append(Flush(acc), <<n>>), buffer |-> <<>>]
    ELSE [acc EXCEPT !.buffer = Append(@, n)]

IsAfter(g, fs) ==
    g = [n \in 0..Len(fs) |-> IF n = 0 THEN [out |-> <<>>, buffer |-> <<>>]
                              ELSE IF fs[n].user
                              THEN [out |-> Append(Flush(g[n - 1]), <<n>>), buffer |-> <<>>]
                              ELSE [g[n - 1] EXCEPT !.buffer = Append(@, n)]]

After(fs) == CHOOSE g : IsAfter(g, fs)

LEMMA TraceIs == ASSUME NEW fs PROVE TraceRows(fs) = Flush(After(fs)[Len(fs)])
BY DEF TraceRows, After, IsAfter, Flush

Groups == [out : Seq(Seq(Nat)), buffer : Seq(Nat)]

\* The frames of the rows so far and of the open group are those so far, in order.
Covers(acc, n) == FlattenSeq(acc.out) \o acc.buffer = Identity(n)

LEMMA FlushFacts ==
  ASSUME NEW acc \in Groups
  PROVE  /\ Flush(acc) \in Seq(Seq(Nat))
         /\ FlattenSeq(Flush(acc)) = FlattenSeq(acc.out) \o acc.buffer
<1>1. acc.out \in Seq(Seq(Nat)) /\ acc.buffer \in Seq(Nat)
  BY DEF Groups
<1>2. FlattenSeq(acc.out) \in Seq(Nat)
  BY <1>1, FlattenFacts
<1>3. CASE acc.buffer = <<>>
  <2>1. \A s \in Seq(Nat) : s \o <<>> = s
    OBVIOUS
  <2> QED
    BY <1>1, <1>2, <1>3, <2>1 DEF Flush
<1>4. CASE acc.buffer # <<>>
  <2>1. FlattenSeq(Append(acc.out, acc.buffer)) = FlattenSeq(acc.out) \o acc.buffer
    BY <1>1, FlattenFacts
  <2>2. Append(acc.out, acc.buffer) \in Seq(Seq(Nat))
    BY <1>1
  <2> QED
    BY <1>4, <2>1, <2>2 DEF Flush
<1> QED
  BY <1>3, <1>4

LEMMA TracedFacts ==
  ASSUME NEW n \in Nat \ {0}, NEW acc \in Groups, NEW user \in BOOLEAN
  PROVE  /\ Traced(acc, user, n) \in Groups
         /\ Covers(acc, n - 1) => Covers(Traced(acc, user, n), n)
<1> DEFINE front == FlattenSeq(acc.out)
<1>1. acc.out \in Seq(Seq(Nat)) /\ acc.buffer \in Seq(Nat) /\ front \in Seq(Nat)
  BY FlattenFacts DEF Groups
<1>2. acc = [out |-> acc.out, buffer |-> acc.buffer]
  BY DEF Groups
<1>3. Flush(acc) \in Seq(Seq(Nat)) /\ FlattenSeq(Flush(acc)) = front \o acc.buffer
  BY FlushFacts
<1>4. <<n>> \in Seq(Nat) /\ <<>> \in Seq(Nat)
  OBVIOUS
<1>5. Identity(n - 1) \o <<n>> = Identity(n)
  <2>1. Identity(n - 1) \in Seq(Nat) /\ Len(Identity(n - 1)) = n - 1
    BY DEF Identity
  <2>2. DOMAIN (Identity(n - 1) \o <<n>>) = 1..n
    BY <2>1
  <2>3. \A i \in 1..n : (Identity(n - 1) \o <<n>>)[i] = i
    BY <2>1 DEF Identity
  <2> QED
    BY <2>1, <2>2, <2>3 DEF Identity
<1>6. CASE user
  <2>1. Traced(acc, user, n) = [out |-> Append(Flush(acc), <<n>>), buffer |-> <<>>]
    BY <1>6 DEF Traced
  <2>2. Append(Flush(acc), <<n>>) \in Seq(Seq(Nat))
    BY <1>3, <1>4
  <2>3. FlattenSeq(Append(Flush(acc), <<n>>)) = FlattenSeq(Flush(acc)) \o <<n>>
    BY <1>3, <1>4, FlattenFacts
  <2>4. \A s \in Seq(Nat) : s \o <<>> = s
    OBVIOUS
  <2>5. front \o acc.buffer \o <<n>> \in Seq(Nat)
    BY <1>1, <1>4
  <2>6. ASSUME Covers(acc, n - 1) PROVE Covers(Traced(acc, user, n), n)
    <3> DEFINE t == Traced(acc, user, n)
    <3>1. front \o acc.buffer = Identity(n - 1)
      BY <2>6 DEF Covers
    <3>2. t.out = Append(Flush(acc), <<n>>) /\ t.buffer = <<>>
      BY <2>1
    <3>3. FlattenSeq(t.out) = Identity(n)
      BY <1>3, <1>5, <2>3, <3>1, <3>2
    <3>4. Identity(n) \in Seq(Nat)
      BY DEF Identity
    <3>5. FlattenSeq(t.out) \o t.buffer = Identity(n)
      BY <2>4, <3>2, <3>3, <3>4
    <3> QED
      BY <3>5 DEF Covers
  <2>7. Traced(acc, user, n) \in Groups
    BY <1>4, <2>1, <2>2 DEF Groups
  <2> QED
    BY <2>6, <2>7
<1>7. CASE ~user
  <2>1. Traced(acc, user, n) = [out |-> acc.out, buffer |-> Append(acc.buffer, n)]
    BY <1>2, <1>7 DEF Traced
  <2>2. Append(acc.buffer, n) \in Seq(Nat)
    BY <1>1
  <2>3. \A s, t \in Seq(Nat) : s \o Append(t, n) = (s \o t) \o <<n>>
    OBVIOUS
  <2>4. ASSUME Covers(acc, n - 1) PROVE Covers(Traced(acc, user, n), n)
    <3> DEFINE t == Traced(acc, user, n)
    <3>1. front \o acc.buffer = Identity(n - 1)
      BY <2>4 DEF Covers
    <3>2. t.out = acc.out /\ t.buffer = Append(acc.buffer, n)
      BY <2>1
    <3>3. front \o Append(acc.buffer, n) = (front \o acc.buffer) \o <<n>>
      <4> HIDE DEF front
      <4> QED
        BY <1>1, <2>3
    <3>4. FlattenSeq(t.out) \o t.buffer = Identity(n)
      BY <1>5, <3>1, <3>2, <3>3
    <3> QED
      BY <3>4 DEF Covers
  <2>5. Traced(acc, user, n) \in Groups
    BY <1>1, <2>1, <2>2 DEF Groups
  <2> QED
    BY <2>4, <2>5
<1> QED
  BY <1>6, <1>7

\* A trace has frames that are the user's or not.
Traces(fs) == fs \in Seq({fs[i] : i \in DOMAIN fs}) /\ \A i \in DOMAIN fs : fs[i].user \in BOOLEAN

LEMMA AfterExists ==
  ASSUME NEW fs, Traces(fs)
  PROVE  /\ After(fs) \in [0..Len(fs) -> Groups]
         /\ After(fs)[0] = [out |-> <<>>, buffer |-> <<>>]
         /\ \A n \in 1..Len(fs) : After(fs)[n] = Traced(After(fs)[n - 1], fs[n].user, n)
<1> DEFINE N == Len(fs)
           base == [out |-> <<>>, buffer |-> <<>>]
           F == [p \in (1..N) \X Groups |-> Traced(p[2], fs[p[1]].user, p[1])]
<1>1. N \in Nat /\ \A i \in 1..N : fs[i].user \in BOOLEAN /\ i \in Nat \ {0}
  BY DEF Traces
<1>2. base \in Groups
  <2>1. <<>> \in Seq(Seq(Nat)) /\ <<>> \in Seq(Nat)
    OBVIOUS
  <2> QED
    BY <2>1 DEF Groups
<1>3. \A i \in 1..N, v \in Groups :
         <<i, v>> \in (1..N) \X Groups /\ F[<<i, v>>] = Traced(v, fs[i].user, i)
  OBVIOUS
<1>4. F \in [(1..N) \X Groups -> Groups]
  <2>1. \A p \in (1..N) \X Groups : p[1] \in 1..N /\ p[2] \in Groups
    OBVIOUS
  <2> HIDE DEF N
  <2>2. \A p \in (1..N) \X Groups : Traced(p[2], fs[p[1]].user, p[1]) \in Groups
    BY <1>1, <2>1, TracedFacts
  <2> QED
    BY <2>2
<1>5. PICK h \in [0..N -> Groups] : Recurs(h, N, base, F)
  <2> HIDE DEF N, F, base
  <2> QED
    BY <1>1, <1>2, <1>4, NatRecursion
<1>6. ASSUME NEW g
      PROVE  IsAfter(g, fs) <=> g = [n \in 0..N |-> IF n = 0 THEN base
                                                    ELSE Traced(g[n - 1], fs[n].user, n)]
  BY DEF IsAfter, Traced
<1>7. IsAfter(h, fs)
  <2> HIDE DEF F
  <2>1. ASSUME NEW n \in 0..N PROVE h[n] = IF n = 0 THEN base ELSE Traced(h[n - 1], fs[n].user, n)
    <3>1. CASE n = 0
      BY <1>5, <3>1 DEF Recurs
    <3>2. CASE n # 0
      <4>1. n \in 1..N /\ n - 1 \in 0..N
        BY <1>1, <3>2
      <4>2. h[n - 1] \in Groups
        BY <4>1
      <4> HIDE DEF N
      <4> QED
        BY <1>3, <1>5, <3>2, <4>1, <4>2 DEF Recurs
    <3> QED
      BY <3>1, <3>2
  <2>2. h = [n \in 0..N |-> h[n]]
    OBVIOUS
  <2> HIDE DEF base, N
  <2>3. h = [n \in 0..N |-> IF n = 0 THEN base ELSE Traced(h[n - 1], fs[n].user, n)]
    BY <2>1, <2>2
  <2> QED
    BY <1>6, <2>3
<1>8. IsAfter(After(fs), fs)
  BY <1>7 DEF After
<1> DEFINE u == After(fs)
<1>9. u = [n \in 0..N |-> IF n = 0 THEN base ELSE Traced(u[n - 1], fs[n].user, n)]
  BY <1>6, <1>8
<1> HIDE DEF u, base, F
<1>10. u[0] = base /\ \A n \in 1..N : u[n] = Traced(u[n - 1], fs[n].user, n)
  <2>1. 0 \in 0..N /\ \A n \in 1..N : n \in 0..N /\ n # 0
    BY <1>1
  <2> HIDE DEF N
  <2> QED
    BY <1>9, <2>1
<1> DEFINE Bad == {n \in 0..N : u[n] \notin Groups}
<1>11. Bad = {}
  <2> SUFFICES ASSUME Bad # {} PROVE FALSE
    OBVIOUS
  <2>1. PICK m \in Bad : \A k \in Bad : m <= k
    <3>1. Bad \in SUBSET Nat
      OBVIOUS
    <3> HIDE DEF Bad
    <3> QED
      BY <3>1, SmallestNumber
  <2>2. m \in 0..N /\ u[m] \notin Groups
    OBVIOUS
  <2> HIDE DEF N
  <2>3. m # 0
    BY <1>2, <1>10, <2>2
  <2>4. m - 1 \in 0..N /\ m \in 1..N /\ ~(m <= m - 1)
    BY <1>1, <2>2, <2>3
  <2>5. u[m - 1] \in Groups
    BY <2>1, <2>4
  <2> QED
    BY <1>1, <1>10, <2>2, <2>4, <2>5, TracedFacts
<1>12. u \in [0..N -> Groups]
  <2>1. \A n \in 0..N : u[n] \in Groups
    BY <1>11
  <2>2. DOMAIN u = 0..N /\ u = [n \in 0..N |-> u[n]]
    BY <1>9
  <2> QED
    BY <2>1, <2>2
<1> QED
  BY <1>10, <1>12 DEF u, base, N

\* Every frame is in one row, and the rows are in the order of the frames.
LEMMA TraceFacts ==
  ASSUME NEW fs, Traces(fs)
  PROVE  /\ TraceRows(fs) \in Seq(Seq(Nat))
         /\ FlattenSeq(TraceRows(fs)) = [i \in DOMAIN fs |-> i]
<1> DEFINE N == Len(fs)
           u == After(fs)
           Bad == {n \in 0..N : ~Covers(u[n], n)}
<1>1. N \in Nat /\ DOMAIN fs = 1..N /\ \A i \in 1..N : fs[i].user \in BOOLEAN /\ i \in Nat \ {0}
  BY DEF Traces
<1>2. /\ \A n \in 0..N : u[n] \in Groups
      /\ u[0] = [out |-> <<>>, buffer |-> <<>>]
      /\ \A n \in 1..N : u[n] = Traced(u[n - 1], fs[n].user, n)
  BY AfterExists
<1> HIDE DEF N, u
<1>3. Bad = {}
  <2> SUFFICES ASSUME Bad # {} PROVE FALSE
    OBVIOUS
  <2>1. PICK m \in Bad : \A k \in Bad : m <= k
    <3>1. Bad \in SUBSET Nat
      OBVIOUS
    <3> HIDE DEF Bad
    <3> QED
      BY <3>1, SmallestNumber
  <2>2. m \in 0..N /\ ~Covers(u[m], m)
    OBVIOUS
  <2>3. Covers(u[0], 0)
    <3>1. FlattenSeq(<<>>) = <<>> 
      BY FlattenIs
    <3>2. <<>> \o <<>> = <<>> /\ Identity(0) = <<>>
      BY DEF Identity
    <3> QED
      BY <1>2, <3>1, <3>2 DEF Covers
  <2>4. m - 1 \in 0..N /\ m \in 1..N /\ ~(m <= m - 1)
    BY <1>1, <2>2, <2>3
  <2>5. Covers(u[m - 1], m - 1)
    BY <2>1, <2>4
  <2> QED
    BY <1>1, <1>2, <2>2, <2>4, <2>5, TracedFacts
<1>4. N \in 0..N /\ Covers(u[N], N) /\ u[N] \in Groups
  BY <1>1, <1>2, <1>3
<1>5. TraceRows(fs) = Flush(u[N])
  BY TraceIs DEF u, N
<1>6. /\ TraceRows(fs) \in Seq(Seq(Nat))
      /\ FlattenSeq(TraceRows(fs)) = FlattenSeq(u[N].out) \o u[N].buffer
  BY <1>4, <1>5, FlushFacts
<1> QED
  BY <1>1, <1>4, <1>6 DEF Covers, Identity
-----------------------------------------------------------------------------
(* The derived tables.                                                     *)

LEMMA MinFacts ==
  ASSUME NEW S \in SUBSET Nat, S # {} PROVE Min(S) \in S /\ \A x \in S : Min(S) <= x
<1>1. \E m \in S : \A x \in S : m <= x
  BY SmallestNumber
<1> QED
  BY <1>1 DEF Min

LEMMA MaxFacts ==
  ASSUME NEW S, \A x \in S : x \in Int, S # {}, IsFiniteSet(S)
  PROVE  Max(S) \in S /\ \A x \in S : x <= Max(S)
<1> DEFINE Largest(T) == \E m \in T : \A x \in T : m >= x
           Bad == {T \in SUBSET S : T # {} /\ ~Largest(T)}
<1>1. Bad = {}
  <2> SUFFICES ASSUME Bad # {} PROVE FALSE
    OBVIOUS
  <2>1. PICK T \in Bad : \A U \in Bad : U \subseteq T => U = T
    <3>1. Bad \in SUBSET (SUBSET S)
      OBVIOUS
    <3> HIDE DEF Bad, Largest
    <3> QED
      BY <3>1, MinimalSubset
  <2>2. T \in SUBSET S /\ T # {} /\ ~Largest(T)
    OBVIOUS
  <2>3. PICK a \in T : TRUE
    BY <2>2
  <2>4. CASE T \ {a} = {}
    BY <2>2, <2>3, <2>4
  <2>5. CASE T \ {a} # {}
    <3>1. Largest(T \ {a})
      <4>1. T \ {a} \in SUBSET S /\ T \ {a} \subseteq T /\ T \ {a} # T
        BY <2>2, <2>3
      <4>2. T \ {a} \notin Bad
        <5> HIDE DEF Bad
        <5> QED
          BY <2>1, <4>1
      <4> HIDE DEF Largest
      <4> QED
        BY <2>5, <4>1, <4>2
    <3>2. PICK m \in T \ {a} : \A x \in T \ {a} : m >= x
      BY <3>1
    <3>3. a \in Int /\ m \in Int /\ T \subseteq Int
      BY <2>2, <2>3
    <3>4. \A x \in T : (IF a >= m THEN a ELSE m) >= x
      BY <3>2, <3>3
    <3> QED
      BY <2>2, <2>3, <3>2, <3>4
  <2> QED
    BY <2>4, <2>5
<1>2. PICK m \in S : \A x \in S : m >= x
  BY <1>1
<1>3. Max(S) \in S /\ \A x \in S : Max(S) >= x
  BY <1>2 DEF Max
<1> QED
  BY <1>3

\* The sum over a list.
LEMMA ListSum ==
  ASSUME NEW S, NEW s \in Seq(S), NEW f, DOMAIN f = DOMAIN s, \A i \in DOMAIN s : f[i] \in Nat
  PROVE  SumFunction(f) \in Nat
<1>1. IsFiniteSet(DOMAIN s)
  <2>1. DOMAIN s = 1..Len(s) /\ Len(s) \in Nat
    OBVIOUS
  <2> QED
    BY <2>1, FS_Interval
<1> QED
  BY <1>1, SumType DEF SumFunction

\* What every event of an answer is like.
Named(id) == id # ""

Tracked(x) ==
    /\ Named(x.id) /\ x.status = "active"
    /\ x.first \in Int /\ x.last \in Int /\ x.hits \in Int

LEMMA GroupFacts ==
  ASSUME NEW rs \in Seq(Rows), NEW id
  PROVE  /\ Group(rs, id) \in Seq(Rows)
         /\ ToSet(Group(rs, id)) = {rs[i] : i \in {i \in DOMAIN rs : EventId(rs[i]) = id}}
<1> DEFINE K == {i \in DOMAIN rs : EventId(rs[i]) = id}
<1>1. Group(rs, id) = At(rs, K)
  BY DEF Group, Where
<1>2. K \in SUBSET DOMAIN rs
  OBVIOUS
<1> HIDE DEF K
<1>3. At(rs, K) \in Seq(Rows) /\ ToSet(At(rs, K)) = {rs[i] : i \in K}
  BY <1>2, AtSet
<1> QED
  BY <1>1, <1>3 DEF K

\* An event without a fingerprint is named by the row's number.
LEMMA EventIdFacts ==
  ASSUME NEW r \in Rows PROVE Named(EventId(r))
<1>1. r.id \in DOMAIN FramesOf
  BY DEF Rows
<1>2. EventId([id |-> r.id, fp |-> ""]) # ""
  BY <1>1, RowsAssumption
<1>3. CASE r.fp # ""
  BY <1>3 DEF EventId, Named
<1>4. CASE r.fp = ""
  BY <1>2, <1>4 DEF EventId, Named
<1> QED
  BY <1>3, <1>4

LEMMA EventFacts ==
  ASSUME NEW g \in Seq(Rows), g # <<>>, NEW id, Named(id)
  PROVE  /\ Tracked(Event(id, g))
         /\ Event(id, g).id = id
         /\ Event(id, g).app = AppOf(g[1])
<1>0. DOMAIN g = 1..Len(g) /\ Len(g) \in Nat \ {0} /\ \A i \in DOMAIN g : g[i] \in Rows
  OBVIOUS
<1> DEFINE times == {g[i].at : i \in DOMAIN g}
           hits == [i \in DOMAIN g |-> IF g[i].hits = 0 THEN 1 ELSE g[i].hits]
<1>1. \A i \in DOMAIN g : g[i].at \in Nat /\ g[i].hits \in Nat
  BY <1>0 DEF Rows
<1>2. 1 \in DOMAIN g
  BY <1>0
<1>3. times \in SUBSET Nat /\ times # {}
  BY <1>1, <1>2
<1>4. IsFiniteSet(times)
  <2> DEFINE f == [i \in DOMAIN g |-> g[i].at]
  <2>2. IsFiniteSet(DOMAIN g)
    BY <1>0, FS_Interval
  <2> HIDE DEF f
  <2>3. IsFiniteSet({f[i] : i \in DOMAIN g})
    BY <2>2, FiniteImage
  <2>4. times = {f[i] : i \in DOMAIN g}
    BY DEF f
  <2> QED
    BY <2>3, <2>4
<1> HIDE DEF times
<1>5. Min(times) \in Int /\ Max(times) \in Int
  <2>1. Min(times) \in times
    BY <1>3, MinFacts
  <2>2. \A x \in times : x \in Int
    BY <1>3
  <2>3. Max(times) \in times
    BY <1>3, <1>4, <2>2, MaxFacts
  <2> QED
    BY <2>1, <2>2, <2>3
<1>6. SumFunction(hits) \in Nat
  BY <1>1, ListSum
<1>7. /\ Event(id, g).id = id /\ Event(id, g).app = AppOf(g[1]) /\ Event(id, g).status = "active"
      /\ Event(id, g).first = Min(times) /\ Event(id, g).last = Max(times)
      /\ Event(id, g).hits = SumFunction(hits)
  BY DEF Event, Total, times
<1> QED
  BY <1>5, <1>6, <1>7 DEF Tracked

Heads(rs) ==
    Where([i \in DOMAIN rs |-> i], LAMBDA i : \A j \in 1..(i - 1) : EventId(rs[j]) # EventId(rs[i]))

LEMMA HeadsFacts ==
  ASSUME NEW rs \in Seq(Rows)
  PROVE  LET heads == Heads(rs)
         IN  /\ heads \in Seq(DOMAIN rs)
             /\ \A k, l \in DOMAIN heads : EventId(rs[heads[k]]) = EventId(rs[heads[l]]) => k = l
<1> DEFINE all == [i \in DOMAIN rs |-> i]
           First(i) == \A j \in 1..(i - 1) : EventId(rs[j]) # EventId(rs[i])
           K == {i \in DOMAIN all : First(all[i])}
           heads == Heads(rs)
<1>1. heads = At(all, K)
  BY DEF Heads, Where
<1>2. DOMAIN rs = 1..Len(rs) /\ Len(rs) \in Nat
  OBVIOUS
<1>3. all \in Seq(DOMAIN rs) /\ DOMAIN all = DOMAIN rs /\ \A i \in DOMAIN rs : all[i] = i
  <2>1. all \in [1..Len(rs) -> DOMAIN rs]
    BY <1>2
  <2> QED
    BY <1>2, <2>1
<1>4. K \in SUBSET DOMAIN all
  OBVIOUS
<1>5. Distinct(all)
  BY <1>3 DEF Distinct
<1>6. \A i \in K : First(i) /\ i \in DOMAIN rs
  BY <1>3
<1> HIDE DEF all, K, heads
<1>7. heads \in Seq(DOMAIN rs) /\ ToSet(heads) = {all[i] : i \in K} /\ Distinct(heads)
  BY <1>1, <1>3, <1>4, <1>5, AtSet
<1>8. \A k \in DOMAIN heads : heads[k] \in DOMAIN rs /\ First(heads[k])
  <2>1. \A k \in DOMAIN heads : heads[k] \in ToSet(heads)
    BY DEF ToSet
  <2> HIDE DEF First
  <2> QED
    BY <1>3, <1>6, <1>7, <2>1
<1>9. ASSUME NEW k \in DOMAIN heads, NEW l \in DOMAIN heads, EventId(rs[heads[k]]) = EventId(rs[heads[l]])
      PROVE  k = l
  <2>1. heads[k] \in 1..Len(rs) /\ heads[l] \in 1..Len(rs)
    BY <1>2, <1>8
  <2>2. ~(heads[k] < heads[l]) /\ ~(heads[l] < heads[k])
    BY <1>2, <1>8, <1>9, <2>1
  <2>3. heads[k] = heads[l]
    BY <1>2, <2>1, <2>2
  <2> QED
    BY <1>7, <2>3 DEF Distinct
<1> QED
  BY <1>7, <1>9 DEF heads

\* Every event is of rows of one name, and no two events are.
LEMMA EventsFacts ==
  ASSUME NEW rs \in Seq(Rows)
  PROVE  LET es == Events(rs)
         IN  /\ es \in Seq(ToSet(es))
             /\ \A k, l \in DOMAIN es : es[k].id = es[l].id => k = l
             /\ \A x \in ToSet(es) : Tracked(x) /\ \E i \in DOMAIN rs : x.app = AppOf(rs[i])
<1> DEFINE heads == Heads(rs)
           Name(k) == EventId(rs[heads[k]])
           es == Events(rs)
<1>1. es = [k \in DOMAIN heads |-> Event(Name(k), Group(rs, Name(k)))]
  BY DEF Events, Heads
<1>2. /\ heads \in Seq(DOMAIN rs)
      /\ \A k, l \in DOMAIN heads : Name(k) = Name(l) => k = l
  BY HeadsFacts
<1>3. \A i \in DOMAIN rs : rs[i] \in Rows
  OBVIOUS
<1> HIDE DEF heads, es
<1>4. DOMAIN heads = 1..Len(heads) /\ Len(heads) \in Nat /\ \A k \in DOMAIN heads : heads[k] \in DOMAIN rs
  BY <1>2
<1>5. ASSUME NEW k \in DOMAIN heads
      PROVE  /\ es[k].id = Name(k) /\ Tracked(es[k])
             /\ \E i \in DOMAIN rs : es[k].app = AppOf(rs[i])
  <2> DEFINE g == Group(rs, Name(k))
  <2>1. Named(Name(k))
    BY <1>3, <1>4, EventIdFacts
  <2>2. g \in Seq(Rows) /\ ToSet(g) = {rs[i] : i \in {i \in DOMAIN rs : EventId(rs[i]) = Name(k)}}
    BY GroupFacts
  <2>3. es[k] = Event(Name(k), g)
    BY <1>1
  <2> HIDE DEF g
  <2>4. rs[heads[k]] \in ToSet(g)
    BY <1>4, <2>2
  <2>5. g # <<>>
    BY <2>4 DEF ToSet
  <2>6. 1 \in DOMAIN g
    BY <2>2, <2>5
  <2>7. PICK i \in DOMAIN rs : g[1] = rs[i]
    BY <2>2, <2>6 DEF ToSet
  <2> HIDE DEF Name
  <2>8. Tracked(es[k]) /\ es[k].id = Name(k) /\ es[k].app = AppOf(g[1])
    BY <2>1, <2>2, <2>3, <2>5, EventFacts
  <2> QED
    BY <2>7, <2>8
<1>6. DOMAIN es = 1..Len(heads) /\ DOMAIN es = DOMAIN heads
  BY <1>1, <1>4
<1>7. es \in Seq(ToSet(es))
  <2>1. es \in [1..Len(heads) -> ToSet(es)]
    <3>1. es = [k \in DOMAIN es |-> es[k]]
      BY <1>1
    <3> QED
      BY <1>6, <3>1 DEF ToSet
  <2> QED
    BY <1>4, <2>1
<1>8. \A k, l \in DOMAIN es : es[k].id = es[l].id => k = l
  BY <1>2, <1>5, <1>6
<1>9. \A x \in ToSet(es) : Tracked(x) /\ \E i \in DOMAIN rs : x.app = AppOf(rs[i])
  BY <1>5, <1>6 DEF ToSet
<1> QED
  BY <1>7, <1>8, <1>9 DEF es

\* Every application has one environment, one that the header offers.
LEMMA ApplicationsFacts ==
  ASSUME NEW I, NEW rs \in Seq(Rows), NEW is \in Seq(I), NEW t
  PROVE  LET apps == Applications(rs, is, t)
         IN  /\ IsFiniteSet(apps)
             /\ \A a, b \in apps : a.id = b.id => a = b
             /\ \A a \in apps : a.env \in Environments
             /\ \A i \in DOMAIN rs : \E a \in apps : a.id = AppOf(rs[i])
<1> DEFINE named == {AppOf(rs[i]) : i \in DOMAIN rs} \cup {AppOf(is[i]) : i \in DOMAIN is}
           tagged(a) == {i \in DOMAIN is : AppOf(is[i]) = a /\ is[i].env # "none"}
           seen(a) == {rs[i].at : i \in {j \in DOMAIN rs : AppOf(rs[j]) = a}}
           Env(a) == IF tagged(a) = {} THEN "production" ELSE NormalizeEnvironment(is[Max(tagged(a))].env)
           app == [a \in named |-> [id |-> a, env |-> Env(a),
                                    created |-> IF seen(a) = {} THEN t ELSE Min(seen(a))]]
           apps == Applications(rs, is, t)
<1>1. apps = {app[a] : a \in named}
  BY DEF Applications
<1>2. IsFiniteSet(named)
  <2> DEFINE f == [i \in DOMAIN rs |-> AppOf(rs[i])]
             g == [i \in DOMAIN is |-> AppOf(is[i])]
  <2>1. IsFiniteSet(DOMAIN rs) /\ IsFiniteSet(DOMAIN is)
    <3>1. DOMAIN rs = 1..Len(rs) /\ Len(rs) \in Nat /\ DOMAIN is = 1..Len(is) /\ Len(is) \in Nat
      OBVIOUS
    <3> QED
      BY <3>1, FS_Interval
  <2>2. named = {f[i] : i \in DOMAIN rs} \cup {g[i] : i \in DOMAIN is}
    OBVIOUS
  <2> HIDE DEF f, g, named
  <2>3. IsFiniteSet({f[i] : i \in DOMAIN rs}) /\ IsFiniteSet({g[i] : i \in DOMAIN is})
    BY <2>1, FiniteImage
  <2> QED
    BY <2>2, <2>3, FS_Union
<1>3. \A a : Env(a) \in Environments
  <2>1. \A e : NormalizeEnvironment(e) \in Environments
    BY DEF NormalizeEnvironment, Environments
  <2>2. "production" \in Environments
    BY DEF Environments
  <2> HIDE DEF tagged
  <2> QED
    BY <2>1, <2>2
<1> HIDE DEF Env, seen
<1>4. \A a \in named : app[a].id = a /\ app[a].env = Env(a)
  BY DEF app
<1>5. \A i \in DOMAIN rs : AppOf(rs[i]) \in named
  OBVIOUS
<1> HIDE DEF apps, app, named
<1>6. IsFiniteSet(apps)
  BY <1>1, <1>2, FiniteImage
<1>7. \A a, b \in apps : a.id = b.id => a = b
  BY <1>1, <1>4
<1>8. \A a \in apps : a.env \in Environments
  BY <1>1, <1>3, <1>4
<1>9. \A i \in DOMAIN rs : \E a \in apps : a.id = AppOf(rs[i])
  BY <1>1, <1>4, <1>5
<1> QED
  BY <1>6, <1>7, <1>8, <1>9 DEF apps

\* What a page's query holds.
Sound(d) ==
    /\ d.events \in Seq(ToSet(d.events))
    /\ \A k, l \in DOMAIN d.events : d.events[k].id = d.events[l].id => k = l
    /\ \A x \in ToSet(d.events) : Tracked(x)
    /\ d.whole => \A x \in ToSet(d.events) : \E a \in d.apps : a.id = x.app
    /\ IsFiniteSet(d.apps)
    /\ \A a, b \in d.apps : a.id = b.id => a = b
    /\ \A a \in d.apps : a.env \in Environments

LEMMA NoDataFacts == Sound(NoData)
<1>1. NoData.events = <<>> /\ NoData.apps = {} /\ NoData.whole = FALSE
  BY DEF NoData
<1>2. ToSet(<<>>) = {}
  BY DEF ToSet
<1>3. <<>> \in Seq({})
  OBVIOUS
<1>4. IsFiniteSet({})
  BY FS_EmptySet
<1> QED
  BY <1>1, <1>2, <1>3, <1>4 DEF Sound

LEMMA AnswerFacts ==
  ASSUME NEW read, NEW of, states \in Seq(Seq(Rows)), \A t \in read : of[t] \in DOMAIN states
  PROVE  Sound(Answer(read, of))
<1> DEFINE from == [t \in {"snapshots", "events", "applications", "deployments"} |->
                       IF t \in read THEN states[of[t]] ELSE <<>>]
           es == Events(from["events"])
           apps == IF "applications" \in read THEN Applications(from["applications"], Instances, now) ELSE {}
           whole == "applications" \in read /\ ToSet(from["events"]) \subseteq ToSet(from["applications"])
           answer == Answer(read, of)
<1>1. answer.events = es /\ answer.apps = apps /\ answer.whole = whole
  BY DEF Answer
<1>2. from["events"] \in Seq(Rows) /\ from["applications"] \in Seq(Rows)
  <2>1. \A n \in DOMAIN states : states[n] \in Seq(Rows)
    OBVIOUS
  <2>2. <<>> \in Seq(Rows)
    OBVIOUS
  <2> HIDE DEF Rows
  <2>3. from["events"] \in {states[n] : n \in DOMAIN states} \cup {<<>>}
    OBVIOUS
  <2>4. from["applications"] \in {states[n] : n \in DOMAIN states} \cup {<<>>}
    OBVIOUS
  <2> HIDE DEF from
  <2> QED
    BY <2>1, <2>2, <2>3, <2>4
<1>3. Instances \in Seq([inst : STRING, app : STRING, env : STRING, at : Nat])
  BY BrowseAssumption, Zenon
<1> DEFINE er == from["events"]
           ar == from["applications"]
<1> HIDE DEF answer, from
<1>4. /\ es \in Seq(ToSet(es))
      /\ \A k, l \in DOMAIN es : es[k].id = es[l].id => k = l
      /\ \A x \in ToSet(es) : Tracked(x) /\ \E i \in DOMAIN er : x.app = AppOf(er[i])
  BY <1>2, EventsFacts
<1>5. /\ IsFiniteSet(apps)
      /\ \A a, b \in apps : a.id = b.id => a = b
      /\ \A a \in apps : a.env \in Environments
      /\ "applications" \in read => \A i \in DOMAIN ar : \E a \in apps : a.id = AppOf(ar[i])
  <2>1. CASE "applications" \in read
    <3>1. apps = Applications(ar, Instances, now)
      BY <2>1
    <3> HIDE DEF apps, ar
    <3>2. ar \in Seq(Rows)
      BY <1>2 DEF ar
    <3> QED
      BY <1>3, <3>1, <3>2, ApplicationsFacts
  <2>2. CASE "applications" \notin read
    <3>1. apps = {}
      BY <2>2
    <3> HIDE DEF apps
    <3> QED
      BY <2>2, <3>1, FS_EmptySet
  <2> QED
    BY <2>1, <2>2
<1>6. whole => \A x \in ToSet(es) : \E a \in apps : a.id = x.app
  <2> SUFFICES ASSUME whole, NEW x \in ToSet(es) PROVE \E a \in apps : a.id = x.app
    OBVIOUS
  <2>1. "applications" \in read /\ ToSet(er) \subseteq ToSet(ar)
    OBVIOUS
  <2> HIDE DEF es, apps, whole, er, ar
  <2>2. PICK i \in DOMAIN er : x.app = AppOf(er[i])
    BY <1>4
  <2>3. PICK j \in DOMAIN ar : ar[j] = er[i]
    BY <2>1 DEF ToSet
  <2> QED
    BY <1>5, <2>1, <2>2, <2>3
<1> HIDE DEF es, apps, whole
<1>7. Sound(answer)
  BY <1>1, <1>4, <1>5, <1>6 DEF Sound
<1> QED
  BY <1>7 DEF answer

\* What a series query holds.
Counted(s) == \A id \in DOMAIN s : s[id].total \in Nat

LEMMA SeriesFacts ==
  ASSUME NEW rs \in Seq(Rows), NEW e, NEW hours, NEW t
  PROVE  Counted(EventSeries(rs, e, hours, t))
<1> DEFINE K == {i \in DOMAIN rs : rs[i].fp # "" /\ InEnvironment(rs[i], e) /\ rs[i].at >= t - 60 * hours}
           counted == At(rs, K)
           Late(i, id) == counted[i].fp = id /\ t - counted[i].at >= 30 * hours
           Soon(i, id) == counted[i].fp = id /\ ~(t - counted[i].at >= 30 * hours)
           late(id) == At(counted, {i \in DOMAIN counted : Late(i, id)})
           soon(id) == At(counted, {i \in DOMAIN counted : Soon(i, id)})
           Sum(s) == SumFunction([i \in DOMAIN s |-> s[i].n])
<1>1. EventSeries(rs, e, hours, t) =
         [id \in {counted[i].fp : i \in DOMAIN counted} |->
             [total |-> Sum(late(id)) + Sum(soon(id)), buckets |-> <<Sum(late(id)), Sum(soon(id))>>]]
  BY DEF EventSeries, Where, Total
<1>2. counted \in Seq(Rows)
  <2>1. K \in SUBSET DOMAIN rs
    OBVIOUS
  <2> HIDE DEF K
  <2> QED
    BY <2>1, AtSet
<1> HIDE DEF K, counted, Late, Soon
<1>3. ASSUME NEW id PROVE late(id) \in Seq(Rows) /\ soon(id) \in Seq(Rows)
  <2> DEFINE L == {i \in DOMAIN counted : Late(i, id)}
             M == {i \in DOMAIN counted : Soon(i, id)}
  <2>1. L \in SUBSET DOMAIN counted /\ M \in SUBSET DOMAIN counted
    OBVIOUS
  <2> HIDE DEF L, M
  <2>2. At(counted, L) \in Seq(Rows) /\ At(counted, M) \in Seq(Rows)
    BY <1>2, <2>1, AtSet
  <2> QED
    BY <2>2 DEF L, M
<1>4. ASSUME NEW s \in Seq(Rows) PROVE Sum(s) \in Nat
  <2>1. \A i \in DOMAIN s : s[i] \in Rows
    OBVIOUS
  <2>2. \A i \in DOMAIN s : s[i].n \in Nat
    BY <2>1 DEF Rows
  <2> DEFINE f == [i \in DOMAIN s |-> s[i].n]
  <2>3. DOMAIN f = DOMAIN s /\ \A i \in DOMAIN s : f[i] \in Nat
    BY <2>2
  <2> HIDE DEF f
  <2>4. SumFunction(f) \in Nat
    BY <2>3, ListSum
  <2> QED
    BY <2>4 DEF f
<1> HIDE DEF late, soon, Sum
<1>5. \A id : Sum(late(id)) \in Nat /\ Sum(soon(id)) \in Nat
  BY <1>3, <1>4
<1>6. \A id : Sum(late(id)) + Sum(soon(id)) \in Nat
  <2>1. \A x, y \in Nat : x + y \in Nat
    OBVIOUS
  <2> QED
    BY <1>5, <2>1
<1> QED
  BY <1>1, <1>6 DEF Counted
-----------------------------------------------------------------------------
(* The pages.                                                              *)

LEMMA SubSet ==
  ASSUME NEW S, NEW s \in Seq(S) PROVE ToSet(s) \subseteq S
<1>1. \A i \in DOMAIN s : s[i] \in S
  OBVIOUS
<1> QED
  BY <1>1 DEF ToSet

LEMMA TakeFacts ==
  ASSUME NEW S, NEW s \in Seq(S), NEW n \in Nat
  PROVE  Take(s, n) \in Seq(S) /\ Len(Take(s, n)) = IF Len(s) < n THEN Len(s) ELSE n
<1> DEFINE m == IF Len(s) < n THEN Len(s) ELSE n
<1>1. m \in 0..Len(s) /\ Take(s, n) = SubSeq(s, 1, m)
  BY DEF Take
<1> HIDE DEF m
<1>2. SubSeq(s, 1, m) \in Seq(S) /\ Len(SubSeq(s, 1, m)) = m
  BY <1>1
<1> QED
  BY <1>1, <1>2 DEF m

LEMMA TotalFacts ==
  ASSUME Counted(series) PROVE \A id : TotalOf(id) \in Int
BY DEF Counted, TotalOf

LEMMA ByVolumeFacts ==
  ASSUME Counted(series), NEW S, NEW s \in Seq(S)
  PROVE  /\ StableSort(s, ByVolume) \in Seq(S)
         /\ Len(StableSort(s, ByVolume)) = Len(s)
<1> DEFINE key == [i \in DOMAIN s |-> TotalOf(s[i].id)]
           before == [i \in DOMAIN s |-> {j \in DOMAIN s : \/ TotalOf(s[j].id) > TotalOf(s[i].id)
                                                           \/ j < i /\ ~(TotalOf(s[i].id) > TotalOf(s[j].id))}]
<1>1. StableSort(s, ByVolume) = Along(s, InOrder(before))
  BY DEF StableSort, ByVolume
<1>2. \A i \in DOMAIN s : key[i] = TotalOf(s[i].id) /\ key[i] \in Int
  BY TotalFacts
<1> HIDE DEF key
<1>3. before = Ranked(s, key)
  BY <1>2 DEF Ranked
<1> HIDE DEF before
<1>4. Along(s, InOrder(Ranked(s, key))) \in Seq(S) /\ Len(Along(s, InOrder(Ranked(s, key)))) = Len(s)
  BY <1>2, SortFacts
<1> QED
  BY <1>1, <1>3, <1>4

\* The events of the period are events that were found, each once.
LEMMA PeriodFacts ==
  ASSUME Sound(data)
  PROVE  /\ PeriodEvents \in Seq(ToSet(Found)) /\ Distinct(PeriodEvents)
         /\ \A x \in ToSet(PeriodEvents) : In(env, x)
<1> DEFINE K == {i \in DOMAIN Found : In(env, Found[i]) /\ Found[i].status = "active" /\ TotalOf(Found[i].id) > 0}
<1>1. PeriodEvents = At(Found, K) /\ K \in SUBSET DOMAIN Found
  BY DEF PeriodEvents, Where
<1>2. \A i \in K : In(env, Found[i])
  OBVIOUS
<1>3. Found \in Seq(ToSet(Found)) /\ Distinct(Found)
  BY DEF Sound, Found, Distinct
<1> HIDE DEF K
<1>4. At(Found, K) \in Seq(ToSet(Found)) /\ Distinct(At(Found, K)) /\ ToSet(At(Found, K)) = {Found[i] : i \in K}
  BY <1>1, <1>3, AtSet
<1> QED
  BY <1>1, <1>2, <1>4

\* So are the new ones and the increasing ones among them.
LEMMA NewFacts ==
  ASSUME Sound(data)
  PROVE  /\ NewEvents \in Seq(ToSet(Found)) /\ Distinct(NewEvents)
         /\ PeriodEvents = <<>> => NewEvents = <<>>
<1> DEFINE P == PeriodEvents
           K == {i \in DOMAIN P : P[i].first >= now - 60 * Hours[range]}
           F == ToSet(Found)
<1>1. NewEvents = At(P, K) /\ K \in SUBSET DOMAIN P
  BY DEF NewEvents, Where
<1>2. P \in Seq(F) /\ Distinct(P)
  BY PeriodFacts
<1> HIDE DEF P, K, F
<1>3. At(P, K) \in Seq(F) /\ Distinct(At(P, K)) /\ ToSet(At(P, K)) = {P[i] : i \in K}
  BY <1>1, <1>2, AtSet
<1>4. P = <<>> => At(P, K) = <<>>
  BY <1>1, <1>3 DEF ToSet
<1> QED
  BY <1>1, <1>3, <1>4 DEF P, F

LEMMA IncreasingFacts ==
  ASSUME Sound(data)
  PROVE  /\ Increasing \in Seq(ToSet(Found)) /\ Distinct(Increasing)
         /\ PeriodEvents = <<>> => Increasing = <<>>
<1> DEFINE P == PeriodEvents
           K == {i \in DOMAIN P : Rising(P[i].id)}
           F == ToSet(Found)
<1>1. Increasing = At(P, K) /\ K \in SUBSET DOMAIN P
  BY DEF Increasing, Where
<1>2. P \in Seq(F) /\ Distinct(P)
  BY PeriodFacts
<1> HIDE DEF P, K, F
<1>3. At(P, K) \in Seq(F) /\ Distinct(At(P, K)) /\ ToSet(At(P, K)) = {P[i] : i \in K}
  BY <1>1, <1>2, AtSet
<1>4. P = <<>> => At(P, K) = <<>>
  BY <1>1, <1>3 DEF ToSet
<1> QED
  BY <1>1, <1>3, <1>4 DEF P, F

\* The regressions that are listed are eight at most, of the events that are one or both.
LEMMA RegressionFacts ==
  ASSUME Sound(data), Counted(series)
  PROVE  LET size == Cardinality(ToSet(NewEvents) \cup ToSet(Increasing))
         IN  /\ NewAndIncreasing \in Seq(ToSet(Found))
             /\ size \in Nat
             /\ Len(NewAndIncreasing) = IF size < 8 THEN size ELSE 8
             /\ size = 0 <=> (Len(NewEvents) = 0 /\ Len(Increasing) = 0)
<1> DEFINE F == ToSet(Found)
           N == NewEvents
           I == Increasing
           K == {i \in DOMAIN I : I[i] \notin ToSet(N)}
           rest == At(I, K)
           size == Cardinality(ToSet(N) \cup ToSet(I))
<1>1. NewAndIncreasing = Take(StableSort(N \o rest, ByVolume), 8)
  BY DEF NewAndIncreasing, Where
<1>2. /\ N \in Seq(F) /\ Distinct(N) /\ I \in Seq(F) /\ Distinct(I)
  BY NewFacts, IncreasingFacts
<1>3. rest \in Seq(F) /\ Distinct(rest) /\ ToSet(rest) = {I[i] : i \in K}
  <2>1. K \in SUBSET DOMAIN I
    OBVIOUS
  <2> HIDE DEF K, N, I, F
  <2> QED
    BY <1>2, <2>1, AtSet
<1> HIDE DEF N, I, F
<1>4. ToSet(rest) = ToSet(I) \ ToSet(N)
  BY <1>3 DEF ToSet
<1> HIDE DEF rest, K
<1>5. /\ IsFiniteSet(ToSet(N)) /\ Cardinality(ToSet(N)) = Len(N)
      /\ IsFiniteSet(ToSet(I)) /\ Cardinality(ToSet(I)) = Len(I)
      /\ IsFiniteSet(ToSet(rest)) /\ Cardinality(ToSet(rest)) = Len(rest)
  BY <1>2, <1>3, DistinctSize
<1>6. Len(N) \in Nat /\ Len(I) \in Nat /\ Len(rest) \in Nat
  BY <1>2, <1>3
<1>7. size = Len(N) + Len(rest)
  <2>1. ToSet(N) \cap ToSet(rest) = {} /\ ToSet(N) \cup ToSet(rest) = ToSet(N) \cup ToSet(I)
    BY <1>4
  <2>2. /\ Cardinality(ToSet(N) \cup ToSet(rest)) =
            Cardinality(ToSet(N)) + Cardinality(ToSet(rest)) - Cardinality(ToSet(N) \cap ToSet(rest))
    BY <1>5, FS_Union
  <2>3. Cardinality(ToSet(N) \cap ToSet(rest)) = 0
    BY <2>1, FS_EmptySet
  <2>4. size = Cardinality(ToSet(N) \cup ToSet(rest))
    BY <2>1
  <2> HIDE DEF size
  <2> QED
    BY <1>5, <1>6, <2>2, <2>3, <2>4
<1>8. size = 0 <=> (Len(N) = 0 /\ Len(I) = 0)
  <2>1. ASSUME Len(N) = 0 PROVE Len(rest) = Len(I)
    <3>1. ToSet(N) = {}
      BY <1>5, <2>1, FS_EmptySet
    <3>2. ToSet(rest) = ToSet(I)
      BY <1>4, <3>1
    <3> QED
      BY <1>5, <3>2
  <2> QED
    BY <1>6, <1>7, <2>1
<1> HIDE DEF size
<1>9. N \o rest \in Seq(F) /\ Len(N \o rest) = size
  BY <1>2, <1>3, <1>7
<1> DEFINE sorted == StableSort(N \o rest, ByVolume)
<1>10. sorted \in Seq(F) /\ Len(sorted) = size
  BY <1>9, ByVolumeFacts
<1> HIDE DEF sorted
<1>11. Take(sorted, 8) \in Seq(F) /\ Len(Take(sorted, 8)) = IF size < 8 THEN size ELSE 8
  BY <1>10, TakeFacts
<1> QED
  BY <1>1, <1>6, <1>7, <1>8, <1>11 DEF sorted, size, N, I, F

\* The score is full when nothing is held against it.
LEMMA ScoreFacts ==
  ASSUME NEW n \in Nat \ {0}, NEW a \in Nat, NEW b \in Nat
  PROVE  LET q == (200 * n - 60 * (4 * a + 2 * b) + n) \div (2 * n)
         IN  /\ q \in Int
             /\ n < 120 => (q >= 100 <=> (a = 0 /\ b = 0))
<1> DEFINE x == 200 * n - 60 * (4 * a + 2 * b) + n
           m == 2 * n
           q == x \div m
<1>1. x \in Int /\ m \in Nat /\ m > 0
  OBVIOUS
<1>2. q \in Int /\ (q >= 100 <=> x >= 100 * m)
  <2> HIDE DEF x, m
  <2>1. q \in Int /\ x = m * q + (x % m) /\ x % m \in 0..(m - 1)
    BY <1>1
  <2> DEFINE r == x % m
  <2> HIDE DEF q, r
  <2>2. r \in 0..(m - 1) /\ x = m * q + r
    BY <2>1 DEF r
  <2>3. ASSUME q >= 100 PROVE x >= 100 * m
    <3>1. m * q >= m * 100
      BY <1>1, <2>1, <2>3
    <3> QED
      BY <1>1, <2>1, <2>2, <3>1
  <2>4. ASSUME ~(q >= 100) PROVE ~(x >= 100 * m)
    <3>1. m * q <= m * 99
      BY <1>1, <2>1, <2>4
    <3> QED
      BY <1>1, <2>1, <2>2, <3>1
  <2> QED
    BY <2>1, <2>3, <2>4
<1>3. x >= 100 * m <=> n >= 240 * a + 120 * b
  OBVIOUS
<1>4. n < 120 => (n >= 240 * a + 120 * b <=> (a = 0 /\ b = 0))
  OBVIOUS
<1> HIDE DEF x, m
<1> QED
  BY <1>2, <1>3, <1>4 DEF x, m

\* The lights account for every event of the period.
LEMMA LightFacts ==
  ASSUME Sound(data)
  PROVE  Len(PeriodEvents) = SumFunction([a \in AppsIn(env) |-> TrafficLight(a).count])
<1> DEFINE P == PeriodEvents
           F == ToSet(Found)
           T == AppsIn(env)
           part == [a \in T |-> {i \in DOMAIN P : P[i].app = a.id}]
           count == [a \in T |-> TrafficLight(a).count]
           n == Len(P)
<1>1. P \in Seq(F) /\ \A x \in ToSet(P) : In(env, x)
  BY PeriodFacts
<1>2. IsFiniteSet(T) /\ \A a, b \in T : a.id = b.id => a = b
  <2>1. T \in SUBSET data.apps
    BY DEF AppsIn, Apps
  <2> HIDE DEF T
  <2> QED
    BY <2>1, FS_Subset DEF Sound
<1>3. \A x \in ToSet(P) : \E a \in T : a.id = x.app
  BY <1>1 DEF In
<1>4. ASSUME NEW a \in T PROVE count[a] = Len(At(P, part[a]))
  BY DEF TrafficLight, Where
<1>5. \A a \in T : part[a] \in SUBSET DOMAIN P
  OBVIOUS
<1>6. \A a, b \in T : a # b => part[a] \cap part[b] = {}
  BY <1>2
<1>7. \A i : i \in DOMAIN P <=> \E a \in T : i \in part[a]
  <2>1. ASSUME NEW i \in DOMAIN P PROVE \E a \in T : i \in part[a]
    <3>1. PICK a \in T : a.id = P[i].app
      BY <1>3 DEF ToSet
    <3> QED
      BY <3>1
  <2> HIDE DEF part
  <2> QED
    BY <1>5, <2>1
<1>8. DOMAIN count = T
  OBVIOUS
<1> HIDE DEF P, F, T, part, count
<1>9. n \in Nat /\ DOMAIN P = 1..n
  BY <1>1
<1>10. IsFiniteSet(DOMAIN P) /\ Cardinality(DOMAIN P) = n
  <2> HIDE DEF n
  <2> QED
    BY <1>9, FS_Interval
<1>11. \A a \in T : IsFiniteSet(part[a]) /\ count[a] = Cardinality(part[a])
  <2>1. ASSUME NEW a \in T PROVE IsFiniteSet(part[a]) /\ count[a] = Cardinality(part[a])
    <3>1. part[a] \in SUBSET DOMAIN P /\ count[a] = Len(At(P, part[a]))
      BY <1>4, <1>5
    <3> QED
      BY <1>1, <1>10, <3>1, AtSet, FS_Subset
  <2> QED
    BY <2>1
<1>12. SumFunctionOnSet(count, T) = Cardinality(DOMAIN P)
  BY <1>2, <1>6, <1>7, <1>11, SumOfParts
<1>13. SumFunction(count) = n
  BY <1>8, <1>10, <1>12 DEF SumFunction
<1> QED
  BY <1>13 DEF count, P, T

\* The score, the regressions and the lights (Dashboard).
LEMMA DashboardFacts ==
  ASSUME Sound(data), Counted(series) PROVE ScoreIsOfRegressions
<1> DEFINE n == Len(PeriodEvents)
           a == Len(NewEvents)
           b == Len(Increasing)
           both == ToSet(NewEvents) \cup ToSet(Increasing)
           size == Cardinality(both)
           q == (200 * n - 60 * (4 * a + 2 * b) + n) \div (2 * n)
<1>1. n \in Nat /\ a \in Nat /\ b \in Nat
  BY PeriodFacts, NewFacts, IncreasingFacts
<1>2. n = 0 => a = 0 /\ b = 0
  <2>1. n = 0 => PeriodEvents = <<>>
    BY PeriodFacts
  <2>2. PeriodEvents = <<>> => NewEvents = <<>> /\ Increasing = <<>>
    BY NewFacts, IncreasingFacts
  <2> QED
    BY <2>1, <2>2
<1>3. /\ NewAndIncreasing \in Seq(ToSet(Found)) /\ size \in Nat
      /\ Len(NewAndIncreasing) = IF size < 8 THEN size ELSE 8
      /\ size = 0 <=> (a = 0 /\ b = 0)
  BY RegressionFacts
<1>4. Reliability = IF n = 0 THEN 100 ELSE Max({0, Min({100, q})})
  BY DEF Reliability
<1>5. n # 0 => q \in Int /\ (n < 120 => (q >= 100 <=> (a = 0 /\ b = 0)))
  <2> HIDE DEF n, a, b
  <2> QED
    BY <1>1, ScoreFacts
<1> HIDE DEF n, a, b, size, q
<1>6. Reliability \in 0..100 /\ (n < 120 => (Reliability = 100 <=> (a = 0 /\ b = 0)))
  <2>1. CASE n = 0
    BY <1>2, <1>4, <2>1
  <2>2. CASE n # 0
    <3>1. ASSUME NEW x \in Int PROVE Min({100, x}) = IF x < 100 THEN x ELSE 100
      BY DEF Min
    <3>2. ASSUME NEW x \in Int PROVE Max({0, x}) = IF x < 0 THEN 0 ELSE x
      BY DEF Max
    <3>3. q \in Int
      BY <1>5, <2>2
    <3> DEFINE y == Min({100, q})
    <3>4. y \in Int /\ y = IF q < 100 THEN q ELSE 100
      BY <3>1, <3>3
    <3> HIDE DEF y
    <3>5. Max({0, y}) = IF y < 0 THEN 0 ELSE y
      BY <3>2, <3>4
    <3>6. Reliability = IF y < 0 THEN 0 ELSE y
      BY <1>4, <2>2, <3>5 DEF y
    <3> QED
      BY <1>5, <2>2, <3>3, <3>4, <3>6
  <2> QED
    BY <2>1, <2>2
<1>7. NewAndIncreasing = <<>> <=> size = 0
  <2>1. Len(NewAndIncreasing) = 0 <=> size = 0
    BY <1>3
  <2>2. \A s \in Seq(ToSet(Found)) : Len(s) = 0 <=> s = <<>>
    OBVIOUS
  <2> QED
    BY <1>3, <2>1, <2>2
<1>8. Len(NewAndIncreasing) = Min({8, size})
  <2>1. Min({8, size}) = IF size < 8 THEN size ELSE 8
    BY <1>3 DEF Min
  <2> QED
    BY <1>3, <2>1
<1>9. /\ Dashboard.events = n /\ Dashboard.score = Reliability
      /\ Dashboard.regressions = NewAndIncreasing
      /\ Dashboard.apps = [x \in AppsIn(env) |-> TrafficLight(x)]
  BY DEF Dashboard, n
<1>10. n = SumFunction([x \in AppsIn(env) |-> Dashboard.apps[x].count])
  <2>1. [x \in AppsIn(env) |-> Dashboard.apps[x].count] = [x \in AppsIn(env) |-> TrafficLight(x).count]
    BY <1>9
  <2> QED
    BY <2>1, LightFacts DEF n
<1> QED
  BY <1>3, <1>6, <1>7, <1>8, <1>9, <1>10 DEF ScoreIsOfRegressions, size

\* Of each event there is at most one application, which is in one environment.
LEMMA EnvironmentFacts == ASSUME Sound(data) PROVE EachEventInOneEnvironment
<1> SUFFICES ASSUME NEW x \in ToSet(Found)
             PROVE  LET of == {e \in Environments : In(e, x)}
                    IN  Cardinality(of) <= 1 /\ (data.whole => of # {})
  BY DEF EachEventInOneEnvironment
<1> DEFINE of == {e \in Environments : In(e, x)}
<1>1. \A a \in Apps : a.env \in Environments /\ \A b \in Apps : b.id = a.id => b = a
  BY DEF Sound, Apps
<1>2. CASE \E a \in Apps : a.id = x.app
  <2>1. PICK a \in Apps : a.id = x.app
    BY <1>2
  <2>2. \A e : In(e, x) <=> e = a.env
    BY <1>1, <2>1 DEF In, AppsIn
  <2>3. of = {a.env}
    BY <1>1, <2>1, <2>2
  <2> HIDE DEF of
  <2>4. Cardinality(of) = 1 /\ of # {}
    BY <2>3, FS_Singleton
  <2> QED
    BY <2>4 DEF of
<1>3. CASE ~\E a \in Apps : a.id = x.app
  <2>1. of = {}
    BY <1>3 DEF In, AppsIn
  <2>2. ~data.whole
    BY <1>3 DEF Sound, Apps, Found
  <2> HIDE DEF of
  <2>3. Cardinality(of) = 0
    BY <2>1, FS_EmptySet
  <2> QED
    BY <2>2, <2>3 DEF of
<1> QED
  BY <1>2, <1>3

\* The filters of the events page.
Filters(f) ==
    /\ f = [field \in DOMAIN Unfiltered |-> f[field]]
    /\ \A field \in Fields : IsFiniteSet(f[field])

LEMMA UnfilteredFacts ==
  /\ Filters(Unfiltered)
  /\ Fields \subseteq DOMAIN Unfiltered
  /\ {"chip", "sort", "dir"} \cap Fields = {} /\ {"chip", "sort", "dir"} \subseteq DOMAIN Unfiltered
<1>1. DOMAIN Unfiltered = Fields \cup {"chip", "sort", "dir"}
  BY DEF Unfiltered, Fields
<1>2. \A field \in Fields : Unfiltered[field] = {}
  <2>1. /\ Unfiltered["type"] = {} /\ Unfiltered["severity"] = {} /\ Unfiltered["status"] = {}
        /\ Unfiltered["app"] = {} /\ Unfiltered["deployment"] = {} /\ Unfiltered["server"] = {}
    BY DEF Unfiltered
  <2> QED
    BY <2>1 DEF Fields
<1>3. Unfiltered = [field \in DOMAIN Unfiltered |-> Unfiltered[field]]
  BY DEF Unfiltered
<1>4. {"chip", "sort", "dir"} \cap Fields = {}
  BY DEF Fields
<1> QED
  BY <1>1, <1>2, <1>3, <1>4, FS_EmptySet DEF Filters

LEMMA FieldsFinite == IsFiniteSet(Fields)
<1>1. ASSUME NEW S, IsFiniteSet(S), NEW a PROVE IsFiniteSet(S \cup {a})
  BY <1>1, FS_AddElement
<1> DEFINE A == {"type"} \cup {"severity"}
           B == A \cup {"status"}
           C == B \cup {"app"}
           D == C \cup {"deployment"}
<1>2. IsFiniteSet(A)
  BY <1>1, FS_Singleton
<1>3. IsFiniteSet(B)
  BY <1>1, <1>2
<1>4. IsFiniteSet(C)
  BY <1>1, <1>3
<1>5. IsFiniteSet(D)
  BY <1>1, <1>4
<1>6. IsFiniteSet(D \cup {"server"})
  BY <1>1, <1>5
<1>7. D \cup {"server"} = Fields
  BY DEF Fields
<1> QED
  BY <1>6, <1>7

\* The list is of the events that pass, and sorting leaves none out.
LEMMA ListingFacts ==
  ASSUME Sound(data)
  PROVE  /\ Listing \in Seq(ToSet(Found))
         /\ ToSet(Listing) =
                {x \in ToSet(Found) : /\ In(env, x) /\ \A field \in Fields : Passes(x, field)
                                      /\ x.last >= cutoff /\ ChipPasses(x)}
<1> DEFINE F == ToSet(Found)
           OnList(x) == /\ In(env, x) /\ \A field \in Fields : Passes(x, field)
                        /\ x.last >= cutoff /\ ChipPasses(x)
           K == {i \in DOMAIN Found : OnList(Found[i])}
           kept == At(Found, K)
           key == [i \in DOMAIN kept |-> IF search.dir = "asc" THEN -SortValue(kept[i]) ELSE SortValue(kept[i])]
           before == [i \in DOMAIN kept |->
                         {j \in DOMAIN kept :
                             \/ IF search.dir = "asc" THEN SortValue(kept[j]) < SortValue(kept[i])
                                                      ELSE SortValue(kept[j]) > SortValue(kept[i])
                             \/ j < i /\ ~(IF search.dir = "asc" THEN SortValue(kept[i]) < SortValue(kept[j])
                                                                 ELSE SortValue(kept[i]) > SortValue(kept[j]))}]
<1>1. Listing = Along(kept, InOrder(before))
  BY DEF Listing, StableSort, Where
<1>2. Found \in Seq(F) /\ \A x \in F : Tracked(x)
  BY DEF Sound, Found
<1>3. K \in SUBSET DOMAIN Found
  OBVIOUS
<1> HIDE DEF F
<1>4. kept \in Seq(F) /\ ToSet(kept) = {Found[i] : i \in K}
  <2> HIDE DEF K
  <2> QED
    BY <1>2, <1>3, AtSet
<1>5. \A x \in F : SortValue(x) \in Int
  BY <1>2 DEF SortValue, Tracked
<1>6. ToSet(kept) = {x \in F : OnList(x)}
  <2>1. F = {Found[i] : i \in DOMAIN Found}
    BY DEF F, ToSet
  <2> HIDE DEF OnList, kept
  <2> QED
    BY <1>4, <2>1
<1> HIDE DEF kept, OnList
<1>7. \A i \in DOMAIN kept : SortValue(kept[i]) \in Int
  <2>1. \A i \in DOMAIN kept : kept[i] \in F
    BY <1>4
  <2> QED
    BY <1>5, <2>1
<1>8. \A i \in DOMAIN kept : key[i] \in Int
  BY <1>7
<1>9. before = Ranked(kept, key)
  <2>1. CASE search.dir = "asc"
    <3>1. \A i \in DOMAIN kept : key[i] = -SortValue(kept[i])
      BY <2>1
    <3>2. \A i, j \in DOMAIN kept : SortValue(kept[j]) < SortValue(kept[i]) <=> key[j] > key[i]
      BY <1>7, <3>1
    <3> HIDE DEF key
    <3>3. before = [i \in DOMAIN kept |->
                       {j \in DOMAIN kept : \/ SortValue(kept[j]) < SortValue(kept[i])
                                            \/ j < i /\ ~(SortValue(kept[i]) < SortValue(kept[j]))}]
      BY <2>1
    <3> HIDE DEF before
    <3> QED
      BY <3>2, <3>3 DEF Ranked
  <2>2. CASE search.dir # "asc"
    <3>1. \A i \in DOMAIN kept : key[i] = SortValue(kept[i])
      BY <2>2
    <3> HIDE DEF key
    <3>2. before = [i \in DOMAIN kept |->
                       {j \in DOMAIN kept : \/ SortValue(kept[j]) > SortValue(kept[i])
                                            \/ j < i /\ ~(SortValue(kept[i]) > SortValue(kept[j]))}]
      BY <2>2
    <3> HIDE DEF before
    <3> QED
      BY <3>1, <3>2 DEF Ranked
  <2> QED
    BY <2>1, <2>2
<1> HIDE DEF key, before
<1>10. LET r == Along(kept, InOrder(Ranked(kept, key))) IN r \in Seq(F) /\ ToSet(r) = ToSet(kept)
  BY <1>4, <1>8, SortFacts
<1> QED
  BY <1>1, <1>6, <1>9, <1>10 DEF F, OnList

\* Without filters every event of the environment and the time range is on the list.
LEMMA HiddenFacts ==
  ASSUME Sound(data), Filters(search), ActiveFilters = 0
  PROVE  Visible = {x.id : x \in {x \in ToSet(Found) : In(env, x) /\ x.last >= cutoff}}
<1> DEFINE chosen == [f \in Fields |-> {<<f, v>> : v \in search[f]}]
           all == UNION {chosen[f] : f \in Fields}
<1>1. IsFiniteSet(Fields)
  BY FieldsFinite
<1>2. \A f \in Fields : IsFiniteSet(chosen[f])
  <2> SUFFICES ASSUME NEW f \in Fields PROVE IsFiniteSet(chosen[f])
    OBVIOUS
  <2> DEFINE pair == [v \in search[f] |-> <<f, v>>]
  <2>1. IsFiniteSet(search[f])
    BY DEF Filters
  <2>2. chosen[f] = {pair[v] : v \in search[f]}
    OBVIOUS
  <2> HIDE DEF pair, chosen
  <2> QED
    BY <2>1, <2>2, FiniteImage
<1>3. IsFiniteSet(all)
  <2> DEFINE sets == {chosen[f] : f \in Fields}
  <2> HIDE DEF chosen
  <2>1. IsFiniteSet(sets)
    BY <1>1, FiniteImage
  <2>2. \A T \in sets : IsFiniteSet(T)
    BY <1>2
  <2> HIDE DEF sets
  <2>3. IsFiniteSet(UNION sets)
    BY <2>1, <2>2, FS_UNION
  <2> QED
    BY <2>3 DEF sets
<1>4. ActiveFilters = Cardinality(all) + (IF search.chip = "" THEN 0 ELSE 1)
  BY DEF ActiveFilters
<1>5. Cardinality(all) = 0 /\ search.chip = ""
  <2> HIDE DEF all
  <2>1. Cardinality(all) \in Nat
    BY <1>3, FS_CardinalityType
  <2> DEFINE chip == IF search.chip = "" THEN 0 ELSE 1
  <2>2. chip \in Nat /\ (chip = 0 => search.chip = "")
    <3>1. CASE search.chip = ""
      BY <3>1
    <3>2. CASE search.chip # ""
      <4>1. chip = 1
        BY <3>2
      <4> HIDE DEF chip
      <4> QED
        BY <4>1
    <3> QED
      BY <3>1, <3>2
  <2> HIDE DEF chip
  <2>3. Cardinality(all) + chip = 0
    BY <1>4 DEF chip
  <2>4. Cardinality(all) = 0 /\ chip = 0
    <3>1. \A x, y \in Nat : x + y = 0 => x = 0 /\ y = 0
      OBVIOUS
    <3> QED
      BY <2>1, <2>2, <2>3, <3>1
  <2> QED
    BY <2>2, <2>4
<1>6. all = {}
  <2> HIDE DEF all
  <2> QED
    BY <1>3, <1>5, FS_EmptySet
<1>7. ASSUME NEW f \in Fields PROVE search[f] = {}
  <2> SUFFICES ASSUME NEW v \in search[f] PROVE FALSE
    OBVIOUS
  <2>1. <<f, v>> \in chosen[f]
    OBVIOUS
  <2> HIDE DEF chosen
  <2>2. <<f, v>> \in all
    BY <2>1
  <2> HIDE DEF all
  <2> QED
    BY <1>6, <2>2
<1>8. ASSUME NEW x \in ToSet(Found), NEW f \in Fields PROVE Passes(x, f)
  <2>1. x.status = "active"
    BY DEF Sound, Found, Tracked
  <2> QED
    BY <1>7, <2>1 DEF Passes
<1>9. \A x : ChipPasses(x)
  BY <1>5 DEF ChipPasses
<1>10. ToSet(Listing) = {x \in ToSet(Found) : In(env, x) /\ x.last >= cutoff}
  BY <1>8, <1>9, ListingFacts
<1> QED
  BY <1>10 DEF Visible

\* The newest events of an application.
RecentOf(a) == Take(StableSort(Where(EventsOf(a.id), LAMBDA x : x.status = "active"),
                               LAMBDA x, y : x.last > y.last), 25)

LEMMA LatestFirst ==
  ASSUME NEW S, \A x \in S : x.last \in Int, NEW s \in Seq(S)
  PROVE  StableSort(s, LAMBDA x, y : x.last > y.last) \in Seq(S)
<1> DEFINE key == [i \in DOMAIN s |-> s[i].last]
           before == [i \in DOMAIN s |-> {j \in DOMAIN s : s[j].last > s[i].last
                                                            \/ (j < i /\ ~(s[i].last > s[j].last))}]
<1>1. StableSort(s, LAMBDA x, y : x.last > y.last) = Along(s, InOrder(before))
  BY DEF StableSort
<1>2. \A i \in DOMAIN s : s[i] \in S
  OBVIOUS
<1>3. \A i \in DOMAIN s : key[i] = s[i].last /\ key[i] \in Int
  BY <1>2
<1> HIDE DEF key
<1>4. before = Ranked(s, key)
  BY <1>3 DEF Ranked
<1> HIDE DEF before
<1>5. Along(s, InOrder(Ranked(s, key))) \in Seq(S)
  BY <1>3, SortFacts
<1> QED
  BY <1>1, <1>4, <1>5

LEMMA RecentFacts ==
  ASSUME Sound(data), NEW a PROVE RecentOf(a) \in Seq(ToSet(Found))
<1> DEFINE F == ToSet(Found)
           K == {i \in DOMAIN Found : Found[i].app = a.id}
           mine == At(Found, K)
           L == {i \in DOMAIN mine : mine[i].status = "active"}
           kept == At(mine, L)
           sorted == StableSort(kept, LAMBDA x, y : x.last > y.last)
<1>1. RecentOf(a) = Take(sorted, 25)
  <2>1. EventsOf(a.id) = mine
    BY DEF EventsOf, Where
  <2>2. Where(mine, LAMBDA x : x.status = "active") = kept
    BY DEF Where
  <2> HIDE DEF mine, kept
  <2> QED
    BY <2>1, <2>2 DEF RecentOf
<1>2. Found \in Seq(F) /\ \A x \in F : x.last \in Int
  BY DEF Sound, Found, Tracked
<1>3. K \in SUBSET DOMAIN Found
  OBVIOUS
<1> HIDE DEF F, K
<1>4. mine \in Seq(F)
  BY <1>2, <1>3, AtSet
<1>5. L \in SUBSET DOMAIN mine
  OBVIOUS
<1> HIDE DEF mine, L
<1>6. kept \in Seq(F)
  BY <1>4, <1>5, AtSet
<1> HIDE DEF kept
<1>7. sorted \in Seq(F)
  BY <1>2, <1>6, LatestFirst
<1> HIDE DEF sorted
<1> QED
  BY <1>1, <1>7, TakeFacts DEF F

\* What a page links to is an event that was found.
LEMMA LinkedFacts ==
  ASSUME Sound(data), Counted(series) PROVE \A x \in Linked : Named(x.id)
<1> DEFINE F == ToSet(Found)
<1>1. \A x \in F : Named(x.id)
  BY DEF Sound, Found, Tracked
<1>2. ToSet(TopEvents) \subseteq F
  <2>1. StableSort(PeriodEvents, ByVolume) \in Seq(F)
    BY PeriodFacts, ByVolumeFacts
  <2>2. TopEvents \in Seq(F)
    BY <2>1, TakeFacts DEF TopEvents
  <2> QED
    BY <2>2, SubSet
<1>3. ToSet(NewAndIncreasing) \subseteq F
  BY RegressionFacts, SubSet
<1>4. ToSet(Listing) \subseteq F
  BY ListingFacts, SubSet
<1>5. \A v \in ApplicationViews : ToSet(v.rows) \subseteq F
  <2> SUFFICES ASSUME NEW v \in ApplicationViews PROVE ToSet(v.rows) \subseteq F
    OBVIOUS
  <2> DEFINE View(a) ==
                 [app |-> a, events |-> EventsOf(a.id), health |-> AppHealth(EventsOf(a.id)),
                  new |-> Len(Where(EventsOf(a.id), LAMBDA x : x.first >= now - 60 * Hours[range])),
                  rows |-> RecentOf(a),
                  servers |-> {m \in Machines : m.app = a.id},
                  deltas |-> {Delta(d) : d \in {d \in Releases : d.app = a.id}}]
  <2>1. PICK a : v.rows = RecentOf(a)
    <3>1. ApplicationViews = {View(a) : a \in {a \in Apps : a.id = target}}
      BY DEF ApplicationViews, RecentOf
    <3>2. \A a : View(a).rows = RecentOf(a)
      OBVIOUS
    <3> HIDE DEF View
    <3> QED
      BY <3>1, <3>2
  <2> QED
    BY <2>1, RecentFacts, SubSet
<1>6. \A v \in DeploymentViews : v.introduced \subseteq F
  <2> SUFFICES ASSUME NEW v \in DeploymentViews PROVE v.introduced \subseteq F
    OBVIOUS
  <2>1. PICK d : v.introduced = ToSet(Introduced(d))
    BY DEF DeploymentViews
  <2> DEFINE K == {i \in DOMAIN Found : Found[i].introduced = d.id}
  <2>2. Introduced(d) = At(Found, K) /\ K \in SUBSET DOMAIN Found
    BY DEF Introduced, Where
  <2>3. Found \in Seq(F)
    BY DEF Sound, Found
  <2> HIDE DEF K, F
  <2>4. At(Found, K) \in Seq(F)
    BY <2>2, <2>3, AtSet
  <2> QED
    BY <2>1, <2>2, <2>4, SubSet
<1> HIDE DEF F
<1>7. ASSUME NEW x \in Linked PROVE x \in F
  BY <1>2, <1>3, <1>4, <1>5, <1>6 DEF Linked
<1> QED
  BY <1>1, <1>7
-----------------------------------------------------------------------------
(* The inductive invariant.                                                *)

Keys == {EventKey, SnapshotsKey} \cup DOMAIN FramesOf

\* What the event page and the collector hold.
PageTypes ==
    /\ states \in Seq(Seq(Rows)) /\ states # <<>> /\ arrived \in Nat /\ gone \in Nat
    /\ occ \in Int /\ occ >= None /\ frame \in Int /\ frame >= None
    /\ snaps \in Seq(Rows) /\ (snaps # <<>> => listed)
    /\ detail \in [DOMAIN FramesOf -> Nat] /\ \A k \in DOMAIN FramesOf : detail[k] \in {0, k}
    /\ fetching \subseteq Keys /\ errors \subseteq Keys
    /\ event = "" => fetching = {} /\ snaps = <<>>

\* What a request may be answered with, or the cache has, is a state there was; nothing
\* older than the last one, once that is announced, unless it is late.
Kept(q) ==
    /\ q \in [state : DOMAIN states, late : BOOLEAN]
    /\ quiet /\ ~q.late => q.state = Len(states)

Stray(late) == [state |-> strays[late], late |-> late]

Requested ==
    /\ cache # Nothing => Kept(cache)
    /\ asked = [k \in Cached |-> asked[k]] /\ \A k \in Cached : asked[k] # Nothing => Kept(asked[k])
    /\ strays = [late \in BOOLEAN |-> strays[late]]
    /\ \A late \in BOOLEAN : strays[late] # 0 => Kept(Stray(late))

\* A query is being fetched exactly while it has a request.
Fetched == \A k \in {EventKey, SnapshotsKey} : k \in fetching <=> asked[k] # Nothing

\* What is unfolded is on view.
Unfolded ==
    /\ Screen # "panes" => expanded = {}
    /\ opened \subseteq VariablesShown

\* The occurrences are out of date only while that is about to change, or if they came
\* late.
UpToDate ==
    (quiet /\ Named(event) /\ SnapshotsKey \notin fetching \cup errors /\ ~overtaken) =>
        snaps = Snapshots(rows, event)

\* What the pages that read hold.
Reading ==
    /\ page \in Pages \cup {"event"} /\ (page = "event" <=> Named(event))
    /\ env \in Environments /\ range \in Ranges
    /\ Filters(search)
    /\ page # "events" => selected = {} /\ search = Unfiltered
    /\ pending \subseteq Queries(page) /\ ("data" \in pending <=> asked[DataKey] # Nothing)
    /\ Sound(data) /\ Counted(series)

\* The page of one event, and what it is fetched from.
EventInv == PageTypes /\ Requested /\ Fetched /\ Unfolded /\ UpToDate

IInv == EventInv /\ Reading
-----------------------------------------------------------------------------
(* Requests and the cache.                                                 *)

LEMMA CachedFacts ==
  /\ EventKey \in Cached /\ SnapshotsKey \in Cached /\ DataKey \in Cached
  /\ EventKey # SnapshotsKey /\ DataKey \notin {EventKey, SnapshotsKey}
BY DEF Cached, EventKey, SnapshotsKey, DataKey

\* The collector's rows are those of the last state.
LEMMA RowsFacts ==
  ASSUME PageTypes
  PROVE  /\ Len(states) \in DOMAIN states /\ DOMAIN states = 1..Len(states)
         /\ rows \in Seq(Rows) /\ \A n \in DOMAIN states : states[n] \in Seq(Rows)
<1>0. states \in Seq(Seq(Rows)) /\ states # <<>>
  BY Zenon DEF PageTypes
<1> DEFINE S == Seq(Rows)
<1> HIDE DEF S
<1>1. states \in Seq(S) /\ states # <<>>
  BY <1>0 DEF S
<1>2. /\ Len(states) \in DOMAIN states /\ DOMAIN states = 1..Len(states)
      /\ \A n \in DOMAIN states : states[n] \in S
  BY <1>1
<1> QED
  BY <1>2 DEF rows, S

\* A state that may be read was one; the last one, for a request that is not late.
LEMMA ReadableFacts ==
  ASSUME PageTypes, NEW q, Kept(q), NEW n \in Readable(q)
  PROVE  n \in DOMAIN states /\ (quiet /\ ~q.late => n = Len(states))
<1>1. q.state \in 1..Len(states) /\ n \in q.state..Len(states) /\ Len(states) \in Nat
  BY RowsFacts DEF Kept, Readable
<1>2. q.state = Len(states) => n = Len(states)
  BY <1>1
<1>3. n \in 1..Len(states)
  BY <1>1
<1> QED
  BY <1>2, <1>3, RowsFacts DEF Kept

LEMMA RequestFacts ==
  ASSUME PageTypes, NEW q, q # Nothing => Kept(q)
  PROVE  Kept(Request(q)) /\ Request(q) # Nothing
<1>1. Len(states) \in DOMAIN states /\ Len(states) # 0
  BY RowsFacts
<1>2. CASE q = Nothing
  <2>1. Request(q) = [state |-> Len(states), late |-> FALSE]
    BY <1>2 DEF Request
  <2> QED
    BY <1>1, <2>1 DEF Kept, Nothing
<1>3. CASE q # Nothing
  BY <1>3 DEF Request
<1> QED
  BY <1>2, <1>3

\* The oldest of some requests is one of them.
LEMMA OldestFacts ==
  ASSUME PageTypes, Requested, NEW keys \in SUBSET Cached, NEW lates \in SUBSET BOOLEAN, Oldest(keys, lates) # 0
  PROVE  \E late \in lates : Kept([state |-> Oldest(keys, lates), late |-> late])
<1> DEFINE under == ({asked[k].state : k \in {k \in keys : asked[k].late \in lates}}
                         \cup {strays[late] : late \in lates}) \ {0}
           Found0(n) == \E late \in lates : Kept([state |-> n, late |-> late])
<1>1. Oldest(keys, lates) = IF under = {} THEN 0 ELSE Min(under)
  BY DEF Oldest
<1>2. ASSUME NEW n \in under PROVE n \in Nat /\ Found0(n)
  <2>1. CASE \E k \in keys : asked[k].late \in lates /\ n = asked[k].state
    <3>1. PICK k \in keys : asked[k].late \in lates /\ n = asked[k].state
      BY <2>1
    <3>2. n # 0
      OBVIOUS
    <3>3. asked[k] # Nothing
      BY <3>1, <3>2 DEF Nothing
    <3>4. Kept(asked[k])
      BY <3>3 DEF Requested
    <3>5. Kept([state |-> n, late |-> asked[k].late])
      BY <3>1, <3>4 DEF Kept
    <3>6. n \in Nat
      BY <3>5, RowsFacts DEF Kept
    <3> QED
      BY <3>1, <3>5, <3>6
  <2>2. CASE \E late \in lates : n = strays[late]
    <3>1. PICK late \in lates : n = strays[late]
      BY <2>2
    <3>2. n # 0
      OBVIOUS
    <3>3. Kept([state |-> n, late |-> late])
      BY <3>1, <3>2 DEF Requested, Stray
    <3>4. n \in Nat
      BY <3>3, RowsFacts DEF Kept
    <3> QED
      BY <3>3, <3>4
  <2> QED
    BY <2>1, <2>2
<1> HIDE DEF under, Found0
<1>3. under # {} /\ under \in SUBSET Nat
  BY <1>1, <1>2
<1>4. Min(under) \in under
  BY <1>3, MinFacts
<1>5. Found0(Oldest(keys, lates))
  BY <1>1, <1>2, <1>3, <1>4
<1> QED
  BY <1>5 DEF Found0

LEMMA KeptStep ==
  ASSUME UNCHANGED <<states, quiet>>
  PROVE  \A q : Kept(q)' <=> Kept(q)
BY DEF Kept

\* Nothing happens to the requests.
LEMMA SameRequests ==
  ASSUME Requested, UNCHANGED <<states, quiet, requests>>
  PROVE  Requested' /\ asked' = asked
<1>1. UNCHANGED <<cache, asked, strays>>
  BY DEF requests
<1> QED
  BY <1>1 DEF Requested, Kept, Stray

\* A query is answered.
LEMMA SettlesStep ==
  ASSUME Requested, NEW k \in Cached, Settles(k), UNCHANGED <<states, quiet>>
  PROVE  /\ Requested' /\ asked'[k] = Nothing
         /\ \A l \in Cached \ {k} : asked'[l] = asked[l]
<1>1. asked' = [asked EXCEPT ![k] = Nothing] /\ UNCHANGED <<cache, strays>>
  BY DEF Settles
<1>2. asked = [l \in Cached |-> asked[l]]
  BY DEF Requested
<1>3. asked' = [l \in Cached |-> IF l = k THEN Nothing ELSE asked[l]]
  BY <1>1, <1>2
<1>4. asked' = [l \in Cached |-> asked'[l]] /\ asked'[k] = Nothing /\ \A l \in Cached \ {k} : asked'[l] = asked[l]
  BY <1>3
<1>5. Requested'
  BY <1>1, <1>4 DEF Requested, Kept, Stray
<1> QED
  BY <1>4, <1>5

\* Another page comes on view.
LEMMA AsksStep ==
  ASSUME PageTypes, Requested, NEW keys \in SUBSET Cached, Asks(keys), UNCHANGED <<states, quiet>>
  PROVE  Requested' /\ \A k \in Cached : k \in keys <=> asked'[k] # Nothing
<1> DEFINE left == {[state |-> strays[late], late |-> late] : late \in {late \in BOOLEAN : strays[late] # 0}}
           joins == {Request(cache)} \cup left
<1>1. PICK joined \in [keys -> joins] : asked' = [k \in Cached |-> IF k \in keys THEN joined[k] ELSE Nothing]
  BY DEF Asks
<1>2. ASSUME NEW q \in joins PROVE Kept(q) /\ q # Nothing
  <2>1. CASE q = Request(cache)
    BY <2>1, RequestFacts DEF Requested
  <2>2. CASE q \in left
    <3>1. PICK late \in BOOLEAN : strays[late] # 0 /\ q = [state |-> strays[late], late |-> late]
      BY <2>2
    <3> QED
      BY <3>1 DEF Requested, Stray, Nothing
  <2> QED
    BY <2>1, <2>2
<1> HIDE DEF joins
<1>3. \A k \in Cached : /\ k \in keys => Kept(asked'[k]) /\ asked'[k] # Nothing
                        /\ k \notin keys => asked'[k] = Nothing
  BY <1>1, <1>2
<1>4. asked' = [k \in Cached |-> asked'[k]]
  BY <1>1
<1>5. strays' = [late \in BOOLEAN |-> Oldest(Cached, {late})] /\ UNCHANGED cache
  BY DEF Asks
<1>6. ASSUME NEW late \in BOOLEAN, strays'[late] # 0 PROVE Kept(Stray(late)')
  <2>1. strays'[late] = Oldest(Cached, {late})
    BY <1>5
  <2>2. {late} \in SUBSET BOOLEAN
    OBVIOUS
  <2>3. Kept([state |-> Oldest(Cached, {late}), late |-> late])
    BY <1>6, <2>1, <2>2, OldestFacts
  <2> QED
    BY <2>1, <2>3 DEF Stray
<1>7. strays' = [late \in BOOLEAN |-> strays'[late]]
  BY <1>5
<1>8. \A q : Kept(q)' <=> Kept(q)
  BY KeptStep
<1>9. Requested'
  <2>1. cache' # Nothing => Kept(cache)'
    BY <1>5 DEF Requested, Kept
  <2>2. \A k \in Cached : asked'[k] # Nothing => Kept(asked[k])'
    BY <1>3 DEF Kept
  <2>3. \A late \in BOOLEAN : strays'[late] # 0 => Kept(Stray(late))'
    BY <1>6 DEF Kept
  <2> QED
    BY <1>4, <1>7, <2>1, <2>2, <2>3 DEF Requested
<1> QED
  BY <1>3, <1>9

\* A live message: what is left alone becomes late, what is asked again is not.
LEMMA RefreshedStep ==
  ASSUME PageTypes, Requested, NEW keys \in SUBSET Cached, NEW with \in SUBSET Cached, Refreshed(keys, with),
         UNCHANGED states
  PROVE  Requested' /\ \A k \in Cached : k \in keys <=> asked'[k] # Nothing
<1>1. /\ cache' = Nothing
      /\ asked' = [k \in Cached |->
                      IF k \in keys \ with /\ asked[k] # Nothing THEN [asked[k] EXCEPT !.late = TRUE]
                      ELSE IF k \in keys THEN Request(Nothing) ELSE Nothing]
      /\ strays' = [late \in BOOLEAN |-> IF late THEN Oldest(with, BOOLEAN) ELSE 0]
  BY DEF Refreshed, RefreshedTo
<1> DEFINE last == Request(Nothing)
<1>2. last # Nothing /\ last' = last /\ Kept(last)'
  <2>1. /\ last = [state |-> Len(states), late |-> FALSE] /\ last' = [state |-> Len(states), late |-> FALSE]
        /\ Len(states) \in DOMAIN states /\ Len(states) # 0
    BY RowsFacts DEF Request, Nothing
  <2>2. last # Nothing
    BY <2>1 DEF Nothing
  <2> HIDE DEF last
  <2> QED
    BY <2>1, <2>2 DEF Kept
<1>3. ASSUME NEW k \in Cached, k \in keys \ with, asked[k] # Nothing
      PROVE  asked'[k] # Nothing /\ Kept(asked[k])'
  <2>1. asked'[k] = [asked[k] EXCEPT !.late = TRUE]
    BY <1>1, <1>3
  <2>2. asked[k] \in [state : DOMAIN states, late : BOOLEAN]
    BY <1>3 DEF Requested, Kept
  <2>3. asked'[k] \in [state : DOMAIN states, late : BOOLEAN] /\ asked'[k].late = TRUE
    BY <2>1, <2>2
  <2>4. asked'[k] # Nothing
    BY <2>3 DEF Nothing
  <2> QED
    BY <2>3, <2>4 DEF Kept
<1>4. ASSUME NEW k \in Cached, ~(k \in keys \ with /\ asked[k] # Nothing)
      PROVE  asked'[k] = IF k \in keys THEN Request(Nothing) ELSE Nothing
  BY <1>1, <1>4
<1>5. \A k \in Cached : /\ k \in keys => asked'[k] # Nothing /\ Kept(asked[k])'
                        /\ k \notin keys => asked'[k] = Nothing
  <2> SUFFICES ASSUME NEW k \in Cached
               PROVE  /\ k \in keys => asked'[k] # Nothing /\ Kept(asked[k])'
                      /\ k \notin keys => asked'[k] = Nothing
    OBVIOUS
  <2>1. CASE k \in keys \ with /\ asked[k] # Nothing
    BY <1>3, <2>1
  <2>2. CASE ~(k \in keys \ with /\ asked[k] # Nothing)
    <3>1. asked'[k] = IF k \in keys THEN last ELSE Nothing
      BY <1>4, <2>2
    <3> HIDE DEF last
    <3>2. k \in keys => asked'[k] = last'
      BY <1>2, <3>1
    <3> QED
      BY <1>2, <3>1, <3>2 DEF Kept
  <2> QED
    BY <2>1, <2>2
<1>6. asked' = [k \in Cached |-> asked'[k]]
  BY <1>1
<1>7. strays' = [late \in BOOLEAN |-> strays'[late]]
  BY <1>1
<1>8. ASSUME NEW late \in BOOLEAN, strays'[late] # 0 PROVE Kept(Stray(late))'
  <2>1. late = TRUE /\ strays'[late] = Oldest(with, BOOLEAN)
    BY <1>1, <1>8
  <2>2. BOOLEAN \in SUBSET BOOLEAN
    OBVIOUS
  <2>3. \E l \in BOOLEAN : Kept([state |-> Oldest(with, BOOLEAN), late |-> l])
    BY <1>8, <2>1, <2>2, OldestFacts
  <2>4. strays'[late] \in DOMAIN states
    BY <2>1, <2>3 DEF Kept
  <2> QED
    BY <2>1, <2>4 DEF Stray, Kept
<1>9. Requested'
  <2>1. cache' = Nothing
    BY <1>1
  <2> QED
    BY <1>5, <1>6, <1>7, <1>8, <2>1 DEF Requested
<1> QED
  BY <1>5, <1>9

\* The module's cache fills and lapses, and a request is tried again.
LEMMA UnderneathStep ==
  ASSUME PageTypes, Requested, Fill \/ Lapse \/ Retry, UNCHANGED <<states, quiet>>
  PROVE  Requested' /\ \A k \in Cached : asked[k] # Nothing <=> asked'[k] # Nothing
<1>1. CASE Fill
  <2>1. UNCHANGED <<asked, strays>>
    BY <1>1 DEF Fill
  <2>2. PICK late \in BOOLEAN : /\ Oldest(Cached, {late}) # 0
                                /\ \E n \in Oldest(Cached, {late})..Len(states) : cache' = [state |-> n, late |-> late]
    BY <1>1 DEF Fill
  <2> DEFINE q == [state |-> Oldest(Cached, {late}), late |-> late]
  <2>3. PICK n \in Readable(q) : cache' = [state |-> n, late |-> late]
    BY <2>2 DEF Readable
  <2>4. Kept(q)
    <3>1. {late} \in SUBSET BOOLEAN /\ Cached \in SUBSET Cached
      OBVIOUS
    <3> QED
      BY <2>2, <3>1, OldestFacts
  <2>5. q.late = late
    OBVIOUS
  <2> HIDE DEF q
  <2>6. n \in DOMAIN states /\ (quiet /\ ~late => n = Len(states))
    BY <2>3, <2>4, <2>5, ReadableFacts
  <2>7. Kept(cache)'
    BY <2>3, <2>6 DEF Kept
  <2> QED
    BY <2>1, <2>7 DEF Requested, Kept, Stray
<1>2. CASE Lapse
  <2>1. cache' = Nothing /\ UNCHANGED <<asked, strays>>
    BY <1>2 DEF Lapse
  <2> QED
    BY <2>1 DEF Requested, Kept, Stray
<1>3. CASE Retry
  <2>1. PICK k \in Cached : asked[k] # Nothing /\ asked' = [asked EXCEPT ![k] = Request(cache)]
    BY <1>3 DEF Retry
  <2>2. UNCHANGED <<cache, strays>>
    BY <1>3 DEF Retry
  <2>3. Kept(Request(cache)) /\ Request(cache) # Nothing
    BY RequestFacts DEF Requested
  <2> DEFINE q == Request(cache)
  <2> HIDE DEF q
  <2>4. asked' = [l \in Cached |-> IF l = k THEN q ELSE asked[l]]
    BY <2>1 DEF Requested, q
  <2>5. asked' = [l \in Cached |-> asked'[l]] /\ asked'[k] = q /\ \A l \in Cached \ {k} : asked'[l] = asked[l]
    BY <2>4
  <2>6. Kept(q) /\ q # Nothing
    BY <2>3 DEF q
  <2>7. \A l \in Cached : (asked[l] # Nothing <=> asked'[l] # Nothing) /\ (asked'[l] # Nothing => Kept(asked'[l]))
    BY <2>1, <2>5, <2>6 DEF Requested
  <2>8. \A l \in Cached : asked'[l] # Nothing => Kept(asked[l])'
    BY <2>7 DEF Kept
  <2> QED
    BY <2>2, <2>5, <2>7, <2>8 DEF Requested, Kept, Stray
<1> QED
  BY <1>1, <1>2, <1>3


-----------------------------------------------------------------------------
(* The page of one event.                                                  *)

LEMMA KeysFacts ==
  /\ EventKey \in Keys /\ SnapshotsKey \in Keys /\ EventKey # SnapshotsKey
  /\ 0 \notin DOMAIN FramesOf /\ None \notin DOMAIN FramesOf
  /\ EventKey \notin DOMAIN FramesOf /\ SnapshotsKey \notin DOMAIN FramesOf
  /\ DOMAIN FramesOf \subseteq Nat
<1>1. \A id \in DOMAIN FramesOf : id \in Nat \ {0}
  BY RowsAssumption
<1> QED
  BY <1>1 DEF Keys, EventKey, SnapshotsKey, None

\* The occurrence on view is one there is.
LEMMA OccFacts ==
  ASSUME NEW o \in Int, o >= None, NEW ss \in Seq(Rows), ss # <<>>
  PROVE  LET i == IF o = None \/ ss = <<>> THEN 1 ELSE Min({o + 1, Len(ss)})
         IN  i \in 1..Len(ss) /\ ss[i].id \in DOMAIN FramesOf
<1> DEFINE i == IF o = None \/ ss = <<>> THEN 1 ELSE Min({o + 1, Len(ss)})
<1>1. Len(ss) \in Nat /\ Len(ss) >= 1 /\ \A j \in 1..Len(ss) : ss[j] \in Rows
  OBVIOUS
<1>2. \A x, y \in Int : Min({x, y}) = IF x < y THEN x ELSE y
  BY DEF Min
<1>3. i \in 1..Len(ss)
  <2>1. CASE o = None
    BY <1>1, <2>1
  <2>2. CASE o # None
    <3>1. i = IF o + 1 < Len(ss) THEN o + 1 ELSE Len(ss)
      BY <1>1, <1>2, <2>2
    <3> HIDE DEF i
    <3> QED
      BY <1>1, <2>2, <3>1 DEF None
  <2> QED
    BY <2>1, <2>2
<1> HIDE DEF i
<1>4. ss[i].id \in DOMAIN FramesOf
  BY <1>1, <1>3 DEF Rows
<1> QED
  BY <1>3, <1>4 DEF i

LEMMA CurrentFacts ==
  ASSUME PageTypes
  PROVE  /\ snaps # <<>> => /\ OccIndex \in 1..Len(snaps) /\ Current = snaps[OccIndex].id
                            /\ Current \in DOMAIN FramesOf /\ DetailKey = Current
         /\ snaps = <<>> => DetailKey = None
         /\ Shown \in {0} \cup DOMAIN FramesOf
         /\ snaps # <<>> => Shown \in {0, Current}
<1>1. occ \in Int /\ occ >= None /\ snaps \in Seq(Rows)
  BY DEF PageTypes
<1>2. snaps # <<>> => OccIndex \in 1..Len(snaps) /\ snaps[OccIndex].id \in DOMAIN FramesOf
  BY <1>1, OccFacts DEF OccIndex
<1>3. /\ snaps # <<>> => Current = snaps[OccIndex].id
      /\ snaps = <<>> => Current = None
      /\ DetailKey = Current
  BY DEF Current, DetailKey
<1>4. snaps # <<>> => Shown \in {0, Current}
  BY <1>2, <1>3 DEF Shown, PageTypes
<1>5. snaps = <<>> => Shown = 0
  BY DEF Shown
<1> QED
  BY <1>2, <1>3, <1>4, <1>5

\* The frames on view are in rows, and what can be clicked is one of them.
LEMMA FramesFacts ==
  ASSUME PageTypes
  PROVE  /\ FlattenSeq(Trace) = [i \in DOMAIN Frames |-> i]
         /\ Clickable \subseteq Nat
<1>1. Shown \in {0} \cup DOMAIN FramesOf /\ 0 \notin DOMAIN FramesOf
  BY CurrentFacts, KeysFacts
<1>2. Frames = IF Shown = 0 THEN <<>> ELSE FramesOf[Shown]
  BY <1>1 DEF Frames, FramesShown
<1>3. Trace = TraceRows(Frames)
  BY <1>1 DEF Trace, TraceOf, Frames, FramesShown
<1>4. Traces(Frames)
  <2>1. CASE Shown = 0
    <3>1. Frames = <<>> /\ <<>> \in Seq({}) /\ {Frames[i] : i \in DOMAIN Frames} = {} /\ DOMAIN Frames = {}
      BY <1>2, <2>1
    <3> QED
      BY <3>1 DEF Traces
  <2>2. CASE Shown # 0
    <3> DEFINE fs == FramesOf[Shown]
               S == {f \in ToSet(fs) : f.user \in BOOLEAN}
    <3>1. fs \in Seq(S)
      BY <1>1, <2>2, RowsAssumption
    <3>2. \A f \in S : f.user \in BOOLEAN /\ f \in ToSet(fs)
      OBVIOUS
    <3>3. ToSet(fs) = {fs[i] : i \in DOMAIN fs}
      BY DEF ToSet
    <3> HIDE DEF fs, S
    <3>4. \A i \in DOMAIN fs : fs[i] \in S
      BY <3>1
    <3>5. fs \in Seq(ToSet(fs))
      BY <3>1, <3>2
    <3>6. Traces(fs)
      BY <3>2, <3>3, <3>4, <3>5 DEF Traces
    <3> QED
      BY <1>2, <2>2, <3>6 DEF fs
  <2> QED
    BY <2>1, <2>2
<1>5. Trace \in Seq(Seq(Nat)) /\ FlattenSeq(Trace) = [i \in DOMAIN Frames |-> i]
  BY <1>3, <1>4, TraceFacts
<1>6. \A g \in ToSet(Trace) : g \in Seq(Nat)
  BY <1>5, SubSet
<1>7. \A g \in ToSet(Trace) : ToSet(g) \subseteq Nat
  BY <1>6, SubSet
<1>8. Clickable \subseteq Nat
  BY <1>7 DEF Clickable
<1> QED
  BY <1>5, <1>8

\* The panes (EventDetail).
LEMMA PanesFacts == ASSUME PageTypes, Fetched, Unfolded PROVE PanesAgree
<1>1. EventTypeOK
  BY DEF PageTypes, Fetched, Unfolded, EventTypeOK, Keys
<1>2. ASSUME Screen = "panes", Shown # 0
      PROVE  /\ Shown = snaps[OccIndex].id
             /\ FlattenSeq(Trace) = [i \in DOMAIN Frames |-> i]
             /\ opened \subseteq {<<snaps[OccIndex].id, SelectedFrame, v>> : v \in Frames[SelectedFrame].vars}
  <2>1. snaps # <<>>
    BY <1>2 DEF Screen
  <2>2. Shown = snaps[OccIndex].id
    BY <1>2, <2>1, CurrentFacts
  <2>3. \A x \in VariablesShown : \E v \in Frames[SelectedFrame].vars : x = <<Shown, SelectedFrame, v>>
    BY DEF VariablesShown
  <2>4. opened \subseteq VariablesShown
    BY DEF Unfolded
  <2>5. opened \subseteq {<<Shown, SelectedFrame, v>> : v \in Frames[SelectedFrame].vars}
    BY <2>3, <2>4
  <2> QED
    BY <2>2, <2>5, FramesFacts
<1> QED
  BY <1>1, <1>2 DEF PanesAgree

\* The occurrences come newest first.
LEMMA SnapshotsFacts ==
  ASSUME NEW rs \in Seq(Rows), NEW id
  PROVE  LET ss == Snapshots(rs, id)
         IN  /\ ss \in Seq(Rows)
             /\ ss # <<>> => \E j \in DOMAIN rs :
                    /\ rs[j] = ss[1]
                    /\ \A i \in DOMAIN rs : EventId(rs[i]) = id => rs[i].at <= rs[j].at
<1> DEFINE g == Group(rs, id)
           key == [i \in DOMAIN g |-> g[i].at]
           before == [i \in DOMAIN g |-> {j \in DOMAIN g : g[j].at > g[i].at
                                                            \/ (j < i /\ ~(g[i].at > g[j].at))}]
           ss == Along(g, InOrder(before))
<1>1. Snapshots(rs, id) = ss
  BY DEF Snapshots, StableSort
<1>2. g \in Seq(Rows) /\ ToSet(g) = {rs[i] : i \in {i \in DOMAIN rs : EventId(rs[i]) = id}}
  BY GroupFacts
<1> HIDE DEF g
<1>3. \A i \in DOMAIN g : g[i] \in Rows
  BY <1>2
<1>4. \A i \in DOMAIN g : key[i] = g[i].at /\ key[i] \in Int
  BY <1>3 DEF Rows
<1> HIDE DEF key
<1>5. before = Ranked(g, key)
  BY <1>4 DEF Ranked
<1> HIDE DEF before
<1>6. /\ ss \in Seq(Rows) /\ Len(ss) = Len(g)
      /\ g # <<>> => \E i \in DOMAIN g : ss[1] = g[i] /\ \A j \in DOMAIN g : key[j] <= key[i]
  BY <1>2, <1>4, <1>5, SortFacts
<1> HIDE DEF ss
<1>7. ASSUME ss # <<>>
      PROVE  \E j \in DOMAIN rs : /\ rs[j] = ss[1]
                                  /\ \A i \in DOMAIN rs : EventId(rs[i]) = id => rs[i].at <= rs[j].at
  <2>1. g # <<>>
    BY <1>2, <1>6, <1>7
  <2>2. PICK k \in DOMAIN g : ss[1] = g[k] /\ \A j \in DOMAIN g : key[j] <= key[k]
    BY <1>6, <2>1
  <2>3. PICK j \in DOMAIN rs : rs[j] = g[k]
    BY <1>2 DEF ToSet
  <2>4. ASSUME NEW i \in DOMAIN rs, EventId(rs[i]) = id PROVE rs[i].at <= rs[j].at
    <3>1. PICK l \in DOMAIN g : g[l] = rs[i]
      BY <1>2, <2>4 DEF ToSet
    <3> QED
      BY <1>4, <2>2, <2>3, <3>1
  <2> QED
    BY <2>2, <2>3, <2>4
<1> QED
  BY <1>1, <1>6, <1>7

LEMMA NewestFacts == ASSUME PageTypes, UpToDate PROVE ShowsNewest
<1> SUFFICES ASSUME Screen = "panes", occ = None, quiet, fetching = {}, errors = {}, ~overtaken,
                    NEW i \in DOMAIN rows, EventId(rows[i]) = event
             PROVE  \E j \in DOMAIN rows : rows[j].id = Current /\ rows[j].at >= rows[i].at
  BY DEF ShowsNewest
<1>1. event # "" /\ snaps # <<>>
  BY DEF Screen
<1>2. snaps = Snapshots(rows, event)
  BY <1>1 DEF UpToDate, Named
<1>3. Current = snaps[1].id
  BY <1>1 DEF Current, OccIndex
<1>4. rows \in Seq(Rows)
  BY RowsFacts
<1>5. PICK j \in DOMAIN rows : rows[j] = snaps[1] /\ rows[i].at <= rows[j].at
  BY <1>1, <1>2, <1>4, SnapshotsFacts
<1>6. rows[i].at \in Int /\ rows[j].at \in Int
  <2>1. rows[i] \in Rows /\ rows[j] \in Rows
    BY <1>4
  <2> QED
    BY <2>1 DEF Rows
<1> QED
  BY <1>3, <1>5, <1>6

\* A render puts away what is no longer on view.
LEMMA RemountedFacts == ASSUME NEW groups, NEW unfolded, Remounted(groups, unfolded) PROVE Unfolded'
<1>1. expanded' = (IF Screen' = "panes" THEN groups ELSE {}) /\ opened' = unfolded \cap VariablesShown'
  BY DEF Remounted
<1> QED
  BY <1>1 DEF Unfolded

\* The detail query follows an occurrence that is there.
LEMMA FollowFacts ==
  ASSUME occ' \in Int, occ' >= None, snaps' \in Seq(Rows)
  PROVE  Follow \subseteq DOMAIN FramesOf
<1>1. snaps' # <<>> => DetailKey' \in DOMAIN FramesOf
  <2>1. snaps' # <<>> => snaps'[OccIndex'].id \in DOMAIN FramesOf
    BY OccFacts DEF OccIndex
  <2> QED
    BY <2>1 DEF DetailKey, Current
<1>2. snaps' = <<>> => DetailKey' = None
  BY DEF DetailKey, Current
<1> QED
  BY <1>1, <1>2 DEF Follow

LEMMA RestartedFacts == ASSUME NEW errs, NEW keys PROVE Restarted(errs, keys) \subseteq errs
BY DEF Restarted

\* The queries answer.
LEMMA EventAnsweredStep ==
  ASSUME EventInv, EventAnswered, UNCHANGED <<collector, quiet>>
  PROVE  EventInv' /\ asked'[DataKey] = asked[DataKey]
<1>0. PageTypes /\ Requested /\ Fetched /\ UpToDate
  BY DEF EventInv
<1>1. /\ EventKey \in fetching
      /\ fetching' = fetching \ {EventKey} /\ errors' \subseteq errors \cup {EventKey}
      /\ errors \ {EventKey} \subseteq errors'
      /\ UNCHANGED <<event, occ, frame, snaps, listed, overtaken, detail, states, arrived, gone, quiet>>
  BY DEF EventAnswered, collector
<1>2. PageTypes'
  BY <1>0, <1>1 DEF PageTypes, Keys
<1>3. Settles(EventKey)
  BY DEF EventAnswered
<1>4. Requested' /\ asked'[EventKey] = Nothing /\ \A l \in Cached \ {EventKey} : asked'[l] = asked[l]
  BY <1>0, <1>1, <1>3, CachedFacts, SettlesStep
<1>5. Fetched'
  BY <1>0, <1>1, <1>4, CachedFacts DEF Fetched
<1>6. Unfolded'
  BY RemountedFacts DEF EventAnswered
<1>7. UpToDate'
  BY <1>0, <1>1, KeysFacts DEF UpToDate, rows
<1> QED
  BY <1>2, <1>4, <1>5, <1>6, <1>7, CachedFacts DEF EventInv

LEMMA SnapshotsAnsweredStep ==
  ASSUME EventInv, SnapshotsAnswered, UNCHANGED <<collector, quiet>>
  PROVE  EventInv' /\ asked'[DataKey] = asked[DataKey]
<1>0. PageTypes /\ Requested /\ Fetched /\ UpToDate
  BY DEF EventInv
<1>1. /\ SnapshotsKey \in fetching
      /\ fetching' = (fetching \ {SnapshotsKey}) \cup Follow
      /\ UNCHANGED <<event, occ, frame, known, detail, states, arrived, gone, quiet>>
  BY DEF SnapshotsAnswered, collector
<1>2. Kept(asked[SnapshotsKey])
  BY <1>0, <1>1, CachedFacts DEF Fetched, Requested
<1>3. \/ /\ \E n \in Readable(asked[SnapshotsKey]) : snaps' = Snapshots(states[n], event)
         /\ listed' = TRUE /\ overtaken' = asked[SnapshotsKey].late
         /\ errors' = Restarted(errors \ {SnapshotsKey}, Follow)
      \/ /\ UNCHANGED <<snaps, listed, overtaken>>
         /\ errors' = errors \cup {SnapshotsKey}
  BY DEF SnapshotsAnswered
<1>4. errors' \subseteq errors \cup {SnapshotsKey}
  BY <1>3, RestartedFacts
<1>5. ASSUME NEW n \in Readable(asked[SnapshotsKey])
      PROVE  /\ Snapshots(states[n], event) \in Seq(Rows)
             /\ quiet /\ ~asked[SnapshotsKey].late => states[n] = rows
  <2>1. n \in DOMAIN states /\ (quiet /\ ~asked[SnapshotsKey].late => n = Len(states))
    BY <1>0, <1>2, ReadableFacts
  <2>2. states[n] \in Seq(Rows)
    BY <1>0, <2>1, RowsFacts
  <2>3. Snapshots(states[n], event) \in Seq(Rows)
    BY <2>2, SnapshotsFacts
  <2> QED
    BY <2>1, <2>3 DEF rows
<1>6. snaps' \in Seq(Rows) /\ (snaps' # <<>> => listed')
  <2>0. snaps \in Seq(Rows) /\ (snaps # <<>> => listed)
    BY <1>0 DEF PageTypes
  <2> QED
    BY <1>3, <1>5, <2>0, Zenon
<1>7. Follow \subseteq DOMAIN FramesOf
  BY <1>0, <1>1, <1>6, FollowFacts DEF PageTypes
<1>8. event # ""
  BY <1>0, <1>1 DEF PageTypes
<1>9. PageTypes'
  BY <1>0, <1>1, <1>4, <1>6, <1>7, <1>8 DEF PageTypes, Keys
<1>10. Settles(SnapshotsKey)
  BY DEF SnapshotsAnswered
<1>11. Requested' /\ asked'[SnapshotsKey] = Nothing /\ \A l \in Cached \ {SnapshotsKey} : asked'[l] = asked[l]
  BY <1>0, <1>1, <1>10, CachedFacts, SettlesStep
<1>12. Fetched'
  BY <1>0, <1>1, <1>7, <1>11, CachedFacts, KeysFacts DEF Fetched
<1>13. Unfolded'
  BY RemountedFacts DEF SnapshotsAnswered
<1>14. rows' = rows
  BY <1>1 DEF rows
<1>15. UpToDate'
  BY <1>1, <1>3, <1>5, <1>14 DEF UpToDate
<1> QED
  BY <1>9, <1>11, <1>12, <1>13, <1>15, CachedFacts DEF EventInv

LEMMA DetailAnsweredStep ==
  ASSUME EventInv, NEW k \in DOMAIN FramesOf, DetailAnswered(k), UNCHANGED <<collector, quiet>>
  PROVE  EventInv' /\ asked' = asked
<1>0. PageTypes /\ Requested /\ Fetched /\ UpToDate
  BY DEF EventInv
<1>1. /\ k \in fetching
      /\ fetching' = fetching \ {k} /\ errors' \subseteq errors \cup {k} /\ errors \ {k} \subseteq errors'
      /\ detail' \in {detail, [detail EXCEPT ![k] = k]}
      /\ UNCHANGED <<event, occ, frame, known, snaps, listed, overtaken, states, arrived, gone, quiet, requests>>
  BY DEF DetailAnswered, collector
<1>2. detail' \in [DOMAIN FramesOf -> Nat] /\ \A l \in DOMAIN FramesOf : detail'[l] \in {0, l}
  BY <1>0, <1>1, KeysFacts DEF PageTypes
<1>3. PageTypes'
  BY <1>0, <1>1, <1>2 DEF PageTypes, Keys
<1>4. Requested' /\ asked' = asked
  BY <1>0, <1>1, SameRequests
<1>5. Fetched'
  BY <1>0, <1>1, <1>4, KeysFacts DEF Fetched
<1>6. Unfolded'
  BY RemountedFacts DEF DetailAnswered
<1>7. UpToDate'
  BY <1>0, <1>1, KeysFacts DEF UpToDate, rows
<1> QED
  BY <1>3, <1>4, <1>5, <1>6, <1>7 DEF EventInv

\* The reader steps, selects and unfolds.
LEMMA StepStep ==
  ASSUME EventInv, StepNewer \/ StepOlder, UNCHANGED <<collector, quiet>>
  PROVE  EventInv' /\ asked' = asked
<1>0. PageTypes /\ Requested /\ Fetched /\ UpToDate
  BY DEF EventInv
<1>1. Screen = "panes" /\ event # "" /\ snaps # <<>>
  BY DEF StepNewer, StepOlder, CanStepNewer, CanStepOlder, Screen
<1>2. OccIndex \in 1..Len(snaps)
  BY <1>0, <1>1, CurrentFacts
<1>3. PICK to \in Int : to >= None /\ Step(to)
  <2>1. CASE StepNewer
    <3>1. OccIndex - 2 \in Int /\ OccIndex - 2 >= None
      BY <1>2, <2>1 DEF StepNewer, CanStepNewer, None
    <3> QED
      BY <2>1, <3>1 DEF StepNewer
  <2>2. CASE StepOlder
    <3>1. OccIndex \in Int /\ OccIndex >= None
      BY <1>2 DEF None
    <3> QED
      BY <2>2, <3>1 DEF StepOlder
  <2> QED
    BY <2>1, <2>2
<1>4. /\ occ' = to /\ frame' = None
      /\ UNCHANGED <<event, known, snaps, listed, overtaken, detail, states, arrived, gone, quiet, requests>>
      /\ fetching' = fetching \cup Follow /\ errors' = Restarted(errors, Follow)
  BY <1>3 DEF Step, collector
<1>5. Follow \subseteq DOMAIN FramesOf
  BY <1>0, <1>3, <1>4, FollowFacts DEF PageTypes
<1>6. SnapshotsKey \in errors => SnapshotsKey \in errors'
  BY <1>4, <1>5, KeysFacts DEF Restarted
<1>7. None \in Int /\ None >= None /\ errors' \subseteq errors
  BY <1>4, RestartedFacts DEF None
<1>8. PageTypes'
  BY <1>0, <1>1, <1>3, <1>4, <1>5, <1>7 DEF PageTypes, Keys
<1>9. Requested' /\ asked' = asked
  BY <1>0, <1>4, SameRequests
<1>10. Fetched'
  BY <1>0, <1>4, <1>5, <1>9, KeysFacts DEF Fetched
<1>11. Unfolded'
  BY <1>3, RemountedFacts DEF Step
<1>12. UpToDate'
  BY <1>0, <1>4, <1>6 DEF UpToDate, rows
<1> QED
  BY <1>8, <1>9, <1>10, <1>11, <1>12 DEF EventInv

LEMMA FrameStep ==
  ASSUME EventInv, SelectFrame \/ ResetFrame, UNCHANGED <<collector, quiet>>
  PROVE  EventInv' /\ asked' = asked
<1>0. PageTypes /\ Requested /\ Fetched /\ UpToDate
  BY DEF EventInv
<1>1. None \in Int /\ None >= None /\ \A n \in Nat : n \in Int /\ n >= None
  BY DEF None
<1>2. PICK f \in Int : f >= None /\ ShowFrame(f)
  BY <1>0, <1>1, FramesFacts DEF SelectFrame, ResetFrame
<1>3. /\ frame' = f
      /\ UNCHANGED <<event, occ, known, snaps, listed, overtaken, detail, fetching, errors, states, arrived, gone,
                     quiet, requests>>
  BY <1>2 DEF ShowFrame, collector
<1>4. PageTypes'
  BY <1>0, <1>2, <1>3 DEF PageTypes, Keys
<1>5. Requested' /\ asked' = asked
  BY <1>0, <1>3, SameRequests
<1>6. Fetched'
  BY <1>0, <1>3, <1>5 DEF Fetched
<1>7. Unfolded'
  BY <1>2, RemountedFacts DEF ShowFrame
<1>8. UpToDate'
  BY <1>0, <1>3 DEF UpToDate, rows
<1> QED
  BY <1>4, <1>5, <1>6, <1>7, <1>8 DEF EventInv

LEMMA ToggleStep ==
  ASSUME EventInv, ToggleGroup \/ ToggleVariable, UNCHANGED <<collector, quiet>>
  PROVE  EventInv' /\ asked' = asked
<1>0. PageTypes /\ Requested /\ Fetched /\ UpToDate
  BY DEF EventInv
<1>1. UNCHANGED <<event, occ, frame, known, snaps, listed, overtaken, detail, fetching, errors, states, arrived, gone,
                  quiet, requests>>
  BY DEF ToggleGroup, ToggleVariable, collector
<1>2. PICK groups, unfolded : Remounted(groups, unfolded)
  BY DEF ToggleGroup, ToggleVariable
<1>3. PageTypes'
  BY <1>0, <1>1 DEF PageTypes, Keys
<1>4. Requested' /\ asked' = asked
  BY <1>0, <1>1, SameRequests
<1>5. Fetched'
  BY <1>0, <1>1, <1>4 DEF Fetched
<1>6. Unfolded'
  BY <1>2, RemountedFacts
<1>7. UpToDate'
  BY <1>0, <1>1 DEF UpToDate, rows
<1> QED
  BY <1>3, <1>4, <1>5, <1>6, <1>7 DEF EventInv

LEMMA OpenStep ==
  ASSUME EventInv, NEW id, Named(id), NEW o \in Int, o >= None, NEW f \in Int, f >= None,
         OpenEvent(id, o, f), UNCHANGED <<collector, quiet>>
  PROVE  EventInv' /\ asked'[DataKey] = Nothing
<1>0. PageTypes /\ Requested /\ Unfolded
  BY DEF EventInv
<1>1. /\ event = "" /\ event' = id /\ occ' = o /\ frame' = f
      /\ fetching' = {EventKey, SnapshotsKey}
      /\ UNCHANGED <<known, snaps, listed, overtaken, detail, errors, expanded, opened, states, arrived, gone, quiet>>
  BY DEF OpenEvent, collector
<1>2. event' # ""
  BY <1>1 DEF Named
<1>3. PageTypes'
  BY <1>0, <1>1, <1>2 DEF PageTypes, Keys
<1> DEFINE keys == {EventKey, SnapshotsKey}
<1>4. keys \in SUBSET Cached /\ Asks(keys)
  BY CachedFacts DEF OpenEvent
<1>5. Requested' /\ \A k \in Cached : k \in keys <=> asked'[k] # Nothing
  <2> HIDE DEF keys
  <2> QED
    BY <1>0, <1>1, <1>4, AsksStep
<1>6. Fetched' /\ asked'[DataKey] = Nothing
  BY <1>1, <1>5, CachedFacts DEF Fetched
<1>7. snaps = <<>> /\ Screen = "elsewhere"
  BY <1>0, <1>1 DEF PageTypes, Screen
<1>8. expanded = {} /\ opened = {}
  BY <1>0, <1>7 DEF Unfolded, VariablesShown
<1>9. Unfolded'
  BY <1>1, <1>8 DEF Unfolded
<1>10. UpToDate'
  BY <1>1 DEF UpToDate
<1> QED
  BY <1>3, <1>5, <1>6, <1>9, <1>10 DEF EventInv

LEMMA LeaveStep ==
  ASSUME EventInv, LeaveEvent, Asks({DataKey}), UNCHANGED <<collector, quiet>>
  PROVE  EventInv' /\ ~Named(event') /\ asked'[DataKey] # Nothing
<1>0. PageTypes /\ Requested
  BY DEF EventInv
<1>1. /\ event' = "" /\ occ' = None /\ frame' = None /\ listed' = FALSE /\ snaps' = <<>>
      /\ detail' = [k \in DOMAIN detail |-> 0]
      /\ fetching' = {} /\ errors' = {} /\ expanded' = {} /\ opened' = {}
      /\ UNCHANGED <<states, arrived, gone, quiet>>
  BY DEF LeaveEvent, collector
<1>2. detail' \in [DOMAIN FramesOf -> Nat] /\ \A k \in DOMAIN FramesOf : detail'[k] = 0
  BY <1>0, <1>1 DEF PageTypes
<1>3. None \in Int /\ None >= None /\ <<>> \in Seq(Rows)
  BY DEF None
<1>4. PageTypes'
  BY <1>0, <1>1, <1>2, <1>3 DEF PageTypes
<1> DEFINE keys == {DataKey}
<1>5. keys \in SUBSET Cached
  BY CachedFacts
<1>6. Requested' /\ \A k \in Cached : k \in keys <=> asked'[k] # Nothing
  <2>1. Asks(keys)
    OBVIOUS
  <2> HIDE DEF keys
  <2> QED
    BY <1>0, <1>1, <1>5, <2>1, AsksStep
<1>7. Fetched' /\ asked'[DataKey] # Nothing
  BY <1>1, <1>6, CachedFacts DEF Fetched
<1>8. ~Named(event')
  BY <1>1 DEF Named
<1>9. Unfolded' /\ UpToDate'
  BY <1>1, <1>8 DEF Unfolded, UpToDate
<1> QED
  BY <1>4, <1>6, <1>7, <1>8, <1>9 DEF EventInv

\* What is on view depends on the page's own state, the list that is fetched again stays.
LEMMA ViewFacts ==
  ASSUME UNCHANGED <<event, occ, frame, known, snaps, listed, detail>>
  PROVE  /\ UNCHANGED <<OccIndex, DetailKey, Shown, Frames, SelectedFrame>>
         /\ Screen' = Screen => VariablesShown' = VariablesShown
<1>1. UNCHANGED OccIndex
  BY DEF OccIndex
<1>2. UNCHANGED DetailKey
  BY <1>1 DEF DetailKey, Current
<1>3. UNCHANGED Shown
  BY <1>2 DEF Shown
<1>4. UNCHANGED Frames
  BY <1>3 DEF Frames
<1>5. UNCHANGED SelectedFrame
  BY <1>3, <1>4 DEF SelectedFrame
<1> QED
  BY <1>1, <1>2, <1>3, <1>4, <1>5 DEF VariablesShown

LEMMA RefetchStep ==
  ASSUME EventInv, RefetchEvent, event # "",
         UNCHANGED <<event, occ, frame, known, snaps, listed, detail, expanded, opened, collector>>
  PROVE  EventInv' /\ asked'[DataKey] = Nothing
<1>0. PageTypes /\ Requested /\ Unfolded
  BY DEF EventInv
<1> DEFINE more == {EventKey, SnapshotsKey} \cup IF DetailKey = None THEN {} ELSE {DetailKey}
<1>1. fetching' = fetching \cup more /\ errors' = Restarted(errors, more) /\ UNCHANGED <<states, arrived, gone>>
  BY DEF RefetchEvent, Start, collector
<1>2. more \subseteq Keys
  BY <1>0, CurrentFacts DEF Keys
<1>3. errors' \subseteq errors
  BY <1>1, RestartedFacts
<1>4. EventKey \in fetching' /\ SnapshotsKey \in fetching' /\ fetching' \subseteq Keys
  BY <1>0, <1>1, <1>2 DEF PageTypes
<1> HIDE DEF more
<1>5. PageTypes'
  BY <1>0, <1>1, <1>3, <1>4 DEF PageTypes
<1>6. Screen = "panes" => Screen' = "panes"
  <2> SUFFICES ASSUME Screen = "panes" PROVE Screen' = "panes"
    OBVIOUS
  <2>1. known /\ EventKey \notin errors /\ snaps # <<>>
    BY DEF Screen
  <2>2. known' /\ EventKey \notin errors' /\ snaps' # <<>> /\ listed' /\ event' # ""
    BY <1>0, <1>3, <2>1 DEF PageTypes
  <2>3. HasData(EventKey)' /\ HasData(SnapshotsKey)'
    BY <2>2, KeysFacts DEF HasData
  <2>4. ~IsLoading(EventKey)' /\ ~IsLoading(SnapshotsKey)'
    BY <2>3 DEF IsLoading
  <2> QED
    BY <2>2, <2>4 DEF Screen
<1>7. Unfolded'
  <2>1. CASE Screen = "panes"
    <3>1. Screen' = "panes" /\ VariablesShown' = VariablesShown
      BY <1>6, <2>1, ViewFacts
    <3> QED
      BY <1>0, <3>1 DEF Unfolded
  <2>2. CASE Screen # "panes"
    <3>1. expanded = {} /\ opened = {}
      BY <1>0, <2>2 DEF Unfolded, VariablesShown
    <3> QED
      BY <3>1 DEF Unfolded
  <2> QED
    BY <2>1, <2>2
<1>8. UpToDate'
  BY <1>4 DEF UpToDate
<1> DEFINE keys == {EventKey, SnapshotsKey}
           with == {k \in {EventKey, SnapshotsKey} : HasData(k)}
<1>9. keys \in SUBSET Cached /\ with \in SUBSET Cached /\ Refreshed(keys, with)
  BY CachedFacts DEF RefetchEvent
<1>10. Requested' /\ \A k \in Cached : k \in keys <=> asked'[k] # Nothing
  <2> HIDE DEF keys, with
  <2> QED
    BY <1>0, <1>1, <1>9, RefreshedStep
<1>11. Fetched' /\ asked'[DataKey] = Nothing
  BY <1>4, <1>10, CachedFacts DEF Fetched
<1> QED
  BY <1>5, <1>7, <1>8, <1>10, <1>11 DEF EventInv

LEMMA ElsewhereStep ==
  ASSUME PageTypes, Unfolded, UNCHANGED eventPage,
         states' \in Seq(Seq(Rows)), states' # <<>>, arrived' \in Nat, gone' \in Nat
  PROVE  PageTypes' /\ Unfolded'
<1>1. UNCHANGED <<event, occ, frame, known, snaps, listed, detail, fetching, errors, expanded, opened>>
  BY DEF eventPage
<1>2. PageTypes'
  BY <1>1 DEF PageTypes
<1>3. Screen' = Screen
  BY <1>1 DEF Screen, IsLoading, HasData
<1>4. VariablesShown' = VariablesShown
  BY <1>1, <1>3, ViewFacts
<1>5. Unfolded'
  BY <1>1, <1>3, <1>4 DEF Unfolded
<1> QED
  BY <1>2, <1>5

\* A row comes, or rows go.
LEMMA CollectorStep ==
  ASSUME PageTypes, Requested, Arrive \/ Expire, UNCHANGED requests
  PROVE  /\ states' \in Seq(Seq(Rows)) /\ states' # <<>> /\ arrived' \in Nat /\ gone' \in Nat /\ quiet' = FALSE
         /\ Requested' /\ asked' = asked
<1>1. rows \in Seq(Rows) /\ arrived \in Nat /\ gone \in Nat /\ states \in Seq(Seq(Rows))
  <2>1. arrived \in Nat /\ gone \in Nat /\ states \in Seq(Seq(Rows))
    BY DEF PageTypes
  <2> QED
    BY <2>1, RowsFacts
<1>2. PICK next \in Seq(Rows) : states' = Append(states, next)
  <2>1. CASE Arrive
    <3>1. arrived < Len(Arrivals) /\ states' = Append(states, <<Arrivals[arrived + 1]>> \o rows)
      BY <2>1 DEF Arrive
    <3>2. Arrivals \in Seq(Rows)
      BY RowsAssumption, Zenon
    <3>3. Arrivals[arrived + 1] \in Rows
      <4>1. arrived + 1 \in 1..Len(Arrivals)
        BY <1>1, <3>1, <3>2
      <4> QED
        BY <3>2, <4>1
    <3>4. <<Arrivals[arrived + 1]>> \o rows \in Seq(Rows)
      BY <1>1, <3>3
    <3> QED
      BY <3>1, <3>4
  <2>2. CASE Expire
    <3>1. rows # <<>>
      BY <2>2 DEF Expire
    <3>2. PICK left \in {<<>>, SubSeq(rows, 1, Len(rows) - 1)} : states' = Append(states, left)
      BY <2>2 DEF Expire
    <3>3. SubSeq(rows, 1, Len(rows) - 1) \in Seq(Rows) /\ <<>> \in Seq(Rows)
      BY <1>1, <3>1
    <3>4. left \in Seq(Rows)
      BY <3>3
    <3> QED
      BY <3>2, <3>4
  <2> QED
    BY <2>1, <2>2
<1>3. arrived' \in Nat /\ gone' \in Nat /\ quiet' = FALSE
  BY <1>1 DEF Arrive, Expire
<1> DEFINE S == Seq(Rows)
<1>4. states \in Seq(S) /\ next \in S
  BY <1>1
<1> HIDE DEF S
<1>5. states' \in Seq(S) /\ states' # <<>> /\ DOMAIN states \subseteq DOMAIN states'
  <2>1. /\ states' \in Seq(S) /\ Len(states') = Len(states) + 1
        /\ DOMAIN states = 1..Len(states) /\ DOMAIN states' = 1..Len(states') /\ Len(states) \in Nat
    BY <1>2, <1>4
  <2> QED
    BY <2>1
<1>6. \A q : Kept(q) => Kept(q)'
  BY <1>3, <1>5 DEF Kept
<1>7. UNCHANGED <<cache, asked, strays>>
  BY DEF requests
<1>8. Requested'
  <2>1. cache' # Nothing => Kept(cache)'
    BY <1>6, <1>7 DEF Requested, Kept
  <2>2. \A k \in Cached : asked'[k] # Nothing => Kept(asked[k])'
    BY <1>3, <1>5, <1>7 DEF Requested, Kept
  <2>3. \A late \in BOOLEAN : strays'[late] # 0 => Kept(Stray(late))'
    BY <1>3, <1>5, <1>7 DEF Requested, Kept, Stray
  <2> QED
    BY <1>7, <2>1, <2>2, <2>3 DEF Requested
<1> QED
  BY <1>3, <1>5, <1>7, <1>8 DEF S
-----------------------------------------------------------------------------
(* The pages that read.                                                    *)

\* One field of the filters changes.
LEMMA FilterStep ==
  ASSUME NEW f, Filters(f), NEW field \in DOMAIN Unfiltered, NEW v, field \in Fields => IsFiniteSet(v)
  PROVE  Filters([f EXCEPT ![field] = v])
<1> DEFINE g == [f EXCEPT ![field] = v]
<1>1. DOMAIN f = DOMAIN Unfiltered /\ \A x \in Fields : IsFiniteSet(f[x])
  BY DEF Filters
<1>2. g = [x \in DOMAIN f |-> IF x = field THEN v ELSE f[x]]
  OBVIOUS
<1> HIDE DEF g
<1>3. g = [x \in DOMAIN Unfiltered |-> g[x]]
  BY <1>1, <1>2
<1>4. \A x \in Fields : IsFiniteSet(g[x])
  BY <1>1, <1>2, UnfilteredFacts
<1> QED
  BY <1>3, <1>4 DEF Filters, g

\* The filters that links set.
LEMMA LinkFilters ==
  /\ Filters([Unfiltered EXCEPT !.chip = "new"])
  /\ Filters([Unfiltered EXCEPT !.sort = "hit_count"])
  /\ \A id : Filters([Unfiltered EXCEPT !.app = {id}])
<1>1. "chip" \in DOMAIN Unfiltered \ Fields /\ "sort" \in DOMAIN Unfiltered \ Fields /\ "app" \in DOMAIN Unfiltered
  BY UnfilteredFacts DEF Fields
<1>2. \A id : IsFiniteSet({id})
  BY FS_Singleton
<1>3. Filters([Unfiltered EXCEPT !["chip"] = "new"])
  BY <1>1, UnfilteredFacts, FilterStep
<1>4. Filters([Unfiltered EXCEPT !["sort"] = "hit_count"])
  BY <1>1, UnfilteredFacts, FilterStep
<1>5. ASSUME NEW id PROVE Filters([Unfiltered EXCEPT !["app"] = {id}])
  BY <1>1, <1>2, UnfilteredFacts, FilterStep
<1> QED
  BY <1>3, <1>4, <1>5

\* A page that mounts starts afresh.
LEMMA MountedStep ==
  ASSUME NEW p \in Pages \cup {"event"}, NEW id, NEW filters, Mounted(p, id, filters), Filters(filters),
         p # "events" => filters = Unfiltered, p = "event" <=> Named(event'),
         env' \in Environments, range' \in Ranges, p # "event" <=> asked'[DataKey] # Nothing
  PROVE  Reading'
<1>0. p # "event" <=> "data" \in Queries(p)
  BY DEF Queries, WithSeries
<1>1. /\ page' = p /\ data' = NoData /\ series' = <<>> /\ pending' = Queries(p)
      /\ search' = filters /\ selected' = {}
  BY DEF Mounted
<1>2. Sound(data')
  BY <1>1, NoDataFacts
<1>3. Counted(series')
  BY <1>1 DEF Counted
<1> QED
  BY <1>0, <1>1, <1>2, <1>3 DEF Reading

\* One of the pages that read comes on view after another.
LEMMA VisitsStep ==
  ASSUME IInv, NEW p \in Pages, NEW id, NEW filters, Visits(p, id, filters), Filters(filters),
         p # "events" => filters = Unfiltered, page # "event", UNCHANGED <<collector, quiet, env, range, eventPage>>
  PROVE  IInv'
<1>0. EventInv /\ Reading
  BY DEF IInv
<1>1. Mounted(p, id, filters) /\ Asks({DataKey}) /\ UNCHANGED <<states, arrived, gone, quiet>>
  BY DEF Visits, collector
<1>2. p # "event"
  BY DEF Pages
<1>3. event = "" /\ event' = "" /\ fetching' = {}
  BY <1>0 DEF Reading, Named, EventInv, PageTypes, eventPage
<1> DEFINE keys == {DataKey}
<1>4. keys \in SUBSET Cached /\ Asks(keys)
  BY <1>1, CachedFacts
<1>5. Requested' /\ \A k \in Cached : k \in keys <=> asked'[k] # Nothing
  <2> HIDE DEF keys
  <2> QED
    BY <1>0, <1>1, <1>4, AsksStep DEF EventInv
<1>6. Fetched' /\ asked'[DataKey] # Nothing
  BY <1>3, <1>5, CachedFacts DEF Fetched
<1>7. PageTypes' /\ Unfolded'
  BY <1>0, <1>1, ElsewhereStep DEF EventInv, PageTypes
<1>8. ~Named(event')
  BY <1>3 DEF Named
<1>9. UpToDate'
  BY <1>8 DEF UpToDate
<1>10. env' \in Environments /\ range' \in Ranges
  BY <1>0 DEF Reading
<1>11. Reading'
  BY <1>1, <1>2, <1>6, <1>8, <1>10, MountedStep
<1> QED
  BY <1>5, <1>6, <1>7, <1>9, <1>11 DEF IInv, EventInv

\* On the page of events the filters and the selection may change.
LEMMA OnListStep ==
  ASSUME Reading, page = "events", Filters(search'),
         UNCHANGED <<page, event, env, range, data, series, pending, asked>>
  PROVE  Reading'
BY DEF Reading

LEMMA SameStep ==
  ASSUME Reading, UNCHANGED <<page, event, env, range, search, selected, data, series, pending>>,
         asked[DataKey] # Nothing <=> asked'[DataKey] # Nothing
  PROVE  Reading'
BY DEF Reading

LEMMA GoStep ==
  ASSUME IInv, NEW p \in {"dashboard", "events", "applications", "deployments"}, Go(p)
  PROVE  IInv'
<1>1. /\ Visits(p, "", Unfiltered) /\ page # "event"
      /\ UNCHANGED <<collector, quiet, env, range, eventPage>>
  BY DEF Go, Does
<1>2. p \in Pages
  BY DEF Pages
<1> QED
  BY <1>1, <1>2, UnfilteredFacts, VisitsStep

LEMMA FollowsStep == ASSUME IInv, Follows PROVE IInv'
<1>1. page # "event"
  BY DEF Follows
<1>2. UNCHANGED <<collector, quiet, env, range, eventPage>>
  BY DEF Follows, ViewEvents, OpenTarget, Does
<1>3. ASSUME NEW filters, Filters(filters), ViewEvents(filters) PROVE IInv'
  <2>1. Visits("events", "", filters) /\ "events" \in Pages
    BY <1>3 DEF ViewEvents, Pages
  <2> QED
    BY <1>1, <1>2, <1>3, <2>1, VisitsStep
<1>4. ASSUME NEW p \in {"application", "deployment"}, NEW id, OpenTarget(p, id) PROVE IInv'
  <2>1. Visits(p, id, Unfiltered) /\ p \in Pages
    BY <1>4 DEF OpenTarget, Pages
  <2> QED
    BY <1>1, <1>2, <2>1, UnfilteredFacts, VisitsStep
<1>5. \/ \E filters : Filters(filters) /\ ViewEvents(filters)
      \/ \E p \in {"application", "deployment"} : \E id : OpenTarget(p, id)
  BY LinkFilters DEF Follows
<1> QED
  BY <1>3, <1>4, <1>5

LEMMA NarrowStep ==
  ASSUME Reading, ToggleFilter \/ SetChip \/ SortBy \/ ResetFilters PROVE Reading'
<1>1. PICK filters : Narrow(filters) /\ Filters(filters)
  <2>0. Filters(search)
    BY DEF Reading
  <2>1. CASE ToggleFilter
    <3>1. PICK field \in Fields : \E v :
             Narrow([search EXCEPT ![field] = IF v \in search[field] THEN search[field] \ {v}
                                              ELSE search[field] \cup {v}])
      BY <2>1 DEF ToggleFilter
    <3>0. PICK v :
             Narrow([search EXCEPT ![field] = IF v \in search[field] THEN search[field] \ {v}
                                              ELSE search[field] \cup {v}])
      BY <3>1
    <3> DEFINE w == IF v \in search[field] THEN search[field] \ {v} ELSE search[field] \cup {v}
    <3>2. IsFiniteSet(search[field])
      BY <2>0 DEF Filters
    <3>3. IsFiniteSet(w)
      BY <3>2, FS_AddElement, FS_RemoveElement
    <3>4. Narrow([search EXCEPT ![field] = w])
      BY <3>0
    <3> HIDE DEF w
    <3>5. Filters([search EXCEPT ![field] = w])
      BY <2>0, <3>3, UnfilteredFacts, FilterStep
    <3> QED
      BY <3>4, <3>5
  <2>2. CASE SetChip
    <3>1. PICK c : Narrow([search EXCEPT !.chip = IF search.chip = c THEN "" ELSE c])
      BY <2>2 DEF SetChip
    <3> DEFINE w == IF search.chip = c THEN "" ELSE c
    <3>2. Narrow([search EXCEPT !["chip"] = w])
      BY <3>1
    <3> HIDE DEF w
    <3>3. "chip" \in DOMAIN Unfiltered /\ "chip" \notin Fields
      BY UnfilteredFacts
    <3>4. Filters([search EXCEPT !["chip"] = w])
      BY <2>0, <3>3, FilterStep
    <3> QED
      BY <3>2, <3>4
  <2>3. CASE SortBy
    <3>1. PICK f : Narrow([search EXCEPT !.sort = f,
                                         !.dir = IF search.sort = f /\ search.dir = "desc" THEN "asc" ELSE "desc"])
      BY <2>3 DEF SortBy
    <3> DEFINE w == IF search.sort = f /\ search.dir = "desc" THEN "asc" ELSE "desc"
               g == [search EXCEPT !["sort"] = f]
               h == [g EXCEPT !["dir"] = w]
    <3>2. /\ "sort" \in DOMAIN Unfiltered /\ "sort" \notin Fields
          /\ "dir" \in DOMAIN Unfiltered /\ "dir" \notin Fields
      BY UnfilteredFacts
    <3>3. Narrow(h)
      <4>1. h = [search EXCEPT !.sort = f, !.dir = w]
        OBVIOUS
      <4>2. Narrow([search EXCEPT !.sort = f, !.dir = w])
        BY <3>1
      <4> QED
        BY <4>1, <4>2
    <3> HIDE DEF w
    <3>4. Filters(g)
      BY <2>0, <3>2, FilterStep
    <3> HIDE DEF g
    <3>5. Filters(h)
      BY <3>2, <3>4, FilterStep
    <3> QED
      BY <3>3, <3>5
  <2>4. CASE ResetFilters
    BY <2>4, UnfilteredFacts DEF ResetFilters
  <2> QED
    BY <2>1, <2>2, <2>3, <2>4
<1>2. /\ page = "events" /\ search' = filters
      /\ UNCHANGED <<page, event, env, range, data, series, pending, asked>>
  BY <1>1 DEF Narrow, eventPage, requests
<1> QED
  BY <1>1, <1>2, OnListStep

LEMMA SelectStep == ASSUME Reading, ToggleAll \/ ToggleOne \/ BulkAction PROVE Reading'
<1>1. PICK ids : Select(ids)
  BY DEF ToggleAll, ToggleOne, BulkAction
<1>2. page = "events" /\ UNCHANGED <<page, event, env, range, search, data, series, pending, asked>>
  BY <1>1 DEF Select, eventPage, requests
<1>3. Filters(search')
  BY <1>2 DEF Reading
<1> QED
  BY <1>2, <1>3, OnListStep

LEMMA ContextStep ==
  ASSUME Reading, NEW e \in Environments, NEW r \in Ranges, SetContext(e, r) PROVE Reading'
<1>1. /\ env' = e /\ range' = r /\ series' = <<>>
      /\ pending' = pending \cup (Queries(page) \cap {"series"})
      /\ UNCHANGED <<page, search, selected, data, event, asked>>
  BY DEF SetContext, eventPage, requests
<1>2. Counted(series')
  BY <1>1 DEF Counted
<1>3. pending' \subseteq Queries(page) /\ ("data" \in pending' <=> "data" \in pending)
  BY <1>1 DEF Reading
<1> QED
  BY <1>1, <1>2, <1>3 DEF Reading

\* The tables of a page are read, together or not, or cannot be.
LEMMA DataAnsweredStep == ASSUME IInv, DataAnswered PROVE IInv'
<1>0. EventInv /\ Reading /\ PageTypes /\ Requested
  BY DEF IInv, EventInv
<1>1. /\ UNCHANGED <<page, event, env, range, search, selected, series, fetching, states, arrived, gone, quiet>>
      /\ UNCHANGED <<eventPage, collector>>
      /\ "data" \in pending /\ pending' = pending \ {"data"} /\ Settles(DataKey)
  BY DEF DataAnswered, eventPage, collector
<1>2. Kept(asked[DataKey])
  BY <1>0, <1>1, CachedFacts DEF Reading, Requested
<1>3. Sound(data')
  <2>1. data' = data \/ \E read : \E of \in [read -> Readable(asked[DataKey])] : data' = Answer(read, of)
    BY DEF DataAnswered
  <2>2. CASE data' = data
    BY <1>0, <2>2 DEF Reading
  <2>3. CASE \E read : \E of \in [read -> Readable(asked[DataKey])] : data' = Answer(read, of)
    <3>1. PICK read : \E of \in [read -> Readable(asked[DataKey])] : data' = Answer(read, of)
      BY <2>3
    <3>2. PICK of \in [read -> Readable(asked[DataKey])] : data' = Answer(read, of)
      BY <3>1
    <3>3. \A t \in read : of[t] \in Readable(asked[DataKey])
      OBVIOUS
    <3>4. \A t \in read : of[t] \in DOMAIN states
      BY <1>0, <1>2, <3>3, ReadableFacts
    <3>5. states \in Seq(Seq(Rows))
      BY <1>0, Zenon DEF PageTypes
    <3> QED
      BY <3>2, <3>4, <3>5, AnswerFacts
  <2> QED
    BY <2>1, <2>2, <2>3
<1>4. Requested' /\ asked'[DataKey] = Nothing /\ \A l \in Cached \ {DataKey} : asked'[l] = asked[l]
  BY <1>0, <1>1, CachedFacts, SettlesStep
<1>5. Fetched'
  BY <1>0, <1>1, <1>4, CachedFacts DEF EventInv, Fetched
<1>6. PageTypes' /\ Unfolded'
  BY <1>0, <1>1, ElsewhereStep DEF EventInv, PageTypes
<1>7. UpToDate'
  BY <1>0, <1>1 DEF EventInv, UpToDate, eventPage, rows
<1>8. Reading'
  BY <1>0, <1>1, <1>3, <1>4 DEF Reading
<1> QED
  BY <1>4, <1>5, <1>6, <1>7, <1>8 DEF IInv, EventInv

LEMMA SeriesAnsweredStep == ASSUME PageTypes, Reading, SeriesAnswered PROVE Reading'
<1>1. /\ UNCHANGED <<page, event, env, range, search, selected, data, asked>>
      /\ "series" \in pending /\ pending' = pending \ {"series"}
  BY DEF SeriesAnswered, eventPage, requests
<1>2. CASE UNCHANGED series
  BY <1>1, <1>2 DEF Reading
<1>3. CASE ~UNCHANGED series
  <2>1. PICK n \in DOMAIN states :
           series' = EventSeries(states[n], env, IF page = "applications" THEN 24 ELSE Hours[range], now)
    BY <1>3 DEF SeriesAnswered
  <2>2. states[n] \in Seq(Rows)
    BY RowsFacts
  <2>3. Counted(series')
    BY <2>1, <2>2, SeriesFacts
  <2> QED
    BY <1>1, <2>3 DEF Reading
<1> QED
  BY <1>2, <1>3

LEMMA ReadEventStep == ASSUME IInv, ReadEvent PROVE IInv'
<1>0. EventInv /\ Reading
  BY DEF IInv
<1>1. UNCHANGED <<collector, quiet, env, range>> /\ Mounted("event", "", Unfiltered)
  BY DEF ReadEvent, DoesLast
<1>2. PICK x \in Linked : OpenEvent(x.id, None, None) \/ OpenEvent(x.id, 1, 3)
  BY DEF ReadEvent
<1>3. Named(x.id)
  BY <1>0, LinkedFacts DEF Reading
<1>4. None \in Int /\ None >= None /\ 1 \in Int /\ 1 >= None /\ 3 \in Int /\ 3 >= None
  BY DEF None
<1>5. EventInv' /\ asked'[DataKey] = Nothing
  <2>1. CASE OpenEvent(x.id, None, None)
    BY <1>0, <1>1, <1>3, <1>4, <2>1, OpenStep
  <2>2. CASE OpenEvent(x.id, 1, 3)
    BY <1>0, <1>1, <1>3, <1>4, <2>2, OpenStep
  <2> QED
    BY <1>2, <2>1, <2>2
<1>6. event' = x.id
  BY <1>2 DEF OpenEvent
<1>7. Reading'
  <2>1. "event" \in Pages \cup {"event"} /\ Named(event') /\ env' \in Environments /\ range' \in Ranges
    BY <1>0, <1>1, <1>3, <1>6 DEF Reading
  <2> QED
    BY <1>1, <1>5, <2>1, UnfilteredFacts, MountedStep
<1> QED
  BY <1>5, <1>7 DEF IInv

LEMMA BackStep == ASSUME IInv, BackToEvents PROVE IInv'
<1>0. EventInv /\ Reading
  BY DEF IInv
<1>1. /\ LeaveEvent /\ Mounted("events", "", Unfiltered) /\ Asks({DataKey})
      /\ UNCHANGED <<collector, quiet, env, range>>
  BY DEF BackToEvents, Visits
<1>2. EventInv' /\ ~Named(event') /\ asked'[DataKey] # Nothing
  BY <1>0, <1>1, LeaveStep
<1>3. "events" \in Pages \cup {"event"} /\ "events" # "event" /\ env' \in Environments /\ range' \in Ranges
  BY <1>0, <1>1 DEF Reading, Pages
<1>4. Reading'
  BY <1>1, <1>2, <1>3, UnfilteredFacts, MountedStep
<1> QED
  BY <1>2, <1>4 DEF IInv

LEMMA LiveStep == ASSUME IInv, LiveMessage PROVE IInv'
<1>0. EventInv /\ Reading /\ PageTypes /\ Requested
  BY DEF IInv, EventInv
<1>1. /\ UNCHANGED <<event, states, arrived, gone, page, env, range, search, selected, data, series>>
      /\ quiet' = TRUE /\ UNCHANGED collector
  BY DEF LiveMessage, collector, eventPage
<1>2. CASE page = "event"
  <2>1. /\ RefetchEvent
        /\ UNCHANGED <<event, occ, frame, known, snaps, listed, detail, expanded, opened, collector, pending>>
    BY <1>2 DEF LiveMessage
  <2>2. event # ""
    BY <1>0, <1>2 DEF Reading, Named
  <2>3. EventInv' /\ asked'[DataKey] = Nothing
    BY <1>0, <2>1, <2>2, RefetchStep
  <2>4. asked[DataKey] = Nothing
    <3>1. Queries(page) = {}
      BY <1>2 DEF Queries, WithSeries
    <3> QED
      BY <1>0, <3>1 DEF Reading
  <2>5. Reading'
    BY <1>0, <1>1, <2>1, <2>3, <2>4, SameStep
  <2> QED
    BY <2>3, <2>5 DEF IInv
<1>3. CASE page # "event"
  <2> DEFINE keys == {DataKey}
             with == IF data.ok THEN {DataKey} ELSE {}
  <2>1. pending' = Queries(page) /\ UNCHANGED eventPage /\ Refreshed(keys, with)
    BY <1>3 DEF LiveMessage
  <2>2. keys \in SUBSET Cached /\ with \in SUBSET Cached
    BY CachedFacts
  <2>3. Requested' /\ \A k \in Cached : k \in keys <=> asked'[k] # Nothing
    <3> HIDE DEF keys, with
    <3> QED
      BY <1>0, <1>1, <2>1, <2>2, RefreshedStep
  <2>4. PageTypes' /\ Unfolded'
    BY <1>0, <1>1, <2>1, ElsewhereStep DEF EventInv, PageTypes
  <2>5. ~Named(event') /\ event = ""
    BY <1>0, <1>1, <1>3 DEF Reading, Named
  <2>6. fetching' = {}
    BY <1>0, <2>1, <2>5 DEF PageTypes, eventPage
  <2>7. Fetched' /\ asked'[DataKey] # Nothing
    BY <2>3, <2>6, CachedFacts DEF Fetched
  <2>8. UpToDate'
    BY <2>5 DEF UpToDate
  <2>9. "data" \in Queries(page)
    BY <1>3 DEF Queries, WithSeries
  <2>10. Reading'
    BY <1>0, <1>1, <2>1, <2>7, <2>9 DEF Reading
  <2> QED
    BY <2>3, <2>4, <2>7, <2>8, <2>10 DEF IInv, EventInv
<1> QED
  BY <1>2, <1>3

LEMMA OutsideStep == ASSUME IInv, Outside PROVE IInv'
<1>0. EventInv /\ Reading /\ PageTypes /\ Requested /\ Fetched /\ Unfolded
  BY DEF IInv, EventInv
<1>1. UNCHANGED <<eventPage, requests, event, fetching, page, env, range, search, selected, data, series, pending>>
  BY DEF Outside, eventPage, pageState
<1>2. asked' = asked
  BY <1>1 DEF requests
<1>3. Reading'
  BY <1>0, <1>1, <1>2, SameStep
<1>4. Fetched'
  BY <1>0, <1>1, <1>2 DEF Fetched
<1>5. CASE Arrive \/ Expire
  <2>1. /\ states' \in Seq(Seq(Rows)) /\ states' # <<>> /\ arrived' \in Nat /\ gone' \in Nat /\ quiet' = FALSE
        /\ Requested'
    BY <1>0, <1>1, <1>5, CollectorStep
  <2>2. PageTypes' /\ Unfolded'
    BY <1>0, <1>1, <2>1, ElsewhereStep
  <2>3. UpToDate'
    BY <2>1 DEF UpToDate
  <2> QED
    BY <1>3, <1>4, <2>1, <2>2, <2>3 DEF IInv, EventInv
<1>6. CASE UNCHANGED <<collector, quiet>>
  <2>1. UNCHANGED <<states, arrived, gone, quiet, event, snaps, fetching, errors, overtaken>>
    BY <1>1, <1>6 DEF eventPage, collector
  <2>2. PageTypes' /\ Unfolded'
    BY <1>0, <1>1, <2>1, ElsewhereStep DEF PageTypes
  <2>3. Requested'
    BY <1>0, <1>1, <2>1, SameRequests
  <2>4. UpToDate'
    BY <1>0, <2>1 DEF EventInv, UpToDate, rows
  <2> QED
    BY <1>3, <1>4, <2>2, <2>3, <2>4 DEF IInv, EventInv
<1> QED
  BY <1>5, <1>6 DEF Outside

LEMMA OnEventStep == ASSUME IInv, OnEvent PROVE IInv'
<1>0. EventInv /\ Reading
  BY DEF IInv
<1>1. UNCHANGED <<collector, quiet, pageState>>
  BY DEF OnEvent
<1>2. EventInv' /\ event' = event /\ asked'[DataKey] = asked[DataKey]
  <2>1. CASE EventAnswered
    BY <1>0, <1>1, <2>1, EventAnsweredStep DEF EventAnswered
  <2>2. CASE SnapshotsAnswered
    BY <1>0, <1>1, <2>2, SnapshotsAnsweredStep DEF SnapshotsAnswered
  <2>3. CASE \E k \in DOMAIN FramesOf : DetailAnswered(k)
    BY <1>0, <1>1, <2>3, DetailAnsweredStep DEF DetailAnswered
  <2>4. CASE StepNewer \/ StepOlder
    BY <1>0, <1>1, <2>4, StepStep DEF StepNewer, StepOlder, Step
  <2>5. CASE SelectFrame \/ ResetFrame
    BY <1>0, <1>1, <2>5, FrameStep DEF SelectFrame, ResetFrame, ShowFrame
  <2>6. CASE ToggleGroup \/ ToggleVariable
    BY <1>0, <1>1, <2>6, ToggleStep DEF ToggleGroup, ToggleVariable
  <2> QED
    BY <2>1, <2>2, <2>3, <2>4, <2>5, <2>6 DEF OnEvent
<1>3. Reading'
  BY <1>0, <1>1, <1>2, SameStep DEF pageState
<1> QED
  BY <1>2, <1>3 DEF IInv

\* A page changes, or the cache, and what is on the page of an event does not.
LEMMA IdleStep ==
  ASSUME IInv, UNCHANGED <<collector, quiet, eventPage>>, Reading', Requested',
         \A k \in Cached : asked[k] # Nothing <=> asked'[k] # Nothing
  PROVE  IInv'
<1>0. PageTypes /\ Fetched /\ Unfolded /\ UpToDate
  BY DEF IInv, EventInv
<1>1. UNCHANGED <<event, snaps, fetching, errors, overtaken, states, arrived, gone, quiet>>
  BY DEF eventPage, collector
<1>2. PageTypes' /\ Unfolded'
  BY <1>0, <1>1, ElsewhereStep DEF PageTypes
<1>3. Fetched'
  BY <1>0, <1>1, CachedFacts DEF Fetched
<1>4. UpToDate'
  BY <1>0, <1>1 DEF UpToDate, rows
<1> QED
  BY <1>2, <1>3, <1>4 DEF IInv, EventInv

LEMMA StillStep ==
  ASSUME IInv, UNCHANGED <<collector, quiet, eventPage, requests>>, Reading' PROVE IInv'
<1>1. UNCHANGED states
  BY DEF collector
<1>2. Requested' /\ asked' = asked
  BY <1>1, SameRequests DEF IInv, EventInv
<1> QED
  BY <1>2, IdleStep
-----------------------------------------------------------------------------
(* The results.                                                            *)

LEMMA InitIInv == Init => IInv
<1> SUFFICES ASSUME Init PROVE IInv
  OBVIOUS
<1>1. /\ states = <<FirstRows>> /\ arrived = 0 /\ gone = 0 /\ event = "" /\ occ = None /\ frame = None
      /\ cache = Nothing /\ strays = [late \in BOOLEAN |-> 0]
      /\ asked = [k \in Cached |-> IF k = DataKey THEN Request(Nothing) ELSE Nothing]
      /\ snaps = <<>> /\ detail = [k \in DOMAIN FramesOf |-> 0]
      /\ fetching = {} /\ errors = {} /\ expanded = {} /\ opened = {}
  BY DEF Init, EventInit
<1>2. FirstRows \in Seq(Rows) /\ <<>> \in Seq(Rows) /\ None \in Int /\ None >= None
  <2>1. FirstRows \in Seq(Rows)
    BY RowsAssumption
  <2>2. <<>> \in Seq(Rows)
    OBVIOUS
  <2>3. None \in Int /\ None >= None
    BY DEF None
  <2> QED
    BY <2>1, <2>2, <2>3
<1>3. PageTypes
  <2>1. states \in Seq(Seq(Rows)) /\ states # <<>>
    <3> DEFINE S == Seq(Rows)
    <3>1. FirstRows \in S
      BY <1>2
    <3> HIDE DEF S
    <3>2. states = <<FirstRows>>
      BY <1>1
    <3>3. <<FirstRows>> \in Seq(S) /\ <<FirstRows>> # <<>>
      BY <3>1
    <3> QED
      BY <3>2, <3>3 DEF S
  <2> QED
    BY <1>1, <1>2, <2>1 DEF PageTypes
<1>4. Kept(Request(Nothing)) /\ Request(Nothing) # Nothing
  BY <1>3, RequestFacts
<1> DEFINE first == Request(Nothing)
<1>5. asked[DataKey] = first /\ \A k \in Cached : k # DataKey => asked[k] = Nothing
  BY <1>1, CachedFacts
<1> HIDE DEF first
<1>6. asked[DataKey] # Nothing /\ \A k \in Cached : asked[k] # Nothing => Kept(asked[k])
  BY <1>4, <1>5 DEF first
<1>7. Requested
  <2>1. asked = [k \in Cached |-> asked[k]]
    BY <1>1
  <2>2. strays = [late \in BOOLEAN |-> strays[late]] /\ \A late \in BOOLEAN : strays[late] = 0
    BY <1>1
  <2> QED
    BY <1>1, <1>6, <2>1, <2>2 DEF Requested
<1>8. Fetched
  BY <1>1, <1>5, CachedFacts DEF Fetched
<1>9. Unfolded
  BY <1>1 DEF Unfolded
<1>10. ~Named(event)
  BY <1>1 DEF Named
<1>11. UpToDate
  BY <1>10 DEF UpToDate
<1>12. page \in Pages /\ "event" \notin Pages
  BY BrowseAssumption DEF Init, Pages
<1>13. env \in Environments /\ range \in Ranges
  BY BrowseAssumption DEF Init, Environments
<1>14. /\ search = Unfiltered /\ selected = {} /\ data = NoData /\ series = <<>> /\ pending = Queries(page)
  BY DEF Init
<1>15. Counted(series)
  BY <1>14 DEF Counted
<1>16. "data" \in Queries(page)
  BY <1>12 DEF Queries
<1>17. Reading
  BY <1>10, <1>12, <1>13, <1>14, <1>15, <1>6, <1>16, UnfilteredFacts, NoDataFacts DEF Reading
<1> QED
  BY <1>3, <1>9, <1>11, <1>17, <1>7, <1>8 DEF IInv, EventInv

LEMMA NextIInv == IInv /\ [Next]_vars => IInv'
<1> SUFFICES ASSUME IInv, [Next]_vars PROVE IInv'
  OBVIOUS
<1>0. PageTypes /\ Reading /\ Requested
  BY DEF IInv, EventInv
<1>1. CASE \E e \in Environments, r \in Ranges : SetContext(e, r)
  <2>1. UNCHANGED <<collector, quiet, eventPage, requests>>
    BY <1>1 DEF SetContext, DoesLast
  <2> QED
    BY <1>0, <1>1, <2>1, ContextStep, StillStep
<1>2. CASE ToggleFilter \/ SetChip \/ SortBy \/ ResetFilters
  <2>1. UNCHANGED <<collector, quiet, eventPage, requests>>
    BY <1>2 DEF ToggleFilter, SetChip, SortBy, ResetFilters, Narrow, Does, DoesLast
  <2> QED
    BY <1>0, <1>2, <2>1, NarrowStep, StillStep
<1>3. CASE ToggleAll \/ ToggleOne \/ BulkAction
  <2>1. UNCHANGED <<collector, quiet, eventPage, requests>>
    BY <1>3 DEF ToggleAll, ToggleOne, BulkAction, Select, Does
  <2> QED
    BY <1>0, <1>3, <2>1, SelectStep, StillStep
<1>4. CASE SetCards
  <2>1. /\ UNCHANGED <<collector, quiet, eventPage, requests>>
        /\ UNCHANGED <<asked, page, event, env, range, search, selected, data, series, pending>>
    BY <1>4 DEF SetCards, DoesLast, eventPage, requests
  <2> QED
    BY <1>0, <2>1, SameStep, StillStep
<1>5. CASE SeriesAnswered
  <2>1. UNCHANGED <<collector, quiet, eventPage, requests>>
    BY <1>5 DEF SeriesAnswered
  <2> QED
    BY <1>0, <1>5, <2>1, SeriesAnsweredStep, StillStep
<1>6. CASE Underneath
  <2>1. /\ UNCHANGED <<collector, quiet, eventPage, states>>
        /\ UNCHANGED <<page, event, env, range, search, selected, data, series, pending>>
    BY <1>6 DEF Underneath, pageState, eventPage, collector
  <2>2. Fill \/ Lapse \/ Retry
    BY <1>6 DEF Underneath
  <2>3. Requested' /\ \A k \in Cached : asked[k] # Nothing <=> asked'[k] # Nothing
    BY <1>0, <2>1, <2>2, UnderneathStep
  <2>4. Reading'
    BY <1>0, <2>1, <2>3, CachedFacts, SameStep
  <2> QED
    BY <2>1, <2>3, <2>4, IdleStep
<1>7. CASE UNCHANGED vars
  <2>1. /\ UNCHANGED <<collector, quiet, eventPage, requests>>
        /\ UNCHANGED <<asked, page, event, env, range, search, selected, data, series, pending>>
    BY <1>7 DEF vars, pageState, eventPage, requests
  <2> QED
    BY <1>0, <2>1, SameStep, StillStep
<1> QED
  BY <1>1, <1>2, <1>3, <1>4, <1>5, <1>6, <1>7, GoStep, FollowsStep, ReadEventStep, BackStep, DataAnsweredStep,
     LiveStep, OutsideStep, OnEventStep DEF Next

\* What the pages hold, whatever the reader does, whatever the requests have read and in
\* whichever order they are answered or fail (routes/_authenticated, client.ts: _excCache).
THEOREM BrowseInvariant == Spec => []IInv
BY InitIInv, NextIInv, PTL DEF Spec

\* Every event that a page found is of at most one environment of the header, however the
\* tables were read; and of one, if the applications were read with every row of the
\* events (deriveApplications(), normalizeEnvironment()).
THEOREM EventsHaveOneEnvironment == Spec => []EachEventInOneEnvironment
<1>1. IInv => EachEventInOneEnvironment
  BY EnvironmentFacts DEF IInv, Reading
<1> QED
  BY <1>1, BrowseInvariant, PTL

\* An event of the environment and the time range that is not on the list is hidden by
\* a filter that the page offers to reset (EventsPage: rows, activeFilterCount).
THEOREM HidingIsOffered == Spec => []NothingHiddenSilently
<1>1. IInv => NothingHiddenSilently
  <2> SUFFICES ASSUME IInv PROVE NothingHiddenSilently
    OBVIOUS
  <2>1. Reading
    BY DEF IInv
  <2>2. TypeOK
    BY <2>1 DEF Reading, TypeOK, Named
  <2>3. ActiveFilters = 0 =>
           Visible = {x.id : x \in {x \in ToSet(Found) : In(env, x) /\ x.last >= cutoff}}
    BY <2>1, HiddenFacts DEF Reading
  <2> QED
    BY <2>2, <2>3 DEF NothingHiddenSilently
<1> QED
  BY <1>1, BrowseInvariant, PTL

\* The cards of the dashboard agree with each other (DashboardPage: reliability,
\* newAndIncreasing, appHealth).
THEOREM CardsAgree == Spec => []ScoreIsOfRegressions
<1>1. IInv => ScoreIsOfRegressions
  BY DashboardFacts DEF IInv, Reading
<1> QED
  BY <1>1, BrowseInvariant, PTL

\* The panes of an event are of the occurrence that its header names (EventDetailPage).
THEOREM PanesAreOfOneOccurrence == Spec => []PanesAgree
<1>1. IInv => PanesAgree
  BY PanesFacts DEF IInv, EventInv
<1> QED
  BY <1>1, BrowseInvariant, PTL

\* An event page that has settled and was not stepped shows the newest occurrence, unless
\* a live message had overtaken the first load it shows, or the request that filled the
\* cache for it (useSnapshots(), useLiveUpdates(), fetchAllExceptions()).
THEOREM SettledPageIsNewest == Spec => []ShowsNewest
<1>1. IInv => ShowsNewest
  BY NewestFacts DEF IInv, EventInv
<1> QED
  BY <1>1, BrowseInvariant, PTL
=============================================================================
