------------------------ MODULE DeliveryLedgerProofs ------------------------
(***************************************************************************)
(* The ledger forgets nothing: Conserved is an invariant of DeliveryLedger *)
(* for every capacity.  AsyncQueueProofs carries the result over to the    *)
(* queue along the refinement.                                             *)
(***************************************************************************)
EXTENDS DeliveryLedger, SequenceTheorems, TLAPS

\* Types, which Conserved alone does not say.
LedgerType ==
    /\ offered \in Nat
    /\ pending \in Seq(Nat)

Inv == LedgerType /\ Conserved

\* A split of a sequence at n: both parts are sequences, and together they hold
\* exactly its elements.
LEMMA SplitAt ==
  ASSUME NEW S, NEW s \in Seq(S), NEW n \in 0 .. Len(s)
  PROVE  LET a == SubSeq(s, 1, n)
             b == SubSeq(s, n + 1, Len(s))
         IN  /\ a \in Seq(S) /\ Len(a) = n
             /\ b \in Seq(S) /\ Len(b) = Len(s) - n
             /\ \A i \in 1 .. n : a[i] = s[i]
             /\ \A i \in 1 .. Len(s) - n : b[i] = s[n + i]
             /\ Range(a) \cup Range(b) = Range(s)
<1> DEFINE a == SubSeq(s, 1, n)
           b == SubSeq(s, n + 1, Len(s))
<1>1. Len(s) \in Nat /\ \A i \in 1 .. Len(s) : s[i] \in S
  BY LenProperties, ElementOfSeq
<1>2. /\ a \in Seq(S) /\ Len(a) = n
      /\ \A i \in 1 .. n : a[i] = s[i]
  <2>1. \A i \in 1 .. n : s[i] \in S
    BY <1>1
  <2> HIDE DEF a
  <2>2. /\ a \in Seq(S)
        /\ Len(a) = IF 1 <= n THEN n - 1 + 1 ELSE 0
        /\ \A i \in 1 .. n - 1 + 1 : a[i] = s[1 + i - 1]
    BY <2>1, SubSeqProperties, <1>1 DEF a
  <2> QED
    BY <2>2, <1>1
<1>3. /\ b \in Seq(S) /\ Len(b) = Len(s) - n
      /\ \A i \in 1 .. Len(s) - n : b[i] = s[n + i]
  <2>1. \A i \in n + 1 .. Len(s) : s[i] \in S
    BY <1>1
  <2> HIDE DEF b
  <2>2. /\ b \in Seq(S)
        /\ Len(b) = IF n + 1 <= Len(s) THEN Len(s) - (n + 1) + 1 ELSE 0
        /\ \A i \in 1 .. Len(s) - (n + 1) + 1 : b[i] = s[n + 1 + i - 1]
    BY <2>1, SubSeqProperties, <1>1 DEF b
  <2> QED
    BY <2>2, <1>1
<1> HIDE DEF a, b
<1>4. /\ Range(a) = {a[i] : i \in 1 .. n}
      /\ Range(b) = {b[i] : i \in 1 .. Len(s) - n}
      /\ Range(s) = {s[i] : i \in 1 .. Len(s)}
  <2>1. \A t \in Seq(S) : Range(t) = {t[i] : i \in 1 .. Len(t)}
    BY RangeEquality
  <2> QED
    BY <2>1, <1>2, <1>3
<1>5. Range(a) \cup Range(b) = Range(s)
  <2>1. ASSUME NEW i \in 1 .. Len(s)
        PROVE  s[i] \in Range(a) \cup Range(b)
    <3>1. CASE i <= n
      BY <3>1, <1>1, <1>2, <1>4
    <3>2. CASE i > n
      <4>1. i - n \in 1 .. Len(s) - n /\ b[i - n] = s[n + (i - n)]
        BY <3>2, <1>1, <1>3
      <4>2. n + (i - n) = i
        BY <1>1
      <4> QED
        BY <4>1, <4>2, <1>4
    <3> QED
      BY <3>1, <3>2, <1>1
  <2>2. Range(a) \subseteq Range(s)
    BY <1>1, <1>2, <1>4
  <2>3. Range(b) \subseteq Range(s)
    <3>1. \A i \in 1 .. Len(s) - n : n + i \in 1 .. Len(s)
      BY <1>1
    <3> QED
      BY <3>1, <1>3, <1>4
  <2> QED
    BY <2>1, <2>2, <2>3, <1>4
<1> QED
  BY <1>2, <1>3, <1>5 DEF a, b

\* Cutting n elements off the front of a conserved pending sequence leaves an
\* ordered rest whose elements are the old ones without those cut off.
LEMMA CutFront ==
  ASSUME Inv, NEW n \in 1 .. Len(pending)
  PROVE  /\ Rest(n) \in Seq(Nat)
         /\ \A i, j \in 1 .. Len(Rest(n)) : i < j => Rest(n)[i] < Rest(n)[j]
         /\ Range(Oldest(n)) \cup Range(Rest(n)) = Range(pending)
         /\ Range(Oldest(n)) \cap Range(Rest(n)) = {}
<1> DEFINE a == Oldest(n)
           b == Rest(n)
<1>1. /\ pending \in Seq(Nat)
      /\ Len(pending) \in Nat
      /\ n \in 0 .. Len(pending)
      /\ \A i, j \in 1 .. Len(pending) : i < j => pending[i] < pending[j]
      /\ \A i \in 1 .. Len(pending) : pending[i] \in Nat
  BY LenProperties, ElementOfSeq DEF Inv, LedgerType, Conserved
<1>2. /\ a \in Seq(Nat) /\ Len(a) = n
      /\ b \in Seq(Nat) /\ Len(b) = Len(pending) - n
      /\ \A i \in 1 .. n : a[i] = pending[i]
      /\ \A i \in 1 .. Len(pending) - n : b[i] = pending[n + i]
      /\ Range(a) \cup Range(b) = Range(pending)
  BY <1>1, SplitAt DEF Oldest, Rest
<1> HIDE DEF a, b
<1>3. \A i, j \in 1 .. Len(b) : i < j => b[i] < b[j]
  <2> SUFFICES ASSUME NEW i \in 1 .. Len(b), NEW j \in 1 .. Len(b), i < j
               PROVE  b[i] < b[j]
    OBVIOUS
  <2>1. /\ n + i \in 1 .. Len(pending)
        /\ n + j \in 1 .. Len(pending)
        /\ n + i < n + j
    BY <1>1, <1>2
  <2>2. b[i] = pending[n + i] /\ b[j] = pending[n + j]
    BY <1>2
  <2> QED
    BY <1>1, <2>1, <2>2
<1>4. Range(a) \cap Range(b) = {}
  <2>1. /\ Range(a) = {a[i] : i \in 1 .. Len(a)}
        /\ Range(b) = {b[i] : i \in 1 .. Len(b)}
    BY <1>2, RangeEquality
  <2>2. ASSUME NEW i \in 1 .. n, NEW j \in 1 .. Len(pending) - n
        PROVE  a[i] # b[j]
    <3>1. /\ i \in 1 .. Len(pending)
          /\ n + j \in 1 .. Len(pending)
          /\ i < n + j
      BY <1>1
    <3>2. a[i] = pending[i] /\ b[j] = pending[n + j]
      BY <1>2
    <3> QED
      BY <1>1, <3>1, <3>2
  <2>3. ASSUME NEW x \in Range(a), x \in Range(b)
        PROVE  FALSE
    <3>1. PICK i \in 1 .. n : x = a[i]
      BY <1>2, <2>1
    <3>2. PICK j \in 1 .. Len(pending) - n : x = b[j]
      BY <1>2, <2>1, <2>3
    <3> QED
      BY <2>2, <3>1, <3>2
  <2> QED
    BY <2>3
<1> QED
  BY <1>2, <1>3, <1>4 DEF a, b

\* Every behaviour of the ledger keeps each event in one place and in order
\* (agent/src/async_queue.cpp, through the refinement in AsyncQueueProofs).
THEOREM LedgerConserves == Spec => []Inv
<1>1. Init => Inv
  <2> SUFFICES ASSUME Init PROVE Inv
    OBVIOUS
  <2>1. Range(pending) = {}
    BY DEF Init, Range
  <2> QED
    BY <2>1 DEF Init, Inv, LedgerType, Conserved
<1>2. Inv /\ [Next]_vars => Inv'
  <2> SUFFICES ASSUME Inv, [Next]_vars
               PROVE  Inv'
    OBVIOUS
  <2>0. /\ offered \in Nat
        /\ pending \in Seq(Nat)
        /\ Len(pending) \in Nat
        /\ Range(pending) \subseteq 1 .. offered
        /\ Range(pending) = {pending[i] : i \in 1 .. Len(pending)}
    BY LenProperties, RangeEquality DEF Inv, LedgerType, Conserved
  <2>1. CASE Accept
    <3>1. /\ pending' \in Seq(Nat)
          /\ Len(pending') = Len(pending) + 1
          /\ \A i \in 1 .. Len(pending) : pending'[i] = pending[i]
          /\ pending'[Len(pending) + 1] = offered + 1
          /\ offered + 1 \in Nat
      BY <2>0, <2>1, AppendProperties DEF Accept
    <3>2. Range(pending') = {pending'[i] : i \in 1 .. Len(pending')}
      BY <3>1, RangeEquality
    <3>a. ASSUME NEW i \in 1 .. Len(pending'), i # Len(pending) + 1
          PROVE  i \in 1 .. Len(pending)
      <4>1. Len(pending') = Len(pending) + 1 /\ Len(pending) \in Nat
        BY <2>0, <3>1
      <4> QED
        BY <3>a, <4>1
    <3>3. Range(pending') = Range(pending) \cup {offered + 1}
      <4>1. ASSUME NEW i \in 1 .. Len(pending')
            PROVE  pending'[i] \in Range(pending) \cup {offered + 1}
        <5>1. CASE i = Len(pending) + 1
          BY <3>1, <5>1
        <5>2. CASE i # Len(pending) + 1
          <6>1. i \in 1 .. Len(pending)
            BY <3>a, <5>2
          <6> QED
            BY <2>0, <3>1, <6>1
        <5> QED
          BY <5>1, <5>2
      <4>2. \A i \in 1 .. Len(pending) : i \in 1 .. Len(pending')
        BY <2>0, <3>1
      <4>3. Len(pending) + 1 \in 1 .. Len(pending')
        BY <2>0, <3>1
      <4> QED
        BY <2>0, <3>1, <3>2, <4>1, <4>2, <4>3
    <3>4. \A i \in 1 .. Len(pending) : pending[i] \in 1 .. offered
      BY <2>0
    <3>5. \A i, j \in 1 .. Len(pending') : i < j => pending'[i] < pending'[j]
      <4> SUFFICES ASSUME NEW i \in 1 .. Len(pending'), NEW j \in 1 .. Len(pending'),
                          i < j
                   PROVE  pending'[i] < pending'[j]
        OBVIOUS
      <4>1. i \in 1 .. Len(pending) /\ pending'[i] = pending[i]
        BY <2>0, <3>1
      <4>2. CASE j = Len(pending) + 1
        BY <2>0, <3>1, <3>4, <4>1, <4>2
      <4>3. CASE j # Len(pending) + 1
        <5>1. j \in 1 .. Len(pending)
          BY <3>a, <4>3
        <5>2. pending'[j] = pending[j]
          BY <3>1, <5>1
        <5> QED
          BY <4>1, <5>1, <5>2 DEF Inv, Conserved
      <4> QED
        BY <4>2, <4>3
    <3>6. 1 .. offered' = (1 .. offered) \cup {offered + 1}
      BY <2>0, <2>1 DEF Accept
    <3>7. UNCHANGED <<delivered, lost>> /\ offered' = offered + 1
      BY <2>1 DEF Accept
    <3>8. offered + 1 \notin 1 .. offered
      BY <2>0
    <3> QED
      BY <2>0, <3>1, <3>3, <3>5, <3>6, <3>7, <3>8 DEF Inv, LedgerType, Conserved
  <2>2. CASE Refuse
    <3>1. /\ 1 .. offered' = (1 .. offered) \cup {offered + 1}
          /\ offered + 1 \notin 1 .. offered
      BY <2>0, <2>2 DEF Refuse
    <3>2. /\ UNCHANGED <<pending, delivered>>
          /\ lost' = lost \cup {offered + 1}
          /\ offered' = offered + 1
      BY <2>2 DEF Refuse
    <3>3. LedgerType'
      BY <2>0, <3>2 DEF LedgerType
    <3>4. (delivered \cup lost) \cup Range(pending) = 1 .. offered
      BY DEF Inv, Conserved
    <3>5. Conserved'
      <4>1. Range(pending)' = Range(pending) /\ Len(pending)' = Len(pending)
        BY <3>2
      <4>2. delivered' \cap lost' = {}
        BY <3>1, <3>2, <3>4 DEF Inv, Conserved
      <4>3. (delivered' \cup lost') \cap Range(pending) = {}
        BY <3>1, <3>2, <3>4 DEF Inv, Conserved
      <4>4. (delivered' \cup lost') \cup Range(pending) = 1 .. offered'
        BY <3>1, <3>2, <3>4
      <4>5. \A i, j \in 1 .. Len(pending') : i < j => pending'[i] < pending'[j]
        BY <3>2 DEF Inv, Conserved
      <4> QED
        BY <4>1, <4>2, <4>3, <4>4, <4>5 DEF Conserved
    <3> QED
      BY <3>3, <3>5 DEF Inv
  <2>3. ASSUME NEW n \in 1 .. Len(pending), Deliver(n)
        PROVE  Inv'
    BY <2>0, <2>3, CutFront DEF Deliver, Inv, LedgerType, Conserved
  <2>4. ASSUME NEW n \in 1 .. Len(pending), WriteOff(n)
        PROVE  Inv'
    BY <2>0, <2>4, CutFront DEF WriteOff, Inv, LedgerType, Conserved
  <2>5. CASE UNCHANGED vars
    BY <2>5 DEF vars, Inv, LedgerType, Conserved
  <2> QED
    BY <2>1, <2>2, <2>3, <2>4, <2>5 DEF Next
<1> QED
  BY <1>1, <1>2, PTL DEF Spec
=============================================================================
