-------------------------- MODULE AsyncQueueProofs --------------------------
(***************************************************************************)
(* What holds of the agent's event queue for every queue size, batch size, *)
(* number of retries and number of events.  The argument: Shape says which *)
(* places of the worker hold a batch and what stop() has fixed by then;    *)
(* with it every step of AsyncQueue is a step of DeliveryLedger or leaves  *)
(* the ledger alone; the ledger forgets nothing (DeliveryLedgerProofs), so *)
(* the queue does not either; and counting follows.                        *)
(*                                                                         *)
(* Last, no event is posted more than twice after stop().  An event may be *)
(* posted once more by a retry loop that stop() wakes from its backoff,    *)
(* and is then put back; the next iteration reads running_ before it sends *)
(* and never puts back.  Posts says how often an event has been posted by  *)
(* where it is; that it is in one place is ForgetsNothing.                 *)
(***************************************************************************)
EXTENDS AsyncQueueAttempts, SequenceTheorems, FiniteSetTheorems, TLAPS

LP == INSTANCE DeliveryLedgerProofs WITH
    pending <- Pending, RefuseAt <- MaxQueue, Capacity <- MaxQueue + BatchSize

\* The control facts the other invariants lean on.
Shape ==
    /\ pc \in Holding => batch # <<>>
    /\ pc \notin Holding => batch = <<>>
    /\ pc = "unborn" => ~running /\ lateFrom = 0
    /\ pc # "unborn" => (running <=> lateFrom = 0)
    /\ stopping => lateFrom # 0
    /\ pc \in {"dropall", "exited"} => ~running
    /\ lateFrom <= offered + 1
    /\ pc = "backoff" => attempt < SendRetries
    /\ Len(queue) <= MaxQueue
    /\ Len(batch) <= BatchSize

USE DEF PC, Holding

\* The numbers and sequences of SubSeq as the actions use it.
LEMMA CutType ==
  ASSUME NEW S, NEW s \in Seq(S), NEW n \in 0 .. Len(s)
  PROVE  /\ SubSeq(s, 1, n) \in Seq(S) /\ Len(SubSeq(s, 1, n)) = n
         /\ SubSeq(s, n + 1, Len(s)) \in Seq(S)
         /\ Len(SubSeq(s, n + 1, Len(s))) = Len(s) - n
         /\ SubSeq(s, 1, n) \o SubSeq(s, n + 1, Len(s)) = s
<1>1. /\ SubSeq(s, 1, n) \in Seq(S) /\ Len(SubSeq(s, 1, n)) = n
      /\ SubSeq(s, n + 1, Len(s)) \in Seq(S)
      /\ Len(SubSeq(s, n + 1, Len(s))) = Len(s) - n
  BY LP!SplitAt
<1>2. Len(s) \in Nat
  BY LenProperties
<1>3. SubSeq(s, 1, n) \o SubSeq(s, n + 1, Len(s)) = SubSeq(s, 1, Len(s))
  <2>1. /\ 1 \in 1 .. Len(s) + 1
        /\ n \in 1 - 1 .. Len(s)
        /\ Len(s) \in n .. Len(s)
    BY <1>2
  <2> QED
    BY ONLY <2>1, ConcatAdjacentSubSeq, s \in Seq(S)
<1>4. SubSeq(s, 1, Len(s)) = s
  BY SubSeqFull
<1> QED
  BY <1>1, <1>3, <1>4

\* Type correctness and the control facts, together: the bound on attempt needs
\* the place of the worker.
LEMMA TypeAndShape == Spec => [](TypeOK /\ Shape)
<1> USE ConstantsAssumption
<1>1. Init => TypeOK /\ Shape
  <2>1. <<>> \in Seq(Nat \ {0}) /\ Len(<<>>) = 0
    BY EmptySeq
  <2> SUFFICES ASSUME Init PROVE TypeOK /\ Shape
    OBVIOUS
  <2>a. 0 \in 0 .. SendRetries
    BY ConstantsAssumption
  <2>2. TypeOK
    BY <2>1, <2>a DEF Init, TypeOK
  <2>3. Shape
    BY <2>1 DEF Init, Shape
  <2> QED
    BY <2>2, <2>3
<1>2. TypeOK /\ Shape /\ [Next]_vars => TypeOK' /\ Shape'
  <2> SUFFICES ASSUME TypeOK, Shape, [Next]_vars
               PROVE  TypeOK' /\ Shape'
    OBVIOUS
  <2>0. /\ Len(queue) \in Nat
        /\ Len(batch) \in Nat
        /\ Range(queue) \subseteq Nat \ {0}
        /\ Range(batch) \subseteq Nat \ {0}
    BY LenProperties, RangeOfSeq DEF TypeOK
  <2>e. <<>> \in Seq(Nat \ {0}) /\ Len(<<>>) = 0
    BY EmptySeq
  <2>1. CASE Start
    BY <2>1 DEF Start, TypeOK, Shape, history
  <2>2. CASE Stop
    <3>1. /\ running /\ running' = FALSE /\ budget' = "open"
          /\ lateFrom' = offered + 1
          /\ UNCHANGED <<queue, dropped, rejects, pc, batch, stopping, attempt,
                         offered, delivered, lost>>
      BY <2>2 DEF Stop, workerVars
    <3>a. lateFrom' \in Nat
      BY <3>1 DEF TypeOK
    <3>2. TypeOK'
      BY <3>1, <3>a, Zenon DEF TypeOK
    <3>3. Shape'
      BY <3>1 DEF TypeOK, Shape
    <3> QED
      BY <3>2, <3>3
  <2>3. CASE BudgetRunsOut
    BY <2>3 DEF BudgetRunsOut, TypeOK, Shape, workerVars, history
  <2>4. CASE Enqueue
    <3>0. /\ offered' = offered + 1
          /\ UNCHANGED <<running, rejects, budget, pc, batch, stopping, attempt,
                         delivered, lateFrom>>
      BY <2>4 DEF Enqueue, workerVars
    <3>1. CASE Len(queue) >= MaxQueue
      <4>1. /\ dropped' = dropped + 1
            /\ lost' = lost \cup {offered + 1}
            /\ queue' = queue
        BY <2>0, <2>4, <3>1, ConstantsAssumption DEF Enqueue
      <4>2. lost' \subseteq Nat \ {0}
        BY <4>1 DEF TypeOK
      <4>3. TypeOK'
        BY <3>0, <4>1, <4>2 DEF TypeOK
      <4>4. Shape'
        BY <3>0, <4>1 DEF TypeOK, Shape
      <4> QED
        BY <4>3, <4>4
    <3>2. CASE Len(queue) < MaxQueue
      <4>1. queue' = Append(queue, offered + 1) /\ offered + 1 \in Nat \ {0}
        BY <2>0, <2>4, <3>2 DEF Enqueue, TypeOK
      <4>2. queue' \in Seq(Nat \ {0}) /\ Len(queue') = Len(queue) + 1
        BY <4>1, AppendProperties DEF TypeOK
      <4>3. UNCHANGED <<dropped, lost>>
        BY <2>0, <2>4, <3>2, ConstantsAssumption DEF Enqueue
      <4>4. TypeOK'
        BY <3>0, <4>2, <4>3 DEF TypeOK
      <4>5. Len(queue') <= MaxQueue
        BY <2>0, <3>2, <4>2, ConstantsAssumption
      <4>6. Shape'
        BY <3>0, <4>5 DEF TypeOK, Shape
      <4> QED
        BY <4>4, <4>6
    <3> QED
      BY <2>0, <3>1, <3>2
  <2>5. CASE CollectBatch
    <3> DEFINE n == MinOf(BatchSize, Len(queue))
    <3>1. n \in 0 .. Len(queue) /\ n <= BatchSize /\ n \in Nat /\ n # 0
      BY <2>0, <2>5, EmptySeq DEF CollectBatch, MinOf, TypeOK
    <3>2. /\ batch' = SubSeq(queue, 1, n)
          /\ queue' = SubSeq(queue, n + 1, Len(queue))
      BY <2>5 DEF CollectBatch
    <3> HIDE DEF n
    <3>3. /\ batch' \in Seq(Nat \ {0}) /\ Len(batch') = n
          /\ queue' \in Seq(Nat \ {0}) /\ Len(queue') = Len(queue) - n
      BY <3>1, <3>2, CutType DEF TypeOK
    <3>4. batch' # <<>>
      BY <3>1, <3>3, EmptySeq
    <3>5. pc' = "check" /\ UNCHANGED <<running, dropped, rejects, budget, stopping,
                                       attempt, offered, delivered, lost, lateFrom>>
      BY <2>5 DEF CollectBatch, history
    <3>6. TypeOK'
      BY <3>3, <3>5 DEF TypeOK
    <3>7. Len(queue') <= MaxQueue /\ Len(batch') <= BatchSize
      BY <2>0, <3>1, <3>3 DEF Shape
    <3>8. pc = "collect"
      BY <2>5 DEF CollectBatch
    <3> QED
      BY <3>4, <3>5, <3>6, <3>7, <3>8 DEF Shape
  <2>6. CASE CollectNothing
    BY <2>6 DEF CollectNothing, TypeOK, Shape, history
  <2>7. CASE CheckDeadline
    BY <2>7 DEF CheckDeadline, TypeOK, Shape, history
  <2>8. ASSUME NEW extra \in Nat, DropBatchAndQueue(extra)
        PROVE  /\ queue' = <<>> /\ batch' = <<>>
               /\ dropped' \in Nat
               /\ lost' \subseteq Nat \ {0}
               /\ Len(queue') = 0 /\ Len(batch') = 0
               /\ queue' \in Seq(Nat \ {0}) /\ batch' \in Seq(Nat \ {0})
    <3>1. /\ dropped' = dropped + extra + (Len(batch) + Len(queue))
          /\ lost' = lost \cup Range(batch) \cup Range(queue)
          /\ queue' = <<>> /\ batch' = <<>>
      BY <2>8 DEF DropBatchAndQueue, DropCount
    <3>2. dropped' \in Nat
      BY <2>0, <3>1 DEF TypeOK
    <3>3. lost' \subseteq Nat \ {0}
      BY <2>0, <3>1 DEF TypeOK
    <3> QED
      BY <2>e, <3>1, <3>2, <3>3
  <2>9. CASE DropAndExit
    BY <2>8, <2>9 DEF DropAndExit, TypeOK, Shape
  <2>10. CASE SendOk
    <3>1. delivered' \subseteq Nat \ {0}
      BY <2>0, <2>10 DEF SendOk, TypeOK
    <3>2. /\ pc = "send" /\ pc' = "tail" /\ batch' = <<>>
          /\ UNCHANGED <<queue, running, dropped, rejects, budget, stopping, attempt,
                         offered, lost, lateFrom>>
      BY <2>10 DEF SendOk
    <3>3. TypeOK'
      BY <2>e, <3>1, <3>2 DEF TypeOK
    <3>4. Shape'
      BY <2>e, <3>2, ConstantsAssumption DEF Shape, TypeOK
    <3> QED
      BY <3>3, <3>4
  <2>11. CASE SendPermanent
    <3>1. CASE stopping
      BY <2>0, <2>8, <2>11, <3>1 DEF SendPermanent, TypeOK, Shape
    <3>2. CASE ~stopping
      <4>1. lost' \subseteq Nat \ {0}
        BY <2>0, <2>11, <3>2 DEF SendPermanent, TypeOK
      <4>2. dropped' \in Nat /\ rejects' \in Nat
        BY <2>0, <2>11, <3>2 DEF SendPermanent, TypeOK
      <4>3. /\ pc = "send" /\ pc' = "tail" /\ batch' = <<>>
            /\ UNCHANGED <<queue, running, budget, stopping, attempt, offered,
                           delivered, lateFrom>>
        BY <2>11, <3>2 DEF SendPermanent
      <4>4. TypeOK'
        BY <2>e, <4>1, <4>2, <4>3 DEF TypeOK
      <4>5. Shape'
        BY <2>e, <4>3, ConstantsAssumption DEF Shape, TypeOK
      <4> QED
        BY <4>4, <4>5
    <3> QED
      BY <3>1, <3>2
  <2>12. CASE SendRetryable
    BY <2>12 DEF SendRetryable, TypeOK, Shape, history
  <2>13. CASE DecideRetry
    BY <2>13 DEF DecideRetry, LastAttempt, TypeOK, Shape, history
  <2>14. CASE EndBackoff
    BY <2>14 DEF EndBackoff, TypeOK, Shape, history
  <2>15. CASE GiveUp
    <3>1. CASE stopping
      BY <2>8, <2>15, <3>1 DEF GiveUp, TypeOK, Shape
    <3>2. CASE ~stopping
      <4> DEFINE k == Overflow(batch, queue)
                 rest == SubSeq(batch, k + 1, Len(batch))
      <4>1. /\ k \in 0 .. Len(batch) /\ k \in Nat
            /\ Len(batch) - k + Len(queue) <= MaxQueue
        BY <2>0 DEF Overflow, Shape
      <4>2. /\ queue' = rest \o queue /\ batch' = <<>>
            /\ dropped' = dropped + k
            /\ lost' = lost \cup Range(SubSeq(batch, 1, k))
        BY <2>15, <3>2 DEF GiveUp, RequeueFront, Requeued
      <4> HIDE DEF k
      <4>3. /\ rest \in Seq(Nat \ {0}) /\ Len(rest) = Len(batch) - k
            /\ SubSeq(batch, 1, k) \in Seq(Nat \ {0})
        BY <4>1, CutType DEF TypeOK
      <4> HIDE DEF rest
      <4>4. queue' \in Seq(Nat \ {0}) /\ Len(queue') = Len(rest) + Len(queue)
        BY <4>2, <4>3, ConcatProperties DEF TypeOK
      <4>5. Range(SubSeq(batch, 1, k)) \subseteq Nat \ {0}
        BY <4>3, RangeOfSeq
      <4>6. /\ pc = "giveup" /\ pc' = "tail"
            /\ UNCHANGED <<running, rejects, budget, stopping, attempt, offered,
                           delivered, lateFrom>>
        BY <2>15 DEF GiveUp
      <4>a. lost' \subseteq Nat \ {0}
        BY <4>2, <4>5 DEF TypeOK
      <4>b. dropped' \in Nat
        BY <4>1, <4>2 DEF TypeOK
      <4>7. lost' \subseteq Nat \ {0} /\ dropped' \in Nat
        BY <4>a, <4>b
      <4>8. TypeOK'
        BY <2>e, <4>2, <4>4, <4>6, <4>7 DEF TypeOK
      <4>9. Len(queue') <= MaxQueue
        BY <2>0, <4>1, <4>3, <4>4
      <4>10. Shape'
        BY <2>e, <4>2, <4>6, <4>9, ConstantsAssumption DEF Shape, TypeOK
      <4> QED
        BY <4>8, <4>10
    <3> QED
      BY <3>1, <3>2
  <2>16. CASE LoopEnd
    BY <2>16 DEF LoopEnd, TypeOK, Shape, history
  <2>17. CASE UNCHANGED vars
    BY <2>17 DEF vars, TypeOK, Shape
  <2> QED
    BY <2>1, <2>2, <2>3, <2>4, <2>5, <2>6, <2>7, <2>9, <2>10, <2>11, <2>12,
       <2>13, <2>14, <2>15, <2>16, <2>17 DEF Next, Worker
<1> QED
  BY <1>1, <1>2, PTL DEF Spec

\* A nonempty front part of a sequence, cut off, leaves the rest.
LEMMA FrontAndRest ==
  ASSUME NEW S, NEW x \in Seq(S), NEW r \in Seq(S), x # <<>>
  PROVE  /\ x \o r \in Seq(S)
         /\ Len(x) \in 1 .. Len(x \o r)
         /\ SubSeq(x \o r, 1, Len(x)) = x
         /\ SubSeq(x \o r, Len(x) + 1, Len(x \o r)) = r
<1> DEFINE s == x \o r
           a == SubSeq(s, 1, Len(x))
           b == SubSeq(s, Len(x) + 1, Len(s))
<1>1. /\ s \in Seq(S)
      /\ Len(s) = Len(x) + Len(r)
      /\ \A i \in 1 .. Len(x) + Len(r) :
            s[i] = IF i <= Len(x) THEN x[i] ELSE r[i - Len(x)]
  BY ConcatProperties
<1>2. Len(x) \in Nat /\ Len(r) \in Nat /\ Len(x) # 0
  BY LenProperties, EmptySeq
<1> HIDE DEF s
<1>3. Len(x) \in 0 .. Len(s) /\ Len(x) \in 1 .. Len(s)
  BY <1>1, <1>2
<1>4. /\ a \in Seq(S) /\ Len(a) = Len(x)
      /\ b \in Seq(S) /\ Len(b) = Len(s) - Len(x)
      /\ \A i \in 1 .. Len(x) : a[i] = s[i]
      /\ \A i \in 1 .. Len(s) - Len(x) : b[i] = s[Len(x) + i]
  BY <1>1, <1>3, LP!SplitAt
<1> HIDE DEF a, b
<1>5. a = x
  <2>1. ASSUME NEW i \in 1 .. Len(a)
        PROVE  a[i] = x[i]
    <3>1. i \in 1 .. Len(x) + Len(r) /\ i <= Len(x)
      BY <1>2, <1>4
    <3> QED
      BY <1>1, <1>4, <3>1
  <2> QED
    BY <2>1, <1>4, SeqEqual
<1>6. b = r
  <2>1. Len(b) = Len(r)
    BY <1>1, <1>2, <1>4
  <2>2. ASSUME NEW i \in 1 .. Len(b)
        PROVE  b[i] = r[i]
    <3>1. /\ Len(x) + i \in 1 .. Len(x) + Len(r)
          /\ ~(Len(x) + i <= Len(x))
          /\ (Len(x) + i) - Len(x) = i
      BY <1>2, <2>1
    <3>2. b[i] = s[Len(x) + i]
      BY <1>4
    <3> QED
      BY <1>1, <3>1, <3>2
  <2> QED
    BY <2>1, <2>2, <1>4, SeqEqual
<1> QED
  BY <1>1, <1>3, <1>5, <1>6 DEF s, a, b

\* A step that cuts x off the front of the pending events and adds its elements
\* to one of the two settled sets is a Deliver or a WriteOff of the ledger.
LEMMA CutIsLedgerStep ==
  ASSUME NEW S, NEW x \in Seq(S), Pending' \in Seq(S), x # <<>>,
         Pending = x \o Pending', offered' = offered,
         \/ delivered' = delivered \cup Range(x) /\ lost' = lost
         \/ lost' = lost \cup Range(x) /\ delivered' = delivered
  PROVE  LP!Next
<1>1. /\ Len(x) \in 1 .. Len(Pending)
      /\ SubSeq(Pending, 1, Len(x)) = x
      /\ SubSeq(Pending, Len(x) + 1, Len(Pending)) = Pending'
  BY FrontAndRest
<1>2. LP!Oldest(Len(x)) = x /\ LP!Rest(Len(x)) = Pending'
  BY <1>1 DEF LP!Oldest, LP!Rest
<1>3. LP!Deliver(Len(x)) \/ LP!WriteOff(Len(x))
  <2>1. CASE delivered' = delivered \cup Range(x) /\ lost' = lost
    BY <1>2, <2>1 DEF LP!Deliver, LP!Range, Range
  <2>2. CASE lost' = lost \cup Range(x) /\ delivered' = delivered
    BY <1>2, <2>2 DEF LP!WriteOff, LP!Range, Range
  <2> QED
    BY <2>1, <2>2
<1> QED
  BY <1>1, <1>3 DEF LP!Next

\* Every step of the queue is a step of the ledger or leaves the ledger alone.
LEMMA StepRefines ==
  ASSUME TypeOK, Shape, [Next]_vars
  PROVE  [LP!Next]_(LP!vars)
<1> DEFINE S == Nat \ {0}
<1> USE ConstantsAssumption
<1>0. /\ queue \in Seq(S) /\ batch \in Seq(S)
      /\ Len(queue) \in Nat /\ Len(batch) \in Nat
      /\ <<>> \in Seq(S)
      /\ \A t \in Seq(S) : t \o <<>> = t /\ <<>> \o t = t
  BY LenProperties, EmptySeq, ConcatEmptySeq DEF TypeOK
<1>1. Pending \in Seq(S) /\ Len(Pending) = Len(batch) + Len(queue)
  BY <1>0, ConcatProperties DEF Pending
<1> HIDE DEF S
<1> DEFINE Same == /\ batch' \o queue' = batch \o queue
                   /\ UNCHANGED <<offered, delivered, lost>>
<1>2. Same => UNCHANGED LP!vars
  BY DEF LP!vars, Pending
<1> HIDE DEF Same
<1>3. CASE UNCHANGED <<batch, queue, offered, delivered, lost>>
  BY <1>2, <1>3 DEF Same
<1>4. CASE Enqueue
  <2>1. offered' = offered + 1 /\ batch' = batch /\ delivered' = delivered
    BY <1>4 DEF Enqueue, workerVars
  <2>2. CASE Len(queue) >= MaxQueue
    <3>1. queue' = queue /\ lost' = lost \cup {offered + 1}
      BY <1>0, <1>4, <2>2 DEF Enqueue
    <3>2. Pending' = Pending
      BY <2>1, <3>1 DEF Pending
    <3>3. Len(Pending) >= MaxQueue
      BY <1>0, <1>1, <2>2
    <3>4. LP!Refuse
      BY <2>1, <3>1, <3>2, <3>3 DEF LP!Refuse
    <3> QED
      BY <3>4 DEF LP!Next
  <2>3. CASE ~(Len(queue) >= MaxQueue)
    <3>1. queue' = Append(queue, offered + 1) /\ lost' = lost
      BY <1>0, <1>4, <2>3 DEF Enqueue
    <3>2. Append(queue, offered + 1) = queue \o <<offered + 1>>
      BY <1>0, AppendIsConcat DEF TypeOK, S
    <3>3. Append(batch \o queue, offered + 1) = (batch \o queue) \o <<offered + 1>>
      BY <1>0, <1>1, AppendIsConcat DEF TypeOK, Pending, S
    <3>4. <<offered + 1>> \in Seq(S)
      BY DEF TypeOK, S
    <3>5. (batch \o queue) \o <<offered + 1>> = batch \o (queue \o <<offered + 1>>)
      BY <1>0, <3>4, ConcatAssociative
    <3>6. Pending' = Append(Pending, offered + 1)
      BY <2>1, <3>1, <3>2, <3>3, <3>5 DEF Pending
    <3>7. Len(Pending) < MaxQueue + BatchSize
      BY <1>0, <1>1, <2>3 DEF Shape
    <3>8. LP!Accept
      BY <2>1, <3>1, <3>6, <3>7 DEF LP!Accept
    <3> QED
      BY <3>8 DEF LP!Next
  <2> QED
    BY <2>2, <2>3
<1>5. CASE CollectBatch
  <2> DEFINE n == MinOf(BatchSize, Len(queue))
  <2>1. n \in 0 .. Len(queue)
    BY <1>0 DEF MinOf
  <2>2. /\ batch' = SubSeq(queue, 1, n)
        /\ queue' = SubSeq(queue, n + 1, Len(queue))
        /\ pc = "collect"
        /\ UNCHANGED <<offered, delivered, lost>>
    BY <1>5 DEF CollectBatch, history
  <2> HIDE DEF n
  <2>3. batch' \o queue' = queue
    BY <1>0, <2>1, <2>2, CutType
  <2>4. batch = <<>>
    BY <2>2 DEF Shape
  <2> QED
    BY <1>0, <1>2, <2>2, <2>3, <2>4 DEF Same
<1>6. ASSUME NEW extra, DropBatchAndQueue(extra), pc \in Holding,
             UNCHANGED <<offered, delivered>>
      PROVE  LP!Next
  <2>1. Pending' = <<>> /\ Pending = Pending \o Pending'
    BY <1>0, <1>1, <1>6 DEF DropBatchAndQueue, Pending
  <2>2. Range(Pending) = Range(batch) \cup Range(queue)
    BY <1>0, RangeConcatenation DEF Pending
  <2>3. lost' = lost \cup Range(Pending)
    BY <1>6, <2>2 DEF DropBatchAndQueue
  <2>4. Pending # <<>>
    BY <1>0, <1>6, ConcatEqualIffEmpty DEF Shape, Pending
  <2> QED
    BY <1>0, <1>1, <1>6, <2>1, <2>3, <2>4, CutIsLedgerStep
<1>7. ASSUME batch' = <<>>, queue' = queue, pc \in Holding, offered' = offered,
             \/ delivered' = delivered \cup Range(batch) /\ lost' = lost
             \/ lost' = lost \cup Range(batch) /\ delivered' = delivered
      PROVE  LP!Next
  <2>1. Pending' = queue /\ Pending = batch \o queue
    BY <1>0, <1>7 DEF Pending
  <2>2. batch # <<>>
    BY <1>7 DEF Shape
  <2> QED
    BY <1>0, <1>7, <2>1, <2>2, CutIsLedgerStep
<1>8. CASE DropAndExit
  BY <1>6, <1>8 DEF DropAndExit
<1>9. CASE SendOk
  BY <1>7, <1>9 DEF SendOk
<1>10. CASE SendPermanent
  BY <1>6, <1>7, <1>10 DEF SendPermanent
<1>11. CASE GiveUp
  <2>1. CASE stopping
    BY <1>6, <1>11, <2>1 DEF GiveUp
  <2>2. CASE ~stopping
    <3> DEFINE k == Overflow(batch, queue)
               x == SubSeq(batch, 1, k)
               rest == SubSeq(batch, k + 1, Len(batch))
    <3>1. k \in 0 .. Len(batch)
      BY <1>0 DEF Overflow
    <3>2. /\ queue' = rest \o queue /\ batch' = <<>>
          /\ lost' = lost \cup Range(x)
          /\ UNCHANGED <<offered, delivered>>
      BY <1>11, <2>2 DEF GiveUp, RequeueFront, Requeued
    <3> HIDE DEF k
    <3>3. /\ x \in Seq(S) /\ Len(x) = k /\ rest \in Seq(S) /\ x \o rest = batch
      BY <1>0, <3>1, CutType
    <3> HIDE DEF x, rest
    <3>4. rest \o queue \in Seq(S)
      BY <1>0, <3>3, ConcatProperties
    <3>5. Pending' = rest \o queue
      BY <1>0, <3>2, <3>4 DEF Pending
    <3>6. Pending = x \o (rest \o queue)
      <4>0. x \in Seq(S) /\ rest \in Seq(S) /\ queue \in Seq(S)
        BY <1>0, <3>3
      <4>1. (x \o rest) \o queue = x \o (rest \o queue)
        BY ONLY <4>0, ConcatAssociative
      <4> QED
        BY <3>3, <4>1 DEF Pending
    <3>7. CASE x = <<>>
      <4>1. Pending' = Pending
        BY <1>0, <3>4, <3>5, <3>6, <3>7
      <4>2. Range(x) = {}
        BY <3>7 DEF Range
      <4>3. lost' = lost
        BY <3>2, <4>2
      <4> QED
        BY <1>2, <3>2, <4>1, <4>3 DEF Same, Pending
    <3>8. CASE x # <<>>
      BY <3>2, <3>3, <3>4, <3>5, <3>6, <3>8, CutIsLedgerStep
    <3> QED
      BY <3>7, <3>8
  <2> QED
    BY <2>1, <2>2
<1> QED
  <2>1. CASE \/ Start \/ Stop \/ BudgetRunsOut \/ CollectNothing \/ CheckDeadline
             \/ SendRetryable \/ DecideRetry \/ EndBackoff \/ LoopEnd
             \/ UNCHANGED vars
    BY <1>3, <2>1 DEF Start, Stop, BudgetRunsOut, CollectNothing, CheckDeadline,
       SendRetryable, DecideRetry, EndBackoff, LoopEnd, history, workerVars, vars
  <2> QED
    BY <2>1, <1>4, <1>5, <1>8, <1>9, <1>10, <1>11 DEF Next, Worker

-----------------------------------------------------------------------------
\* The queue implements the ledger (async_queue.cpp:31-166): for every capacity,
\* batch size and number of retries, accepted events leave strictly from the
\* front, and enqueue() refuses only when kMaxQueue events are waiting.
THEOREM RefinesLedger == Spec => LedgerSpec
<1>1. Init => Ledger!Init
  <2>1. <<>> \o <<>> = <<>>
    BY EmptySeq, ConcatEmptySeq
  <2> QED
    BY <2>1 DEF Init, Ledger!Init, Pending
<1>2. TypeOK /\ Shape /\ [Next]_vars => [Ledger!Next]_(Ledger!vars)
  <2> SUFFICES ASSUME TypeOK, Shape, [Next]_vars
               PROVE  [Ledger!Next]_(Ledger!vars)
    OBVIOUS
  <2>1. [LP!Next]_(LP!vars)
    BY StepRefines
  <2> QED
    BY <2>1 DEF LP!Next, LP!vars, LP!Accept, LP!Refuse, LP!Deliver, LP!WriteOff,
       LP!Oldest, LP!Rest, LP!Range, Ledger!Next, Ledger!vars, Ledger!Accept,
       Ledger!Refuse, Ledger!Deliver, Ledger!WriteOff, Ledger!Oldest, Ledger!Rest,
       Ledger!Range
<1> QED
  BY <1>1, <1>2, TypeAndShape, PTL DEF Spec, LedgerSpec, Ledger!Spec

\* A strictly increasing sequence has as many elements as its length.
LEMMA IncreasingCount ==
  ASSUME NEW s \in Seq(Nat),
         \A i, j \in 1 .. Len(s) : i < j => s[i] < s[j]
  PROVE  IsFiniteSet(Range(s)) /\ Cardinality(Range(s)) = Len(s)
<1> DEFINE n == Len(s)
<1>1. /\ n \in Nat
      /\ s \in [1 .. n -> Nat]
      /\ Range(s) = {s[i] : i \in 1 .. n}
      /\ \A i \in 1 .. n : s[i] \in Nat
  BY LenProperties, RangeEquality, ElementOfSeq
<1>2. s \in [1 .. n -> Range(s)]
  BY <1>1
<1>3. \A i, j \in 1 .. n : s[i] = s[j] => i = j
  BY <1>1
<1>4. \A y \in Range(s) : \E i \in 1 .. n : s[i] = y
  BY <1>1
<1>5. s \in Bijection(1 .. n, Range(s))
  BY <1>2, <1>3, <1>4 DEF Bijection, Injection, Surjection, IsInjective
<1>6. ExistsBijection(1 .. n, Range(s))
  BY <1>5 DEF ExistsBijection
<1>7. IsFiniteSet(1 .. n) /\ Cardinality(1 .. n) = n
  BY <1>1, FS_Interval
<1> QED
  BY <1>6, <1>7, FS_Bijection

\* Type correctness of the queue for every value of the constants.
THEOREM TypeCorrect == Spec => []TypeOK
BY TypeAndShape, PTL

\* kMaxQueue bounds the deque (async_queue.cpp:31-42, 73-84), whatever races in
\* while a batch is away being posted and then pushed back in front.
THEOREM QueueStaysBounded == Spec => []QueueBounded
<1>1. Shape => QueueBounded
  BY DEF Shape, QueueBounded
<1> QED
  BY <1>1, TypeAndShape, PTL

\* No event is forgotten, duplicated or reordered inside the queue.
THEOREM ForgetsNothing == Spec => []NothingForgotten
<1>1. Init => LP!Init
  <2>1. <<>> \o <<>> = <<>>
    BY EmptySeq, ConcatEmptySeq
  <2> QED
    BY <2>1 DEF Init, LP!Init, Pending
<1>2. TypeOK /\ Shape /\ [Next]_vars => [LP!Next]_(LP!vars)
  BY StepRefines
<1>3. LP!Inv => NothingForgotten
  BY DEF LP!Inv, LP!Conserved, LP!Range, NothingForgotten, Settled, Range
<1>4. LP!Spec => []LP!Inv
  BY LP!LedgerConserves
<1> QED
  BY <1>1, <1>2, <1>3, <1>4, TypeAndShape, PTL DEF Spec, LP!Spec

\* Writing off a part x of the pending events adds exactly Len(x) to the number
\* of lost events.
LEMMA WriteOffCount ==
  ASSUME NEW x \in Seq(Nat), IsFiniteSet(lost),
         \A i, j \in 1 .. Len(x) : i < j => x[i] < x[j],
         lost \cap Range(x) = {}
  PROVE  /\ IsFiniteSet(lost \cup Range(x))
         /\ Cardinality(lost \cup Range(x)) = Cardinality(lost) + Len(x)
<1>1. IsFiniteSet(Range(x)) /\ Cardinality(Range(x)) = Len(x)
  BY IncreasingCount
<1>2. /\ IsFiniteSet(lost \cup Range(x))
      /\ Cardinality(lost \cup Range(x)) =
           Cardinality(lost) + Cardinality(Range(x)) - Cardinality(lost \cap Range(x))
  BY <1>1, FS_Union
<1>3. Cardinality(lost \cap Range(x)) = 0
  BY FS_EmptySet
<1>4. Cardinality(lost) \in Nat /\ Len(x) \in Nat
  BY FS_CardinalityType, LenProperties
<1> QED
  BY <1>1, <1>2, <1>3, <1>4

\* Once the worker has gone, everything offered before stop() is settled
\* (async_queue.cpp:109-112, 118-122, 160-164): the three exits all find or make
\* the queue empty, and what arrives later is newer than lateFrom.
THEOREM DrainIsComplete == Spec => []DrainComplete
<1> DEFINE I == TypeOK /\ Shape /\ NothingForgotten
<1>1. Init => DrainComplete
  BY DEF Init, DrainComplete, Exited
<1>2. I /\ I' /\ DrainComplete /\ [Next]_vars => DrainComplete'
  <2> SUFFICES ASSUME I, I', DrainComplete, [Next]_vars, Exited'
               PROVE  (1 .. (lateFrom - 1))' \subseteq Settled'
    BY DEF DrainComplete
  <2>1. lateFrom \in Nat /\ offered \in Nat /\ lateFrom' \in Nat /\ offered' \in Nat
    BY DEF TypeOK
  <2>2. CASE Exited
    <3>1. ~running /\ batch = <<>>
      BY <2>2 DEF Exited, Shape
    <3>2. lateFrom' = lateFrom
      BY <2>2, <3>1 DEF Exited, Next, Worker, Start, Stop, BudgetRunsOut, Enqueue,
         CollectBatch, CollectNothing, CheckDeadline, DropAndExit, SendOk,
         SendPermanent, SendRetryable, DecideRetry, EndBackoff, GiveUp, LoopEnd,
         history, workerVars, vars
    <3>3. delivered \subseteq delivered' /\ lost \subseteq lost'
      BY <2>2, <3>1 DEF Exited, Next, Worker, Start, Stop, BudgetRunsOut, Enqueue,
         CollectBatch, CollectNothing, CheckDeadline, DropAndExit, SendOk,
         SendPermanent, SendRetryable, DecideRetry, EndBackoff, GiveUp, LoopEnd,
         history, workerVars, vars
    <3> QED
      BY <2>2, <3>2, <3>3 DEF DrainComplete, Settled
  <2>3. CASE ~Exited
    <3>1. CollectNothing \/ DropAndExit \/ LoopEnd
      BY <2>3 DEF Exited, Next, Worker, Start, Stop, BudgetRunsOut, Enqueue,
         CollectBatch, CheckDeadline, SendOk, SendPermanent, SendRetryable,
         DecideRetry, EndBackoff, GiveUp, workerVars, vars
    <3>2. queue' = <<>> /\ batch' = <<>> /\ lateFrom' = lateFrom
      BY <3>1 DEF CollectNothing, DropAndExit, DropBatchAndQueue, LoopEnd, history,
         Exited, Shape
    <3>3. Pending' = <<>>
      BY <3>2, EmptySeq, ConcatEmptySeq DEF Pending
    <3>4. Range(Pending)' = {}
      BY <3>3 DEF Range
    <3>5. Settled' = 1 .. offered'
      BY <3>4 DEF NothingForgotten
    <3>6. lateFrom' <= offered' + 1
      BY DEF Shape
    <3>7. ASSUME NEW a \in Nat, NEW b \in Nat, a <= b + 1
          PROVE  1 .. (a - 1) \subseteq 1 .. b
      BY <3>7
    <3>8. 1 .. (lateFrom' - 1) \subseteq 1 .. offered'
      BY <2>1, <3>6, <3>7
    <3> QED
      BY <3>5, <3>8
  <2> QED
    BY <2>2, <2>3
<1> QED
  BY <1>1, <1>2, TypeAndShape, ForgetsNothing, PTL DEF Spec

\* dropped() never understates the losses and is exact until stop()
\* (async_queue.cpp:31-37, 73-95, 130-158).  The inductive invariant adds that
\* the set of lost events is finite; ForgetsNothing supplies that a part of the
\* pending events has as many elements as its length and none of them lost yet.
THEOREM CountsLosses == Spec => []LossesCounted
<1> DEFINE I == TypeOK /\ Shape /\ NothingForgotten
           C == IsFiniteSet(lost) /\ LossesCounted
<1>1. Init => C
  BY FS_EmptySet DEF Init, LossesCounted
<1>2. I /\ C /\ [Next]_vars => C'
  <2> SUFFICES ASSUME I, C, [Next]_vars
               PROVE  C'
    OBVIOUS
  <2>0. /\ dropped \in Nat /\ Cardinality(lost) \in Nat /\ offered \in Nat
        /\ Len(queue) \in Nat /\ Len(batch) \in Nat
        /\ queue \in Seq(Nat) /\ batch \in Seq(Nat)
        /\ ConstantsAssumption
    BY FS_CardinalityType, LenProperties, SeqMonotonic, ConstantsAssumption DEF TypeOK
  <2>1. /\ Pending \in Seq(Nat)
        /\ Len(Pending) = Len(batch) + Len(queue)
        /\ \A i \in 1 .. Len(batch) : Pending[i] = batch[i]
        /\ Range(Pending) = Range(batch) \cup Range(queue)
    <3>1. /\ batch \o queue \in Seq(Nat)
          /\ Len(batch \o queue) = Len(batch) + Len(queue)
          /\ \A i \in 1 .. Len(batch) + Len(queue) :
               (batch \o queue)[i] = IF i <= Len(batch) THEN batch[i]
                                     ELSE queue[i - Len(batch)]
          /\ Range(batch \o queue) = Range(batch) \cup Range(queue)
      BY <2>0, ConcatProperties, RangeConcatenation
    <3>2. ASSUME NEW i \in 1 .. Len(batch)
          PROVE  (batch \o queue)[i] = batch[i]
      BY <2>0, <3>1
    <3> QED
      BY <3>1, <3>2 DEF Pending
  <2>2. /\ \A i, j \in 1 .. Len(Pending) : i < j => Pending[i] < Pending[j]
        /\ lost \cap Range(Pending) = {}
        /\ offered + 1 \notin lost
    <3>1. lost \subseteq 1 .. offered
      BY DEF NothingForgotten, Settled
    <3>2. offered + 1 \notin 1 .. offered
      BY <2>0
    <3> QED
      BY <3>1, <3>2 DEF NothingForgotten, Settled
  <2>3. \A i, j \in 1 .. Len(batch) : i < j => batch[i] < batch[j]
    <3> SUFFICES ASSUME NEW i \in 1 .. Len(batch), NEW j \in 1 .. Len(batch), i < j
                 PROVE  batch[i] < batch[j]
      OBVIOUS
    <3>1. i \in 1 .. Len(Pending) /\ j \in 1 .. Len(Pending)
      BY <2>0, <2>1
    <3> QED
      BY <2>1, <2>2, <3>1
  \* What the steps do to the count: nothing, or they write off a part.
  <2>4. ASSUME UNCHANGED <<dropped, lost>>, lateFrom' = 0 => lateFrom = 0
        PROVE  C'
    BY <2>4 DEF LossesCounted
  <2>5. ASSUME NEW x \in Seq(Nat), NEW extra \in Nat,
               \A i, j \in 1 .. Len(x) : i < j => x[i] < x[j],
               lost \cap Range(x) = {},
               lost' = lost \cup Range(x),
               dropped' = dropped + extra + Len(x),
               lateFrom' = lateFrom, extra = 0 \/ lateFrom # 0
        PROVE  C'
    <3>1. /\ IsFiniteSet(lost')
          /\ Cardinality(lost') = Cardinality(lost) + Len(x)
      BY <2>5, WriteOffCount
    <3>2. Len(x) \in Nat
      BY LenProperties
    <3>3. dropped' >= Cardinality(lost')
      BY <2>0, <2>5, <3>1, <3>2 DEF LossesCounted
    <3>4. lateFrom' = 0 => dropped' = Cardinality(lost')
      BY <2>0, <2>5, <3>1, <3>2 DEF LossesCounted
    <3> QED
      BY <3>1, <3>3, <3>4 DEF LossesCounted
  <2>6. CASE Enqueue
    <3>1. CASE Len(queue) >= MaxQueue
      <4>1. lost' = lost \cup {offered + 1} /\ dropped' = dropped + 1
            /\ lateFrom' = lateFrom
        BY <2>0, <2>6, <3>1 DEF Enqueue, ConstantsAssumption
      <4>2. /\ IsFiniteSet(lost')
            /\ Cardinality(lost') = Cardinality(lost) + 1
        BY <2>2, <4>1, FS_AddElement
      <4>3. dropped' >= Cardinality(lost')
        BY <2>0, <4>1, <4>2 DEF LossesCounted
      <4>4. lateFrom' = 0 => dropped' = Cardinality(lost')
        BY <2>0, <4>1, <4>2 DEF LossesCounted
      <4> QED
        BY <4>2, <4>3, <4>4 DEF LossesCounted
    <3>2. CASE ~(Len(queue) >= MaxQueue)
      BY <2>4, <2>6, <3>2 DEF Enqueue
    <3> QED
      BY <3>1, <3>2
  <2>7. ASSUME NEW extra \in Nat, DropBatchAndQueue(extra), lateFrom # 0,
               lateFrom' = lateFrom
        PROVE  C'
    <3>1. lost' = lost \cup Range(Pending)
      BY <2>1, <2>7 DEF DropBatchAndQueue
    <3>2. dropped' = dropped + extra + Len(Pending)
      BY <2>1, <2>7 DEF DropBatchAndQueue, DropCount
    <3> QED
      BY <2>1, <2>2, <2>5, <2>7, <3>1, <3>2
  <2>8. CASE DropAndExit
    <3>1. lateFrom # 0
      BY <2>8 DEF DropAndExit, Shape
    <3> QED
      BY <2>7, <2>8, <3>1 DEF DropAndExit
  <2>9. CASE SendPermanent
    <3>1. CASE stopping
      BY <2>0, <2>7, <2>9, <3>1 DEF SendPermanent, Shape
    <3>2. CASE ~stopping
      <4>1. /\ lost' = lost \cup Range(batch)
            /\ dropped' = dropped + Len(batch)
            /\ lateFrom' = lateFrom
        BY <2>9, <3>2 DEF SendPermanent
      <4>2. dropped' = dropped + 0 + Len(batch) /\ 0 \in Nat
        BY <2>0, <4>1
      <4>3. lost \cap Range(batch) = {}
        BY <2>1, <2>2
      <4> QED
        BY <2>0, <2>3, <2>5, <4>1, <4>2, <4>3
    <3> QED
      BY <3>1, <3>2
  <2>10. CASE GiveUp
    <3>1. CASE stopping
      BY <2>7, <2>10, <3>1 DEF GiveUp, Shape
    <3>2. CASE ~stopping
      <4> DEFINE k == Overflow(batch, queue)
                 x == SubSeq(batch, 1, k)
      <4>1. k \in 0 .. Len(batch) /\ k \in Nat
        BY <2>0 DEF Overflow, ConstantsAssumption
      <4>2. /\ lost' = lost \cup Range(x)
            /\ dropped' = dropped + k
            /\ lateFrom' = lateFrom
        BY <2>10, <3>2 DEF GiveUp, RequeueFront
      <4> HIDE DEF k
      <4>3. /\ x \in Seq(Nat) /\ Len(x) = k
            /\ \A i \in 1 .. k : x[i] = batch[i]
            /\ Range(x) \subseteq Range(batch)
        BY <2>0, <4>1, LP!SplitAt DEF LP!Range, Range
      <4> HIDE DEF x
      <4>4. \A i, j \in 1 .. Len(x) : i < j => x[i] < x[j]
        <5> SUFFICES ASSUME NEW i \in 1 .. Len(x), NEW j \in 1 .. Len(x), i < j
                     PROVE  x[i] < x[j]
          OBVIOUS
        <5>1. i \in 1 .. Len(batch) /\ j \in 1 .. Len(batch)
          BY <2>0, <4>1, <4>3
        <5> QED
          BY <2>3, <4>3, <5>1
      <4>5. lost \cap Range(x) = {}
        BY <2>1, <2>2, <4>3
      <4>6. dropped' = dropped + 0 + Len(x) /\ 0 \in Nat
        BY <2>0, <4>1, <4>2, <4>3
      <4> QED
        BY <2>5, <4>2, <4>3, <4>4, <4>5, <4>6
    <3> QED
      BY <3>1, <3>2
  <2>11. CASE Stop
    <3>1. lateFrom' # 0 /\ UNCHANGED <<dropped, lost>>
      BY <2>0, <2>11 DEF Stop
    <3> QED
      BY <2>4, <3>1
  <2>12. CASE \/ Start \/ BudgetRunsOut \/ CollectBatch \/ CollectNothing
              \/ CheckDeadline \/ SendOk \/ SendRetryable \/ DecideRetry
              \/ EndBackoff \/ LoopEnd \/ UNCHANGED vars
    BY <2>4, <2>12 DEF Start, BudgetRunsOut, CollectBatch, CollectNothing,
       CheckDeadline, SendOk, SendRetryable, DecideRetry, EndBackoff, LoopEnd,
       history, vars
  <2> QED
    BY <2>6, <2>8, <2>9, <2>10, <2>11, <2>12 DEF Next, Worker
<1> QED
  BY <1>1, <1>2, TypeAndShape, ForgetsNothing, PTL DEF Spec

\* What a batch that is put back loses to the bound, it loses to a queue that is
\* full.
LEMMA OverflowFills ==
  ASSUME TypeOK, Shape, Overflow(batch, queue) # 0
  PROVE  Len(Requeued(batch, queue)) = MaxQueue
<1> DEFINE k == Overflow(batch, queue)
<1>1. /\ Len(queue) \in Nat /\ Len(batch) \in Nat /\ MaxQueue \in Nat /\ Len(queue) <= MaxQueue
      /\ batch \in Seq(Nat \ {0}) /\ queue \in Seq(Nat \ {0})
  BY LenProperties, ConstantsAssumption DEF TypeOK, Shape
<1>2. k \in 0 .. Len(batch) /\ Len(batch) - k + Len(queue) = MaxQueue
  BY <1>1 DEF Overflow
<1> HIDE DEF k
<1>3. /\ SubSeq(batch, k + 1, Len(batch)) \in Seq(Nat \ {0})
      /\ Len(SubSeq(batch, k + 1, Len(batch))) = Len(batch) - k
  BY <1>1, <1>2, CutType
<1>4. Len(SubSeq(batch, k + 1, Len(batch)) \o queue) = (Len(batch) - k) + Len(queue)
  BY <1>1, <1>3, ConcatProperties
<1> QED
  BY <1>2, <1>4 DEF Requeued, k

\* Until stop(), a transient outage loses nothing but what the bound refuses
\* (async_queue.cpp:31-42, 73-84): only a full queue and a permanent rejection
\* add to dropped().
THEOREM OutageIsHarmless == Spec => OutageLosesNothing
<1>1. TypeOK /\ Shape /\ [Next]_vars
        => [(dropped' > dropped /\ lateFrom = 0)
              => (rejects' > rejects \/ Len(queue') = MaxQueue)]_vars
  <2> SUFFICES ASSUME TypeOK, Shape, [Next]_vars, dropped' > dropped, lateFrom = 0
               PROVE  rejects' > rejects \/ Len(queue') = MaxQueue
    OBVIOUS
  <2>1. dropped \in Nat /\ rejects \in Nat /\ Len(queue) \in Nat /\ ~stopping
    BY LenProperties DEF TypeOK, Shape
  <2>2. dropped' # dropped
    BY <2>1
  <2>3. Enqueue \/ DropAndExit \/ SendPermanent \/ GiveUp
    BY <2>2 DEF Next, Worker, Start, Stop, BudgetRunsOut, CollectBatch, CollectNothing,
       CheckDeadline, SendOk, SendRetryable, DecideRetry, EndBackoff, LoopEnd, vars
  <2>4. CASE Enqueue
    <3>1. Len(queue) >= MaxQueue /\ queue' = queue
      BY <2>2, <2>4 DEF Enqueue
    <3> QED
      BY <2>1, <3>1, ConstantsAssumption DEF Shape
  <2>5. CASE DropAndExit
    BY <2>5 DEF DropAndExit, Shape
  <2>6. CASE SendPermanent
    BY <2>1, <2>6 DEF SendPermanent
  <2>7. CASE GiveUp
    <3>1. queue' = Requeued(batch, queue) /\ dropped' = dropped + Overflow(batch, queue)
      BY <2>1, <2>7 DEF GiveUp, RequeueFront
    <3>2. Overflow(batch, queue) # 0
      BY <2>1, <2>2, <3>1
    <3> QED
      BY <3>1, <3>2, OverflowFills
  <2> QED
    BY <2>3, <2>4, <2>5, <2>6, <2>7
<1> QED
  BY <1>1, TypeAndShape, PTL DEF Spec, OutageLosesNothing
-----------------------------------------------------------------------------
(* AsyncQueueAttempts: how often an event is posted after stop().          *)

\* How often an event can have been posted since stop(), by its place.
Posts ==
    /\ postsAfterStop \in [1 .. MaxEvents -> Nat]
    /\ \A e \in 1 .. MaxEvents :
         /\ postsAfterStop[e] <= 2
         /\ lateFrom = 0 \/ e > offered => postsAfterStop[e] = 0
         /\ e \in Range(queue) => postsAfterStop[e] <= 1
         /\ e \in Range(batch) =>
              /\ pc = "backoff" => postsAfterStop[e] = 0
              /\ pc = "check" \/ (pc \in {"send", "retry", "giveup"} /\ ~stopping)
                   => postsAfterStop[e] <= 1

I == TypeOK /\ Shape /\ NothingForgotten

LEMMA QueuesAttempts == AttemptsSpec => Spec
<1>1. AttemptsInit => Init
  BY DEF AttemptsInit
<1>2. [AttemptsNext]_attemptVars => [Next]_vars
  BY DEF AttemptsNext, attemptVars
<1> QED
  BY <1>1, <1>2, PTL DEF AttemptsSpec, Spec

\* An event is in the batch or in the queue, and was offered.
LEMMA OnePlace ==
  ASSUME I
  PROVE  /\ Range(batch) \cap Range(queue) = {}
         /\ \A e \in Range(batch) \cup Range(queue) : e <= offered
<1>1. /\ batch \in Seq(Nat) /\ queue \in Seq(Nat) /\ Len(batch) \in Nat /\ Len(queue) \in Nat
      /\ offered \in Nat
  BY LenProperties, SeqMonotonic DEF I, TypeOK
<1>2. /\ Len(Pending) = Len(batch) + Len(queue)
      /\ \A i \in 1 .. Len(batch) + Len(queue) :
           Pending[i] = IF i <= Len(batch) THEN batch[i] ELSE queue[i - Len(batch)]
      /\ Range(Pending) = Range(batch) \cup Range(queue)
  BY <1>1, ConcatProperties, RangeConcatenation DEF Pending
<1>3. ASSUME NEW e, e \in Range(batch), e \in Range(queue) PROVE FALSE
  <2>1. PICK i \in 1 .. Len(batch), j \in 1 .. Len(queue) : batch[i] = e /\ queue[j] = e
    BY <1>1, <1>3 DEF Range
  <2>2. /\ i \in 1 .. Len(Pending) /\ Len(batch) + j \in 1 .. Len(Pending) /\ i < Len(batch) + j
        /\ Pending[i] = e
    BY <1>1, <1>2, <2>1
  <2>3. Pending[Len(batch) + j] = e
    <3>1. /\ Len(batch) + j \in 1 .. Len(batch) + Len(queue)
          /\ ~(Len(batch) + j <= Len(batch)) /\ (Len(batch) + j) - Len(batch) = j
      BY <1>1
    <3>2. Pending[Len(batch) + j] = queue[(Len(batch) + j) - Len(batch)]
      BY <1>2, <3>1
    <3> QED
      BY <2>1, <3>1, <3>2
  <2>4. Pending[i] < Pending[Len(batch) + j]
    BY <2>2 DEF I, NothingForgotten
  <2>5. e \in Nat
    BY <1>1, <2>1
  <2> QED
    BY <2>2, <2>3, <2>4, <2>5
<1>4. ASSUME NEW e \in Range(Pending) PROVE e <= offered
  BY <1>1 DEF I, NothingForgotten
<1> QED
  BY <1>2, <1>3, <1>4

\* Both parts of a sequence that is cut have elements of it only.
LEMMA CutRange ==
  ASSUME NEW S, NEW s \in Seq(S), NEW n \in 0 .. Len(s)
  PROVE  /\ Range(SubSeq(s, 1, n)) \subseteq Range(s)
         /\ Range(SubSeq(s, n + 1, Len(s))) \subseteq Range(s)
<1> DEFINE x == SubSeq(s, 1, n)
           y == SubSeq(s, n + 1, Len(s))
<1>1. x \in Seq(S) /\ y \in Seq(S) /\ x \o y = s
  BY CutType
<1> HIDE DEF x, y
<1>2. Range(x \o y) = Range(x) \cup Range(y)
  BY <1>1, RangeConcatenation
<1>3. Range(x) \subseteq Range(s) /\ Range(y) \subseteq Range(s)
  BY <1>1, <1>2
<1> QED
  BY <1>3 DEF x, y

LEMMA RequeuedRange ==
  ASSUME TypeOK
  PROVE  Range(Requeued(batch, queue)) \subseteq Range(batch) \cup Range(queue)
<1> DEFINE k == Overflow(batch, queue)
           y == SubSeq(batch, k + 1, Len(batch))
<1>1. /\ batch \in Seq(Nat \ {0}) /\ queue \in Seq(Nat \ {0})
      /\ Len(batch) \in Nat /\ Len(queue) \in Nat /\ MaxQueue \in Nat
  BY LenProperties, ConstantsAssumption DEF TypeOK
<1>2. k \in 0 .. Len(batch)
  BY <1>1 DEF Overflow
<1> HIDE DEF k
<1>3. y \in Seq(Nat \ {0}) /\ Range(y) \subseteq Range(batch)
  BY <1>1, <1>2, CutType, CutRange
<1> HIDE DEF y
<1>4. Range(y \o queue) = Range(y) \cup Range(queue)
  BY <1>1, <1>3, RangeConcatenation
<1> QED
  BY <1>3, <1>4 DEF Requeued, k, y
-----------------------------------------------------------------------------
\* A step that begins no POST: the counts stay, and so do the places, or they
\* move as the hypotheses say.
LEMMA KeptPosts ==
  ASSUME Posts, UNCHANGED postsAfterStop,
         lateFrom' = lateFrom \/ lateFrom = 0, lateFrom' = 0 => lateFrom = 0,
         offered \in Nat, offered' \in Nat, offered <= offered',
         \A e \in Range(queue)' : e \in Range(queue) \/ e > offered
            \/ (e \in Range(batch) /\ (pc = "check" \/ (pc \in {"send", "retry", "giveup"} /\ ~stopping))),
         \A e \in Range(batch)' :
            \/ /\ e \in Range(batch)
               /\ pc' = pc /\ stopping' = stopping
            \/ e \in Range(queue) /\ pc' = "check"
            \/ /\ e \in Range(batch)
               /\ pc \in {"send", "retry"} /\ pc' \in {"retry", "giveup"} /\ stopping' = stopping
            \/ pc' = "backoff" /\ lateFrom = 0
            \/ pc' \in {"dropall", "tail"}
  PROVE  Posts'
BY DEF Posts

\* A POST begins, after stop() or before.
LEMMA BegunPosts ==
  ASSUME Posts, I, UNCHANGED <<queue, batch, offered, lateFrom>>,
         (pc = "check" /\ stopping' = (lateFrom # 0)) \/ pc = "backoff", pc' = "send",
         postsAfterStop' = [e \in 1 .. MaxEvents |->
            IF lateFrom # 0 /\ e \in Range(batch) THEN postsAfterStop[e] + 1 ELSE postsAfterStop[e]]
  PROVE  Posts'
<1>1. postsAfterStop' \in [1 .. MaxEvents -> Nat]
  BY DEF Posts
<1>2. ASSUME NEW e \in 1 .. MaxEvents, lateFrom # 0, e \in Range(batch)
      PROVE  /\ e \notin Range(queue) /\ e <= offered /\ offered \in Nat
             /\ postsAfterStop[e] \in Nat
             /\ pc = "check" => postsAfterStop[e] <= 1 /\ stopping'
             /\ pc = "backoff" => postsAfterStop[e] = 0
  BY <1>2, OnePlace DEF Posts, I, TypeOK
<1>3. ASSUME NEW e \in 1 .. MaxEvents, lateFrom # 0, e \in Range(batch)
      PROVE  /\ e \notin Range(queue)' /\ ~(e > offered)
             /\ postsAfterStop'[e] <= 2 /\ (~stopping' => postsAfterStop'[e] <= 1)
  <2>1. postsAfterStop'[e] = postsAfterStop[e] + 1
    BY <1>3
  <2> QED
    BY <1>2, <1>3, <2>1
<1>4. ASSUME NEW e \in 1 .. MaxEvents, ~(lateFrom # 0 /\ e \in Range(batch))
      PROVE  postsAfterStop'[e] = postsAfterStop[e]
  BY <1>4
<1>5. ASSUME NEW e \in 1 .. MaxEvents
      PROVE  /\ postsAfterStop'[e] <= 2
             /\ lateFrom' = 0 \/ e > offered' => postsAfterStop'[e] = 0
             /\ e \in Range(queue)' => postsAfterStop'[e] <= 1
             /\ e \in Range(batch)' /\ ~stopping' => postsAfterStop'[e] <= 1
  <2>1. CASE lateFrom # 0 /\ e \in Range(batch)
    BY <1>3, <2>1
  <2>2. CASE ~(lateFrom # 0 /\ e \in Range(batch))
    BY <1>4, <2>2 DEF Posts
  <2> QED
    BY <2>1, <2>2
<1> QED
  BY <1>1, <1>5 DEF Posts
-----------------------------------------------------------------------------
LEMMA NextPosts == ASSUME I, Posts, [AttemptsNext]_attemptVars PROVE Posts'
<1>0. /\ offered \in Nat /\ lateFrom \in Nat
      /\ queue \in Seq(Nat \ {0}) /\ Len(queue) \in Nat
      /\ pc # "unborn" => (running <=> lateFrom = 0)
      /\ pc = "unborn" => ~running /\ lateFrom = 0
      /\ pc \notin Holding => batch = <<>>
      /\ Range(<<>>) = {}
  BY LenProperties, EmptySeq DEF I, TypeOK, Shape, Range
<1>1. CASE UNCHANGED attemptVars
  BY <1>1 DEF attemptVars, vars, Posts
<1> SUFFICES ASSUME AttemptsNext PROVE Posts'
  BY <1>1
<1>2. ASSUME ~PostBegins PROVE UNCHANGED postsAfterStop
  BY <1>2 DEF AttemptsNext, Posts
<1>3. CASE Start \/ Stop \/ BudgetRunsOut
  <2>1. ~PostBegins /\ (lateFrom' = lateFrom \/ lateFrom = 0) /\ (lateFrom' = 0 => lateFrom = 0)
        /\ UNCHANGED <<queue, batch, stopping, offered>>
        /\ (pc' = pc \/ (pc' = "collect" /\ batch = <<>>))
    BY <1>0, <1>3 DEF Holding, Start, Stop, BudgetRunsOut, PostBegins, workerVars, history
  <2> QED
    BY <1>0, <1>2, <2>1, KeptPosts
<1>4. CASE Enqueue
  <2>1. ~PostBegins /\ offered' = offered + 1 /\ UNCHANGED <<batch, pc, stopping, lateFrom>>
    BY <1>4 DEF Enqueue, PostBegins, workerVars
  <2>2. Range(queue') \subseteq Range(queue) \cup {offered + 1}
    <3>1. CASE queue' = queue
      BY <3>1
    <3>2. CASE queue' = Append(queue, offered + 1)
      BY <1>0, <3>2, AppendProperties DEF Range
    <3> QED
      BY <1>4, <3>1, <3>2 DEF Enqueue
  <2>3. \A e \in Range(queue)' : e \in Range(queue) \/ e > offered
    BY <1>0, <2>2
  <2> QED
    BY <1>0, <1>2, <2>1, <2>3, KeptPosts
<1>5. CASE CollectBatch
  <2> DEFINE n == MinOf(BatchSize, Len(queue))
  <2>1. n \in 0 .. Len(queue)
    BY <1>0, ConstantsAssumption DEF MinOf
  <2>2. /\ batch' = SubSeq(queue, 1, n) /\ queue' = SubSeq(queue, n + 1, Len(queue))
        /\ pc' = "check" /\ ~PostBegins /\ UNCHANGED <<stopping, offered, lateFrom>>
    BY <1>5 DEF CollectBatch, PostBegins, history
  <2> HIDE DEF n
  <2>3. Range(batch') \subseteq Range(queue) /\ Range(queue') \subseteq Range(queue)
    BY <1>0, <2>1, <2>2, CutRange
  <2> QED
    BY <1>0, <1>2, <2>2, <2>3, KeptPosts
<1>6. CASE CollectNothing \/ LoopEnd
  <2>1. batch = <<>> /\ ~PostBegins /\ UNCHANGED <<queue, batch, stopping, offered, lateFrom>>
    BY <1>0, <1>6 DEF Holding, CollectNothing, LoopEnd, PostBegins, history
  <2> QED
    BY <1>0, <1>2, <2>1, KeptPosts
<1>7. CASE CheckDeadline
  <2>1. /\ pc = "check" /\ stopping' = (lateFrom # 0)
        /\ pc' \in {"dropall", "send"}
        /\ UNCHANGED <<queue, batch, offered, lateFrom>>
    BY <1>0, <1>7 DEF CheckDeadline, history
  <2>2. CASE pc' = "send"
    BY <2>1, <2>2, BegunPosts DEF AttemptsNext, PostBegins
  <2>3. CASE pc' = "dropall"
    BY <1>0, <1>2, <2>1, <2>3, KeptPosts DEF PostBegins
  <2> QED
    BY <2>1, <2>2, <2>3
<1>8. CASE EndBackoff
  <2>1. pc = "backoff" /\ pc' = "send" /\ UNCHANGED <<queue, batch, offered, lateFrom>>
    BY <1>8 DEF EndBackoff, history
  <2> QED
    BY <2>1, BegunPosts DEF AttemptsNext, PostBegins
<1>9. CASE SendOk \/ SendPermanent \/ DropAndExit
  <2>1. batch' = <<>> /\ (queue' = queue \/ queue' = <<>>) /\ ~PostBegins
        /\ UNCHANGED <<offered, lateFrom>>
    BY <1>9 DEF SendOk, SendPermanent, DropAndExit, DropBatchAndQueue, PostBegins
  <2> QED
    BY <1>0, <1>2, <2>1, KeptPosts
<1>10. CASE SendRetryable
  <2>1. /\ pc = "send" /\ pc' = "retry" /\ ~PostBegins
        /\ UNCHANGED <<queue, batch, stopping, offered, lateFrom>>
    BY <1>10 DEF SendRetryable, PostBegins, history
  <2> QED
    BY <1>0, <1>2, <2>1, KeptPosts
<1>11. CASE DecideRetry
  <2>1. /\ pc = "retry" /\ (pc' = "giveup" \/ (pc' = "backoff" /\ lateFrom = 0)) /\ ~PostBegins
        /\ UNCHANGED <<queue, batch, stopping, offered, lateFrom>>
    BY <1>0, <1>11 DEF DecideRetry, PostBegins, history
  <2> QED
    BY <1>0, <1>2, <2>1, KeptPosts
<1>12. CASE GiveUp
  <2>1. /\ pc = "giveup" /\ ~PostBegins /\ batch' = <<>> /\ UNCHANGED <<offered, lateFrom>>
        /\ queue' = <<>> \/ (~stopping /\ queue' = Requeued(batch, queue))
    BY <1>12 DEF GiveUp, DropBatchAndQueue, RequeueFront, PostBegins
  <2>2. Range(Requeued(batch, queue)) \subseteq Range(batch) \cup Range(queue)
    BY RequeuedRange DEF I
  <2> QED
    BY <1>0, <1>2, <2>1, <2>2, KeptPosts
<1> QED
  BY <1>3, <1>4, <1>5, <1>6, <1>7, <1>8, <1>9, <1>10, <1>11, <1>12 DEF AttemptsNext, Next, Worker

\* After stop() no event is posted more than twice, however long the collector
\* stays down (async_queue.cpp:57-71, 108-164).
THEOREM PostsAreFew == AttemptsSpec => []AtMostTwoPostsAfterStop
<1>1. AttemptsInit => Posts
  <2> SUFFICES ASSUME AttemptsInit PROVE Posts
    OBVIOUS
  <2>1. queue = <<>> /\ batch = <<>> /\ postsAfterStop = [e \in 1 .. MaxEvents |-> 0]
    BY DEF AttemptsInit, Init
  <2> QED
    BY <2>1 DEF Posts, Range
<1>2. I /\ Posts /\ [AttemptsNext]_attemptVars => Posts'
  BY NextPosts
<1>3. Posts => AtMostTwoPostsAfterStop
  BY DEF Posts, AtMostTwoPostsAfterStop
<1>4. AttemptsSpec => [](TypeOK /\ Shape) /\ []NothingForgotten
  BY QueuesAttempts, TypeAndShape, ForgetsNothing, PTL
<1> QED
  BY <1>1, <1>2, <1>3, <1>4, PTL DEF AttemptsSpec, I
=============================================================================
