---------------------------- MODULE CaptureProofs ----------------------------
(***************************************************************************)
(* What holds of the capture pipeline for any number of threads, throw     *)
(* sites and classes, any queue and aggregator size and any number of      *)
(* throws.                                                                 *)
(*                                                                         *)
(* The counts are sums over finite sets (FiniteFacts).  The invariant has  *)
(* types, the balance of the counts, the marks of the source cache, and    *)
(* what each phase of the VM's life leaves behind.  The queue is the       *)
(* ledger of DeliveryLedger, whose own theorem says where every offered    *)
(* event is; with the last phase nothing waits, so everything offered is   *)
(* delivered or lost.                                                      *)
(***************************************************************************)
EXTENDS Capture, FiniteFacts, SequenceTheorems, FiniteSetTheorems, TLAPS

LP == INSTANCE DeliveryLedgerProofs WITH
    pending <- waiting, RefuseAt <- MaxQueue, Capacity <- MaxQueue + BatchSize
-----------------------------------------------------------------------------
(* The invariant.                                                          *)

Message ==
    [kind : {"event", "summary", "source", "agent_start"},
     of : Fingerprints \cup Classes \cup {"none", "agent"},
     occurrences : Nat, hit : Nat]

SummaryMessages == {m \in Message : m.kind = "summary"}

CallbackState ==
    [at : {"idle", "decide", "source", "ship", "event", "record", "drain", "flush"},
     fp : Fingerprints \cup {"none"}, hit : Nat, out : SUBSET SummaryMessages]

QueueTypes ==
    /\ offered \in Nat
    /\ content \in Seq(Message)
    /\ Len(content) = offered
    /\ Len(waiting) <= MaxQueue + BatchSize
    /\ worker \in {"unborn", "running", "stopping", "gone"}
    /\ early \in 0 .. offered

\* A callback has a fingerprint while it is under way, and messages only while
\* it is flushing.
MayBe(r) ==
    /\ r \in CallbackState
    /\ IsFiniteSet(r.out)
    /\ r.at # "idle" => r.fp \in Fingerprints
    /\ r.at # "flush" => r.out = {}

ThreadTypes ==
    /\ thread \in [Threads -> CallbackState]
    /\ \A t \in Threads : MayBe(thread[t])

LifeTypes ==
    /\ started \in BOOLEAN
    /\ life \in {"unloaded", "loaded", "enabled", "live", "disabled", "flushing",
                 "joining", "dead"}
    /\ summaries \in SUBSET SummaryMessages
    /\ IsFiniteSet(summaries)
    /\ life # "flushing" => summaries = {}

CountTypes ==
    /\ hits \in [Fingerprints -> Nat]
    /\ overflow \in [Fingerprints -> Nat]
    /\ failed \in [Fingerprints -> Nat]
    /\ DOMAIN pending \subseteq Fingerprints
    /\ pending \in [DOMAIN pending -> [count : Nat, hit : Nat]]
    /\ IsFiniteSet(DOMAIN pending)
    /\ Cardinality(DOMAIN pending) <= MaxEntries

Types == QueueTypes /\ ThreadTypes /\ LifeTypes /\ CountTypes /\ shipped \subseteq loaded

\* The sum: OccurrencesConserved without the bounds it states with it.
Balance ==
    \A f \in Fingerprints :
        hits[f] = InHand(f) + Aggregated(f) + Sent(f, 1 .. Len(content))
                  + overflow[f] + failed[f]

\* A class on its way to the queue, in it or through it is marked, and a class
\* is taken to the queue by one callback, once.
Marked ==
    /\ SourceShippedOnce
    /\ \A i \in Sources(1 .. Len(content)) : content[i].of \in shipped
    /\ \A t \in Threads : thread[t].at = "ship" =>
         /\ ClassOf[thread[t].fp] \in shipped
         /\ \A i \in Sources(1 .. Len(content)) : content[i].of # ClassOf[thread[t].fp]
    /\ \A t, u \in Threads :
         thread[t].at = "ship" /\ thread[u].at = "ship"
           /\ ClassOf[thread[t].fp] = ClassOf[thread[u].fp] => t = u

\* What is over when the lifecycle callbacks have come so far.
Phases ==
    /\ started <=> life \in {"enabled", "live"}
    /\ worker = "stopping" => life = "joining"
    /\ worker = "gone" => /\ life \in {"joining", "dead"}
                          /\ \A i \in 1 .. Len(waiting) : waiting[i] > early
    /\ life = "dead" => worker = "gone"
    /\ ~cutShort =>
         /\ life \in {"disabled", "flushing", "joining", "dead"} =>
              \A t \in Threads : thread[t].at = "idle"
         /\ life \in {"flushing", "joining", "dead"} => pending = <<>>
         /\ life \in {"joining", "dead"} => early = offered

\* The throws at f that a callback in state r has in hand.
Holds(r, f) ==
    (IF r.fp = f /\ r.at \in {"source", "ship", "event", "record"} THEN 1 ELSE 0)
    + Occurrences({m \in r.out : m.of = f})

\* The throws at f that a message stands for.
Carries(m, f) ==
    IF m.kind \in {"event", "summary"} /\ m.of = f THEN m.occurrences ELSE 0

USE CaptureAssumption
-----------------------------------------------------------------------------
(* Occurrences in a set of messages.                                       *)

LEMMA OccurrencesType ==
  ASSUME NEW S \in SUBSET Message, IsFiniteSet(S)
  PROVE  Occurrences(S) \in Nat
<1> DEFINE fun == [m \in S |-> m.occurrences]
<1>1. \A m \in S : fun[m] \in Nat
  BY DEF Message
<1> HIDE DEF fun
<1> QED
  BY <1>1, SumType DEF Occurrences, fun

LEMMA OccurrencesNone == Occurrences({}) = 0
BY SumEmpty DEF Occurrences

LEMMA OccurrencesTake ==
  ASSUME NEW S \in SUBSET Message, IsFiniteSet(S), NEW msg \in S
  PROVE  Occurrences(S) = msg.occurrences + Occurrences(S \ {msg})
<1> DEFINE fun  == [m \in S |-> m.occurrences]
           rest == [m \in S \ {msg} |-> m.occurrences]
<1>1. (\A m \in S : fun[m] \in Nat) /\ fun[msg] = msg.occurrences
      /\ \A m \in S \ {msg} : fun[m] = rest[m]
  BY DEF Message
<1>2. IsFiniteSet(S \ {msg})
  BY FS_Subset
<1> HIDE DEF fun, rest
<1>3. SumFunctionOnSet(fun, S) = fun[msg] + SumFunctionOnSet(fun, S \ {msg})
  BY <1>1, SumRemove
<1>4. SumFunctionOnSet(fun, S \ {msg}) = SumFunctionOnSet(rest, S \ {msg})
  BY <1>1, <1>2, SumSame
<1> QED
  BY <1>1, <1>3, <1>4 DEF Occurrences, fun, rest

LEMMA OccurrencesOne == ASSUME NEW m \in Message PROVE Occurrences({m}) = m.occurrences
<1>1. {m} \ {m} = {} /\ IsFiniteSet({m}) /\ m.occurrences \in Nat
  BY FS_Singleton DEF Message
<1>2. Occurrences({m}) = m.occurrences + Occurrences({m} \ {m})
  BY <1>1, OccurrencesTake
<1> QED
  BY <1>1, <1>2, OccurrencesNone

MessagesAt(S, f) == {m \in S : m.of = f}

\* A flush passes msg on.
LEMMA OccurrencesDrop ==
  ASSUME NEW S \in SUBSET SummaryMessages, IsFiniteSet(S), NEW msg \in S, NEW f
  PROVE  /\ Occurrences(MessagesAt(S, f)) \in Nat
         /\ Occurrences(MessagesAt(S \ {msg}, f)) \in Nat
         /\ Carries(msg, f) \in Nat
         /\ Occurrences(MessagesAt(S, f))
              = Carries(msg, f) + Occurrences(MessagesAt(S \ {msg}, f))
<1> USE DEF MessagesAt
<1> DEFINE A == MessagesAt(S, f)
           B == MessagesAt(S \ {msg}, f)
<1>1. A \in SUBSET Message /\ B \in SUBSET Message /\ msg \in Message /\ msg.kind = "summary"
  BY DEF SummaryMessages
<1>2. IsFiniteSet(A) /\ IsFiniteSet(B)
  <2>1. A \in SUBSET S /\ B \in SUBSET S
    OBVIOUS
  <2> HIDE DEF A, B
  <2> QED
    BY <2>1, FS_Subset
<1>3. msg.of = f => msg \in A /\ B = A \ {msg}
  OBVIOUS
<1>4. msg.of # f => A = B
  OBVIOUS
<1> HIDE DEF A, B
<1>5. Occurrences(A) \in Nat /\ Occurrences(B) \in Nat
  BY <1>1, <1>2, OccurrencesType
<1>6. msg.occurrences \in Nat
  BY <1>1 DEF Message
<1>7. Occurrences(A) = Carries(msg, f) + Occurrences(B)
  <2>1. CASE msg.of = f
    BY <1>1, <1>2, <1>3, <2>1, OccurrencesTake DEF Carries
  <2>2. CASE msg.of # f
    BY <1>4, <1>5, <2>2 DEF Carries
  <2> QED
    BY <2>1, <2>2
<1> QED
  BY <1>5, <1>6, <1>7 DEF A, B, Carries

\* A drain turns each entry of the aggregator into one summary.
LEMMA SummariesType ==
  ASSUME CountTypes PROVE Summaries \in SUBSET SummaryMessages /\ IsFiniteSet(Summaries)
<1> DEFINE D == DOMAIN pending
           g == [f \in D |-> SummaryMsg(f, pending[f].count, pending[f].hit)]
<1>1. Summaries \in SUBSET SummaryMessages
  BY DEF CountTypes, Summaries, SummaryMsg, SummaryMessages, Message
<1>2. g \in Surjection(D, Summaries)
  BY DEF Surjection, Summaries
<1>3. IsFiniteSet(D)
  BY DEF CountTypes
<1> HIDE DEF g, D
<1>4. IsFiniteSet(Summaries)
  BY <1>2, <1>3, FS_Surjection
<1> QED
  BY <1>1, <1>4

LEMMA SummariesHold ==
  ASSUME CountTypes, NEW f
  PROVE  /\ Occurrences({m \in Summaries : m.of = f}) = Aggregated(f)
         /\ Aggregated(f) \in Nat
<1> DEFINE msg == SummaryMsg(f, pending[f].count, pending[f].hit)
<1>1. CASE f \in DOMAIN pending
  <2>1. {m \in Summaries : m.of = f} = {msg}
    BY <1>1 DEF Summaries, SummaryMsg
  <2>2. msg \in Message /\ msg.occurrences = pending[f].count /\ pending[f].count \in Nat
    BY <1>1 DEF SummaryMsg, Message, CountTypes
  <2> HIDE DEF msg
  <2> QED
    BY <1>1, <2>1, <2>2, OccurrencesOne DEF Aggregated
<1>2. CASE f \notin DOMAIN pending
  <2>1. {m \in Summaries : m.of = f} = {}
    BY <1>2 DEF Summaries, SummaryMsg
  <2> QED
    BY <1>2, <2>1, OccurrencesNone DEF Aggregated
<1> QED
  BY <1>1, <1>2

\* One throw, at f.
One(f, g) == IF f = g THEN 1 ELSE 0

LEMMA OneType == \A f, g : One(f, g) \in Nat
BY DEF One

\* The throw a callback at a place still has to record itself.
Own(fp, place, f) == IF place \in {"source", "ship", "event", "record"} THEN One(fp, f) ELSE 0
-----------------------------------------------------------------------------
(* What the pieces of a step do to the types and to the balance.           *)

LEMMA HoldsType ==
  ASSUME NEW r, MayBe(r), NEW f
  PROVE  /\ Holds(r, f) \in Nat
         /\ Occurrences({m \in r.out : m.of = f}) \in Nat
         /\ r.out = {} => Occurrences({m \in r.out : m.of = f}) = 0
<1> DEFINE A == {m \in r.out : m.of = f}
<1>1. A \in SUBSET r.out /\ r.out \in SUBSET Message
  BY DEF MayBe, CallbackState, SummaryMessages
<1>2. r.out = {} => A = {}
  OBVIOUS
<1> HIDE DEF A
<1>3. IsFiniteSet(A) /\ A \in SUBSET Message
  BY <1>1, FS_Subset DEF MayBe
<1>4. Occurrences(A) \in Nat
  BY <1>3, OccurrencesType
<1> QED
  BY <1>2, <1>4, OccurrencesNone DEF Holds, A

\* One callback moves on.
LEMMA MoveTypes ==
  ASSUME ThreadTypes, NEW t \in Threads, NEW r, MayBe(r), thread' = [thread EXCEPT ![t] = r]
  PROVE  ThreadTypes'
<1>1. r \in CallbackState
  BY DEF MayBe
<1>2. thread' \in [Threads -> CallbackState]
  BY <1>1 DEF ThreadTypes
<1>3. \A u \in Threads : thread'[u] = IF u = t THEN r ELSE thread[u]
  BY DEF ThreadTypes
<1>4. \A u \in Threads : MayBe(thread'[u])
  BY <1>3 DEF ThreadTypes
<1> QED
  BY <1>2, <1>4 DEF ThreadTypes, MayBe

LEMMA InHandType ==
  ASSUME ThreadTypes, LifeTypes, NEW f
  PROVE  InHand(f) \in Nat /\ Occurrences({m \in summaries : m.of = f}) \in Nat
<1> DEFINE F == [u \in Threads |-> HeldBy(u, f)]
           A == {m \in summaries : m.of = f}
<1>1. \A u \in Threads : F[u] \in Nat
  BY HoldsType DEF HeldBy, Holds, ThreadTypes
<1>2. A \in SUBSET summaries /\ summaries \in SUBSET Message /\ IsFiniteSet(summaries)
  BY DEF LifeTypes, SummaryMessages
<1> HIDE DEF F, A
<1>3. SumFunctionOnSet(F, Threads) \in Nat
  BY <1>1, SumType
<1>4. Occurrences(A) \in Nat
  BY <1>2, FS_Subset, OccurrencesType
<1> QED
  BY <1>3, <1>4 DEF InHand, F, A

LEMMA MoveInHand ==
  ASSUME ThreadTypes, LifeTypes, NEW t \in Threads, NEW r, MayBe(r),
         thread' = [thread EXCEPT ![t] = r], UNCHANGED summaries, NEW f
  PROVE  /\ InHand(f) \in Nat /\ InHand(f)' \in Nat
         /\ InHand(f)' + Holds(thread[t], f) = InHand(f) + Holds(r, f)
<1> DEFINE F == [u \in Threads |-> HeldBy(u, f)]
           G == [u \in Threads |-> Holds(thread'[u], f)]
           s == Occurrences({m \in summaries : m.of = f})
<1>1. \A u \in Threads : F[u] = Holds(thread[u], f) /\ F[u] \in Nat
  BY HoldsType DEF HeldBy, Holds, ThreadTypes
<1>2. \A u \in Threads : G[u] = IF u = t THEN Holds(r, f) ELSE F[u]
  BY <1>1 DEF ThreadTypes
<1>3. Holds(r, f) \in Nat
  BY HoldsType
<1>4. InHand(f) = SumFunctionOnSet(F, Threads) + s
  BY DEF InHand
<1>5. InHand(f)' = SumFunctionOnSet(G, Threads) + s
  BY DEF InHand, HeldBy, Holds, Occurrences
<1>6. s \in Nat
  BY InHandType
<1> HIDE DEF F, G, s
<1>7. /\ SumFunctionOnSet(F, Threads) \in Nat /\ SumFunctionOnSet(G, Threads) \in Nat
      /\ SumFunctionOnSet(G, Threads) + F[t] = SumFunctionOnSet(F, Threads) + G[t]
  BY <1>1, <1>2, <1>3, SumChange
<1> QED
  BY <1>1, <1>2, <1>3, <1>4, <1>5, <1>6, <1>7

\* enqueue(): one more message.
LEMMA EnqueueTypes ==
  ASSUME QueueTypes, NEW msg \in Message, Enqueue(msg)
  PROVE  /\ QueueTypes'
         /\ offered' = offered + 1
         /\ Len(content') = Len(content) + 1
         /\ content'[Len(content) + 1] = msg
         /\ \A i \in 1 .. Len(content) : content'[i] = content[i]
<1>1. /\ content' \in Seq(Message)
      /\ Len(content') = Len(content) + 1
      /\ content'[Len(content) + 1] = msg
      /\ \A i \in 1 .. Len(content) : content'[i] = content[i]
  BY AppendProperties DEF QueueTypes, Enqueue
<1>2. offered' = offered + 1 /\ Len(waiting') <= MaxQueue + BatchSize
  <2>1. CASE Ledger!Accept
    <3>1. waiting' = Append(waiting, offered + 1) /\ Len(waiting) < MaxQueue + BatchSize
      BY <2>1 DEF Ledger!Accept
    <3> QED
      BY <2>1, <3>1 DEF Ledger!Accept
  <2>2. CASE Ledger!Refuse
    BY <2>2 DEF Ledger!Refuse, QueueTypes
  <2> QED
    BY <2>1, <2>2 DEF Enqueue
<1> QED
  BY <1>1, <1>2 DEF QueueTypes, Enqueue

LEMMA SentType ==
  ASSUME QueueTypes, NEW f, NEW ids \in SUBSET (1 .. Len(content))
  PROVE  /\ IsFiniteSet(Messages(f, ids))
         /\ Sent(f, ids) \in Nat
<1> DEFINE M == Messages(f, ids)
           fun == [i \in M |-> content[i].occurrences]
<1>1. M \in SUBSET (1 .. Len(content)) /\ Len(content) \in Nat
  BY DEF Messages, QueueTypes
<1>2. \A i \in M : fun[i] \in Nat
  <2>1. \A i \in M : content[i] \in Message
    BY <1>1, ElementOfSeq DEF QueueTypes
  <2> QED
    BY <2>1 DEF Message
<1> HIDE DEF M, fun
<1>3. IsFiniteSet(M)
  <2>1. IsFiniteSet(1 .. Len(content))
    BY <1>1, FS_Interval
  <2> QED
    BY <1>1, <2>1, FS_Subset
<1>4. SumFunctionOnSet(fun, M) \in Nat
  BY <1>2, <1>3, SumType
<1> QED
  BY <1>3, <1>4 DEF M, fun, Sent

LEMMA EnqueueSends ==
  ASSUME QueueTypes, NEW msg \in Message, Enqueue(msg), NEW f
  PROVE  /\ Sent(f, 1 .. Len(content)) \in Nat
         /\ Sent(f, 1 .. Len(content))' = Sent(f, 1 .. Len(content)) + Carries(msg, f)
<1> DEFINE n   == Len(content)
           M   == Messages(f, 1 .. n)
           N   == {i \in 1 .. n + 1 :
                     content'[i].kind \in {"event", "summary"} /\ content'[i].of = f}
           fun == [i \in M |-> content[i].occurrences]
           gun == [i \in N |-> content'[i].occurrences]
<1>0. n \in Nat /\ n + 1 \notin 1 .. n /\ 1 .. n + 1 = (1 .. n) \cup {n + 1}
  BY DEF QueueTypes
<1>1. Sent(f, 1 .. n) = SumFunctionOnSet(fun, M)
  BY DEF Sent
<1>2. Sent(f, 1 .. n)' = SumFunctionOnSet(gun, N)
  BY EnqueueTypes DEF Sent, Messages
<1>3. IsFiniteSet(M) /\ SumFunctionOnSet(fun, M) \in Nat
  BY SentType DEF Sent
<1>4. \A i \in 1 .. n : content'[i] = content[i] /\ content[i] \in Message
  BY EnqueueTypes, ElementOfSeq DEF QueueTypes
<1>5. content'[n + 1] = msg /\ msg.occurrences \in Nat
  BY EnqueueTypes DEF Message
<1>6. M \in SUBSET (1 .. n)
  BY DEF Messages
<1>7. \A i \in M : fun[i] \in Nat /\ fun[i] = content[i].occurrences
  BY <1>4, <1>6 DEF Message
<1>8. N = IF msg.kind \in {"event", "summary"} /\ msg.of = f THEN M \cup {n + 1} ELSE M
  BY <1>0, <1>4, <1>5 DEF Messages
<1>9. \A i \in N : gun[i] = content'[i].occurrences
  OBVIOUS
<1> HIDE DEF n, M, N, fun, gun
<1>10. SumFunctionOnSet(gun, N) = SumFunctionOnSet(fun, M) + Carries(msg, f)
  <2>1. CASE msg.kind \in {"event", "summary"} /\ msg.of = f
    <3>1. N = M \cup {n + 1} /\ n + 1 \notin M
      BY <1>0, <1>6, <1>8, <2>1
    <3>2. gun[n + 1] = msg.occurrences /\ gun[n + 1] \in Nat
      BY <1>5, <1>9, <3>1
    <3>3. \A i \in M : fun[i] \in Nat /\ gun[i] = fun[i]
      BY <1>4, <1>6, <1>7, <1>9, <3>1
    <3>4. \A k : k \notin M /\ gun[k] \in Nat =>
            SumFunctionOnSet(gun, M \cup {k}) = SumFunctionOnSet(fun, M) + gun[k]
      BY <1>3, <3>3, SumAdd
    <3> QED
      BY <2>1, <3>1, <3>2, <3>4 DEF Carries
  <2>2. CASE ~(msg.kind \in {"event", "summary"} /\ msg.of = f)
    <3>1. N = M
      BY <1>8, <2>2
    <3>2. \A i \in M : gun[i] = fun[i]
      BY <1>4, <1>6, <1>7, <1>9, <3>1
    <3>3. SumFunctionOnSet(gun, M) = SumFunctionOnSet(fun, M)
      BY <1>3, <3>2, SumSame
    <3> QED
      BY <1>3, <2>2, <3>1, <3>3 DEF Carries
  <2> QED
    BY <2>1, <2>2
<1> QED
  BY <1>1, <1>2, <1>3, <1>10 DEF n

\* record(): folded in, or counted as overflow.
LEMMA RecordCounts ==
  ASSUME CountTypes, NEW g \in Fingerprints, NEW k \in Nat, RecordCount(g, k),
         UNCHANGED <<hits, failed>>
  PROVE  /\ CountTypes'
         /\ \A f \in Fingerprints :
              Aggregated(f)' + overflow'[f]
                = Aggregated(f) + overflow[f] + One(g, f)
<1>0. \A f \in Fingerprints : Aggregated(f) \in Nat /\ overflow[f] \in Nat
  BY SummariesHold DEF CountTypes
<1>1. CASE ~RoomFor(g) /\ overflow' = [overflow EXCEPT ![g] = @ + 1] /\ UNCHANGED pending
  <2>1. \A f \in Fingerprints : Aggregated(f)' = Aggregated(f)
                                /\ overflow'[f] = overflow[f] + One(g, f)
    BY <1>1, <1>0 DEF Aggregated, CountTypes, One
  <2>2. CountTypes'
    BY <1>1 DEF CountTypes
  <2> QED
    BY <1>0, <2>1, <2>2, OneType
<1> DEFINE n == IF g \in DOMAIN pending THEN pending[g].count + 1 ELSE 1
           D == DOMAIN pending \cup {g}
<1>2. CASE /\ RoomFor(g) /\ UNCHANGED overflow
           /\ pending' = [f \in D |-> IF f = g THEN [count |-> n, hit |-> k] ELSE pending[f]]
  <2>1. n \in Nat /\ n = Aggregated(g) + 1
    BY DEF CountTypes, Aggregated
  <2>2. IsFiniteSet(D) /\ Cardinality(D) <= MaxEntries /\ D \subseteq Fingerprints
    <3>1. IsFiniteSet(D) /\ Cardinality(D) = IF g \in DOMAIN pending
                                             THEN Cardinality(DOMAIN pending)
                                             ELSE Cardinality(DOMAIN pending) + 1
      BY FS_AddElement DEF CountTypes
    <3>2. Cardinality(DOMAIN pending) \in Nat
      BY FS_CardinalityType DEF CountTypes
    <3> QED
      BY <1>2, <3>1, <3>2 DEF CountTypes, RoomFor
  <2>3. DOMAIN pending' = D
    BY <1>2
  <2> HIDE DEF n
  <2>4. pending' \in [D -> [count : Nat, hit : Nat]]
    BY <1>2, <2>1 DEF CountTypes
  <2>5. CountTypes'
    BY <1>2, <2>2, <2>3, <2>4 DEF CountTypes
  <2>6. ASSUME NEW f \in Fingerprints
        PROVE  Aggregated(f)' = Aggregated(f) + One(g, f)
    <3>1. CASE f = g
      BY <1>2, <2>1, <3>1 DEF Aggregated, One
    <3>2. CASE f # g
      BY <1>0, <1>2, <3>2 DEF Aggregated, One
    <3> QED
      BY <3>1, <3>2
  <2>7. \A f \in Fingerprints : overflow'[f] = overflow[f]
    BY <1>2
  <2> QED
    BY <1>0, <2>5, <2>6, <2>7, OneType
<1> QED
  BY <1>1, <1>2 DEF RecordCount

\* What is not touched counts as before.
LEMMA Untouched ==
  ASSUME NEW f
  PROVE  /\ UNCHANGED <<thread, summaries>> => InHand(f)' = InHand(f)
         /\ UNCHANGED content => Sent(f, 1 .. Len(content))' = Sent(f, 1 .. Len(content))
         /\ UNCHANGED pending => Aggregated(f)' = Aggregated(f)
BY DEF InHand, HeldBy, Occurrences, Sent, Messages, Aggregated

LEMMA OwnHolds ==
  ASSUME NEW r, MayBe(r), r.out = {}, NEW f
  PROVE  Holds(r, f) = Own(r.fp, r.at, f)
BY HoldsType DEF Holds, Own, One

\* A callback outside a flush goes from one place to another.
LEMMA GotoInHand ==
  ASSUME ThreadTypes, LifeTypes, NEW t \in Threads, thread[t].at \notin {"idle", "flush"},
         NEW place \in {"source", "ship", "event", "record", "drain"}, Goto(t, place),
         UNCHANGED summaries
  PROVE  /\ ThreadTypes'
         /\ thread[t].fp \in Fingerprints
         /\ thread[t].hit \in Nat
         /\ \A f : /\ InHand(f) \in Nat /\ InHand(f)' \in Nat
                   /\ InHand(f)' + Own(thread[t].fp, thread[t].at, f)
                        = InHand(f) + Own(thread[t].fp, place, f)
<1> DEFINE r == [thread[t] EXCEPT !.at = place]
<1>1. MayBe(thread[t]) /\ thread[t].out = {} /\ thread \in [Threads -> CallbackState]
      /\ thread[t] \in CallbackState
  BY DEF ThreadTypes, MayBe
<1>2. r \in CallbackState /\ r.at = place /\ r.out = {} /\ r.fp = thread[t].fp
  BY <1>1 DEF CallbackState
<1>3. thread' = [thread EXCEPT ![t] = r]
  BY <1>1 DEF Goto
<1>4. MayBe(r)
  BY <1>1, <1>2, FS_EmptySet DEF MayBe
<1> HIDE DEF r
<1>5. \A f : Holds(thread[t], f) = Own(thread[t].fp, thread[t].at, f)
  BY <1>1, OwnHolds
<1>6. \A f : Holds(r, f) = Own(thread[t].fp, place, f)
  BY <1>2, <1>4, OwnHolds
<1>7. ThreadTypes'
  BY <1>3, <1>4, MoveTypes
<1>8. \A f : /\ InHand(f) \in Nat /\ InHand(f)' \in Nat
             /\ InHand(f)' + Holds(thread[t], f) = InHand(f) + Holds(r, f)
  BY <1>3, <1>4, MoveInHand
<1>9. thread[t].fp \in Fingerprints /\ thread[t].hit \in Nat
  BY <1>1 DEF MayBe, CallbackState
<1> QED
  BY <1>5, <1>6, <1>7, <1>8, <1>9

LEMMA IdleMay == MayBe(Idle) /\ \A f : Holds(Idle, f) = 0
<1>1. MayBe(Idle)
  BY FS_EmptySet DEF MayBe, Idle, CallbackState
<1>2. \A f : Occurrences({m \in Idle.out : m.of = f}) = 0
  BY <1>1, HoldsType DEF Idle
<1> QED
  BY <1>1, <1>2 DEF Holds, Idle

\* A thread between callbacks begins one, or one ends with nothing in hand.
LEMMA EmptyHands ==
  ASSUME ThreadTypes, NEW t \in Threads, thread[t].at \in {"idle", "decide", "drain"}, NEW f
  PROVE  Holds(thread[t], f) = 0
<1>1. MayBe(thread[t]) /\ thread[t].out = {}
  BY DEF ThreadTypes, MayBe
<1> QED
  BY <1>1, HoldsType DEF Holds

\* vm_death() fills or empties its list.
LEMMA ListInHand ==
  ASSUME ThreadTypes, LifeTypes, UNCHANGED thread, summaries' \in SUBSET SummaryMessages,
         IsFiniteSet(summaries'), NEW f
  PROVE  /\ InHand(f) \in Nat /\ InHand(f)' \in Nat
         /\ Occurrences(MessagesAt(summaries, f)) \in Nat
         /\ Occurrences(MessagesAt(summaries', f)) \in Nat
         /\ InHand(f)' + Occurrences(MessagesAt(summaries, f))
              = InHand(f) + Occurrences(MessagesAt(summaries', f))
<1> DEFINE F == [u \in Threads |-> HeldBy(u, f)]
           A == MessagesAt(summaries, f)
           B == MessagesAt(summaries', f)
<1>1. \A u \in Threads : F[u] \in Nat
  BY HoldsType DEF HeldBy, Holds, ThreadTypes
<1>2. /\ A \in SUBSET summaries /\ A \in SUBSET Message /\ IsFiniteSet(summaries)
      /\ B \in SUBSET summaries' /\ B \in SUBSET Message
  BY DEF LifeTypes, SummaryMessages, MessagesAt
<1>3. InHand(f) = SumFunctionOnSet(F, Threads) + Occurrences(A)
  BY DEF InHand, MessagesAt
<1>4. InHand(f)' = SumFunctionOnSet(F, Threads) + Occurrences(B)
  BY DEF InHand, HeldBy, Occurrences, MessagesAt
<1> HIDE DEF F, A, B
<1>5. IsFiniteSet(A) /\ IsFiniteSet(B)
  BY <1>2, FS_Subset
<1>6. Occurrences(A) \in Nat /\ Occurrences(B) \in Nat
  BY <1>2, <1>5, OccurrencesType
<1>7. SumFunctionOnSet(F, Threads) \in Nat
  BY <1>1, SumType
<1> QED
  BY <1>3, <1>4, <1>6, <1>7 DEF A, B
-----------------------------------------------------------------------------
(* Types and balance, action by action.                                    *)

\* The numbers the balance adds up.
LEMMA Numbers ==
  ASSUME Types, NEW f \in Fingerprints
  PROVE  /\ hits[f] \in Nat /\ overflow[f] \in Nat /\ failed[f] \in Nat
         /\ InHand(f) \in Nat /\ Aggregated(f) \in Nat
         /\ Sent(f, 1 .. Len(content)) \in Nat
BY InHandType, SummariesHold, SentType DEF Types, CountTypes

\* The throws at f that are somewhere in the pipeline, or out of it in the queue.
Held(f) == InHand(f) + Aggregated(f) + Sent(f, 1 .. Len(content))

LEMMA BalanceIs ==
  /\ Balance => \A f \in Fingerprints : hits[f] = Held(f) + overflow[f] + failed[f]
  /\ (\A f \in Fingerprints : hits'[f] = Held(f)' + overflow'[f] + failed'[f]) => Balance'
  /\ Types => \A f \in Fingerprints : Held(f) \in Nat
BY Numbers DEF Balance, Held

\* The counts that change: what was sampled is held, dropped or lost.
LEMMA Rebalance ==
  ASSUME Types, Balance, NEW f \in Fingerprints, NEW d \in Nat, NEW l \in Nat,
         hits'[f] = hits[f] + d, Held(f)' \in Nat, Held(f)' + l = Held(f) + d,
         overflow'[f] = overflow[f], failed'[f] = failed[f] + l
  PROVE  hits'[f] = Held(f)' + overflow'[f] + failed'[f]
<1>1. hits[f] \in Nat /\ overflow[f] \in Nat /\ failed[f] \in Nat
  BY Numbers
<1>2. hits[f] = Held(f) + overflow[f] + failed[f] /\ Held(f) \in Nat
  BY BalanceIs
<1> QED
  BY <1>1, <1>2

LEMMA InitTypes == Init => Types /\ Balance
<1> SUFFICES ASSUME Init PROVE Types /\ Balance
  OBVIOUS
<1>1. QueueTypes
  BY EmptySeq DEF Init, Ledger!Init, QueueTypes
<1>2. ThreadTypes
  BY IdleMay DEF Init, ThreadTypes, MayBe
<1>3. LifeTypes
  BY FS_EmptySet DEF Init, LifeTypes
<1>4. CountTypes
  <2>1. DOMAIN pending = {}
    BY DEF Init
  <2>2. pending \in [DOMAIN pending -> [count : Nat, hit : Nat]]
    BY <2>1 DEF Init
  <2> QED
    BY <2>1, <2>2, FS_EmptySet DEF Init, CountTypes
<1>5. Types
  BY <1>1, <1>2, <1>3, <1>4 DEF Init, Types
<1>6. ASSUME NEW f \in Fingerprints
      PROVE  InHand(f) = 0 /\ Aggregated(f) = 0 /\ Sent(f, 1 .. Len(content)) = 0
  <2> DEFINE F == [u \in Threads |-> HeldBy(u, f)]
  <2>1. \A u \in Threads : F[u] = 0
    BY IdleMay DEF Init, HeldBy, Holds
  <2>2. {m \in summaries : m.of = f} = {}
    BY DEF Init
  <2> HIDE DEF F
  <2>3. SumFunctionOnSet(F, Threads) = 0
    BY <2>1, SumZero
  <2>4. InHand(f) = 0
    <3>1. Occurrences({m \in summaries : m.of = f}) = 0
      BY <2>2, OccurrencesNone
    <3>2. InHand(f) = SumFunctionOnSet(F, Threads) + Occurrences({m \in summaries : m.of = f})
      BY DEF InHand, F
    <3> QED
      BY <2>3, <3>1, <3>2
  <2>5. Aggregated(f) = 0
    BY DEF Init, Aggregated
  <2>6. Messages(f, 1 .. Len(content)) = {}
    <3>1. Len(content) = 0
      BY EmptySeq DEF Init
    <3> QED
      BY <3>1 DEF Messages
  <2>7. Sent(f, 1 .. Len(content)) = 0
    BY <2>6, SumEmpty DEF Sent
  <2> QED
    BY <2>4, <2>5, <2>7
<1>7. Balance
  BY <1>6 DEF Init, Balance
<1> QED
  BY <1>5, <1>7

LEMMA ThrowStep ==
  ASSUME Types, Balance, NEW t \in Threads, NEW f \in Fingerprints, Throw(t, f)
  PROVE  Types' /\ Balance'
<1> DEFINE r == [at |-> "decide", fp |-> f, hit |-> 0, out |-> {}]
<1>1. MayBe(r) /\ r.out = {}
  BY FS_EmptySet DEF MayBe, CallbackState
<1>2. \A g : Holds(r, g) = 0 /\ Holds(thread[t], g) = 0
  <2>1. \A g : Holds(r, g) = Own(r.fp, r.at, g)
    BY <1>1, OwnHolds
  <2>2. r.at = "decide"
    OBVIOUS
  <2> HIDE DEF r
  <2>3. \A g : Holds(thread[t], g) = 0
    BY EmptyHands DEF Types, Throw
  <2> QED
    BY <2>1, <2>2, <2>3 DEF Own
<1> HIDE DEF r
<1>3. thread' = [thread EXCEPT ![t] = r]
  BY DEF Throw, r
<1>4. Types'
  BY <1>1, <1>3, MoveTypes DEF Types, Throw, queueVars, ledgerVars, lifeVars, countVars,
     sourceVars, QueueTypes, LifeTypes, CountTypes
<1>5. ASSUME NEW g \in Fingerprints PROVE InHand(g)' = InHand(g)
  <2>1. /\ InHand(g) \in Nat /\ InHand(g)' \in Nat
        /\ InHand(g)' + Holds(thread[t], g) = InHand(g) + Holds(r, g)
    <3>1. ThreadTypes /\ LifeTypes /\ UNCHANGED summaries
      BY DEF Types, Throw, lifeVars
    <3> QED
      BY <1>1, <1>3, <3>1, MoveInHand
  <2> QED
    BY <1>2, <2>1
<1> QED
  BY <1>4, <1>5, Untouched DEF Throw, Balance, countVars

LEMMA DecideStep ==
  ASSUME Types, Balance, NEW t \in Threads, NEW place \in {"source", "event", "record"},
         Decide(t, place)
  PROVE  Types' /\ Balance'
<1> DEFINE f == thread[t].fp
           h == hits[f] + 1
           r == [thread[t] EXCEPT !.at = place, !.hit = h]
<1>1. MayBe(thread[t]) /\ thread[t].out = {} /\ f \in Fingerprints
      /\ thread[t] \in CallbackState /\ thread \in [Threads -> CallbackState]
  BY DEF Types, ThreadTypes, MayBe, Decide
<1>2. h \in Nat
  BY <1>1 DEF Types, CountTypes
<1> HIDE DEF h
<1>3. r \in CallbackState /\ r.at = place /\ r.out = {} /\ r.fp = f
  BY <1>1, <1>2 DEF CallbackState
<1>4. thread' = [thread EXCEPT ![t] = r] /\ hits' = [hits EXCEPT ![f] = @ + 1]
  BY <1>1 DEF Decide, h
<1> HIDE DEF r, f
<1>5. MayBe(r)
  BY <1>1, <1>3, FS_EmptySet DEF MayBe
<1>6. ASSUME NEW g \in Fingerprints
      PROVE  Holds(thread[t], g) = 0 /\ Holds(r, g) = One(f, g)
  <2>1. Holds(thread[t], g) = 0
    BY EmptyHands DEF Types, Decide
  <2>2. Holds(r, g) = Own(f, place, g)
    BY <1>3, <1>5, OwnHolds
  <2> QED
    BY <2>1, <2>2 DEF Own
<1>7. Types'
  <2>1. ThreadTypes'
    BY <1>4, <1>5, MoveTypes DEF Types
  <2>2. hits' \in [Fingerprints -> Nat]
    BY <1>2, <1>4 DEF Types, CountTypes, h
  <2> QED
    BY <2>1, <2>2 DEF Types, Decide, queueVars, ledgerVars, lifeVars, countVars,
       sourceVars, QueueTypes, LifeTypes, CountTypes
<1>8. ASSUME NEW g \in Fingerprints
      PROVE  /\ InHand(g)' = InHand(g) + One(f, g)
             /\ hits'[g] = hits[g] + One(f, g)
  <2>1. /\ InHand(g) \in Nat /\ InHand(g)' \in Nat
        /\ InHand(g)' + Holds(thread[t], g) = InHand(g) + Holds(r, g)
    <3>1. ThreadTypes /\ LifeTypes /\ UNCHANGED summaries
      BY DEF Types, Decide, lifeVars
    <3> QED
      BY <1>4, <1>5, <3>1, MoveInHand
  <2>2. hits'[g] = IF g = f THEN hits[g] + 1 ELSE hits[g]
    BY <1>4 DEF Types, CountTypes
  <2> QED
    BY <1>6, <2>1, <2>2, Numbers, OneType DEF One
<1>9. ASSUME NEW g \in Fingerprints
      PROVE  hits'[g] = Held(g)' + overflow'[g] + failed'[g]
  <2>1. /\ Aggregated(g)' = Aggregated(g)
        /\ Sent(g, 1 .. Len(content))' = Sent(g, 1 .. Len(content))
        /\ overflow'[g] = overflow[g] /\ failed'[g] = failed[g]
    BY Untouched DEF Decide, countVars
  <2>2. Held(g)' = Held(g) + One(f, g)
    BY <1>8, <2>1, Numbers, OneType DEF Held
  <2>3. Held(g) \in Nat /\ One(f, g) \in Nat /\ failed[g] \in Nat
    BY BalanceIs, Numbers, OneType
  <2>4. hits'[g] = hits[g] + One(f, g)
    BY <1>8
  <2>5. Held(g)' \in Nat /\ Held(g)' + 0 = Held(g) + One(f, g) /\ failed'[g] = failed[g] + 0
    BY <2>1, <2>2, <2>3
  <2> QED
    BY <2>1, <2>3, <2>4, <2>5, Rebalance
<1> QED
  BY <1>7, <1>9, BalanceIs

LEMMA RecordStep ==
  ASSUME Types, Balance, NEW t \in Threads, Record(t)
  PROVE  Types' /\ Balance'
<1> DEFINE g == thread[t].fp
<1>1. /\ ThreadTypes' /\ g \in Fingerprints /\ thread[t].hit \in Nat
      /\ \A f : /\ InHand(f) \in Nat /\ InHand(f)' \in Nat
                /\ InHand(f)' + Own(g, "record", f) = InHand(f) + Own(g, "drain", f)
  BY GotoInHand DEF Types, Record, lifeVars
<1> HIDE DEF g
<1>2. /\ CountTypes'
      /\ \A f \in Fingerprints :
           Aggregated(f)' + overflow'[f]
             = Aggregated(f) + overflow[f] + One(g, f)
  BY <1>1, RecordCounts DEF Types, Record, g
<1>3. Types'
  BY <1>1, <1>2 DEF Types, Record, queueVars, ledgerVars, lifeVars, sourceVars,
     QueueTypes, LifeTypes
<1>4. ASSUME NEW f \in Fingerprints
      PROVE  hits'[f] = Held(f)' + overflow'[f] + failed'[f]
  <2>1. InHand(f) = InHand(f)' + One(g, f)
    BY <1>1, OneType DEF Own
  <2>2. /\ Sent(f, 1 .. Len(content))' = Sent(f, 1 .. Len(content))
        /\ hits'[f] = hits[f] /\ failed'[f] = failed[f]
    BY Untouched DEF Record
  <2>3. overflow'[f] \in Nat /\ Aggregated(f)' \in Nat
    <3>1. (overflow[f] \in Nat)' /\ (Aggregated(f) \in Nat)'
      BY <1>3, Numbers, PTL
    <3> QED
      BY <3>1
  <2>4. Aggregated(f)' + overflow'[f] = Aggregated(f) + overflow[f] + One(g, f)
    BY <1>2
  <2>5. Held(f)' + overflow'[f] = Held(f) + overflow[f] /\ Held(f)' \in Nat
    <3>1. InHand(f)' \in Nat /\ InHand(f)' + One(g, f) = InHand(f)
      BY <1>1, <2>1, OneType
    <3>2. Held(f) = InHand(f) + Aggregated(f) + Sent(f, 1 .. Len(content))
      BY DEF Held
    <3>3. Held(f)' = InHand(f)' + Aggregated(f)' + Sent(f, 1 .. Len(content))
      BY <2>2 DEF Held
    <3>4. /\ One(g, f) \in Nat /\ InHand(f) \in Nat /\ Aggregated(f) \in Nat
          /\ Sent(f, 1 .. Len(content)) \in Nat /\ overflow[f] \in Nat
      BY Numbers, OneType
    <3> DEFINE i == InHand(f)
               j == InHand(f)'
               a == Aggregated(f)
               b == Aggregated(f)'
               c == Sent(f, 1 .. Len(content))
               d == One(g, f)
               o == overflow[f]
               p == overflow'[f]
    <3>5. /\ i \in Nat /\ j \in Nat /\ a \in Nat /\ b \in Nat /\ c \in Nat /\ d \in Nat
          /\ o \in Nat /\ p \in Nat
          /\ j + d = i /\ b + p = a + o + d
          /\ Held(f) = i + a + c /\ Held(f)' = j + b + c
      BY <2>3, <2>4, <3>1, <3>2, <3>3, <3>4
    <3> HIDE DEF i, j, a, b, c, d, o, p
    <3>6. Held(f)' \in Nat /\ Held(f)' + p = Held(f) + o
      BY <3>5
    <3> QED
      BY <3>6 DEF p, o
  <2>6. hits[f] = Held(f) + overflow[f] + failed[f] /\ Held(f) \in Nat
    BY BalanceIs
  <2>7. overflow[f] \in Nat /\ failed[f] \in Nat
    BY Numbers
  <2> QED
    BY <2>2, <2>3, <2>5, <2>6, <2>7
<1> QED
  BY <1>3, <1>4, BalanceIs
-----------------------------------------------------------------------------
\* Nothing is counted anew, dropped or lost.
LEMMA KeepBalance ==
  ASSUME Balance, UNCHANGED <<hits, overflow, failed>>,
         \A f \in Fingerprints : Held(f)' = Held(f)
  PROVE  Balance'
BY BalanceIs

\* A message leaves some callback's hands, or vm_death's, for the queue.
LEMMA PassOn ==
  ASSUME Types, NEW f \in Fingerprints, NEW msg \in Message, Enqueue(msg), UNCHANGED pending,
         InHand(f)' \in Nat, Carries(msg, f) \in Nat, InHand(f)' + Carries(msg, f) = InHand(f)
  PROVE  Held(f)' = Held(f)
<1> DEFINE i == InHand(f)
           j == InHand(f)'
           a == Aggregated(f)
           s == Sent(f, 1 .. Len(content))
           c == Carries(msg, f)
<1>1. i \in Nat /\ j \in Nat /\ a \in Nat /\ s \in Nat /\ c \in Nat /\ j + c = i
  BY Numbers
<1>2. Sent(f, 1 .. Len(content))' = s + c
  BY EnqueueSends DEF Types
<1>3. Held(f) = i + a + s /\ Held(f)' = j + a + (s + c)
  BY <1>2, Untouched DEF Held
<1> HIDE DEF i, j, a, s, c
<1> QED
  BY <1>1, <1>3

\* The whole map goes from the aggregator into someone's hands.
LEMMA SwapOut ==
  ASSUME Types, NEW f \in Fingerprints, UNCHANGED content, SwapPending,
         InHand(f)' \in Nat, InHand(f)' = InHand(f) + Aggregated(f)
  PROVE  Held(f)' = Held(f)
<1> DEFINE i == InHand(f)
           a == Aggregated(f)
           s == Sent(f, 1 .. Len(content))
<1>1. i \in Nat /\ a \in Nat /\ s \in Nat
  BY Numbers
<1>2. Aggregated(f)' = 0 /\ Sent(f, 1 .. Len(content))' = s
  BY Untouched DEF SwapPending, Aggregated
<1>3. Held(f) = i + a + s /\ Held(f)' = (i + a) + 0 + s
  BY <1>2 DEF Held
<1> HIDE DEF i, a, s
<1> QED
  BY <1>1, <1>3

LEMMA SwappedTypes ==
  ASSUME CountTypes, SwapPending, UNCHANGED <<hits, overflow, failed>> PROVE CountTypes'
<1>1. DOMAIN pending' = {}
  BY DEF SwapPending
<1>2. pending' \in [DOMAIN pending' -> [count : Nat, hit : Nat]]
  BY <1>1 DEF SwapPending
<1> QED
  BY <1>1, <1>2, FS_EmptySet DEF CountTypes

LEMMA MessageTypes ==
  /\ \A f \in Fingerprints, k \in Nat : EventMsg(f, k) \in Message
  /\ \A c \in Classes \cup {"none"} : SourceMsg(c) \in Message
  /\ StartMsg \in Message
BY DEF EventMsg, SourceMsg, StartMsg, Message

LEMMA TakeUnshippedStep ==
  ASSUME Types, Balance, NEW t \in Threads, TakeUnshipped(t)
  PROVE  Types' /\ Balance'
<1>1. PICK place \in {"ship", "event"} : Goto(t, place)
  BY DEF TakeUnshipped
<1>2. /\ ThreadTypes'
      /\ \A f : /\ InHand(f) \in Nat /\ InHand(f)' \in Nat
                /\ InHand(f)' + Own(thread[t].fp, "source", f) = InHand(f) + Own(thread[t].fp, place, f)
  BY <1>1, GotoInHand DEF Types, TakeUnshipped, lifeVars
<1>3. \A f : Own(thread[t].fp, place, f) = Own(thread[t].fp, "source", f)
             /\ Own(thread[t].fp, "source", f) \in Nat
  BY OneType DEF Own
<1>4. \A f : InHand(f)' = InHand(f)
  BY <1>2, <1>3
<1>5. \A f : Held(f)' = Held(f)
  BY <1>4, Untouched DEF TakeUnshipped, Held, countVars
<1>6. (shipped \subseteq loaded)'
  BY DEF Types, TakeUnshipped
<1>7. Types'
  BY <1>2, <1>6 DEF Types, TakeUnshipped, queueVars, ledgerVars, lifeVars, countVars,
     QueueTypes, LifeTypes, CountTypes
<1> QED
  BY <1>5, <1>7, KeepBalance DEF TakeUnshipped, countVars

LEMMA ShipSourceStep ==
  ASSUME Types, Balance, NEW t \in Threads, ShipSource(t)
  PROVE  Types' /\ Balance'
<1> DEFINE g   == thread[t].fp
           msg == SourceMsg(ClassOf[g])
<1>1. /\ ThreadTypes' /\ g \in Fingerprints
      /\ \A f : /\ InHand(f) \in Nat /\ InHand(f)' \in Nat
                /\ InHand(f)' + Own(g, "ship", f) = InHand(f) + Own(g, "event", f)
  BY GotoInHand DEF Types, ShipSource, lifeVars
<1>2. msg \in Message /\ \A f : Carries(msg, f) = 0
  BY <1>1, MessageTypes DEF SourceMsg, Carries
<1>3. Enqueue(msg)
  BY DEF ShipSource
<1> HIDE DEF g, msg
<1>4. \A f : InHand(f)' + Carries(msg, f) = InHand(f)
  BY <1>1, <1>2, OneType DEF Own
<1>5. QueueTypes'
  BY <1>2, <1>3, EnqueueTypes DEF Types
<1>6. Types'
  BY <1>1, <1>5 DEF Types, ShipSource, lifeVars, countVars, sourceVars, LifeTypes, CountTypes
<1>7. \A f \in Fingerprints : Held(f)' = Held(f)
  BY <1>1, <1>2, <1>3, <1>4, PassOn DEF ShipSource, countVars
<1> QED
  BY <1>6, <1>7, KeepBalance DEF ShipSource, countVars

LEMMA EnqueueEventStep ==
  ASSUME Types, Balance, NEW t \in Threads, EnqueueEvent(t)
  PROVE  Types' /\ Balance'
<1> DEFINE g   == thread[t].fp
           msg == EventMsg(g, thread[t].hit)
<1>1. /\ ThreadTypes' /\ g \in Fingerprints /\ thread[t].hit \in Nat
      /\ \A f : /\ InHand(f) \in Nat /\ InHand(f)' \in Nat
                /\ InHand(f)' + Own(g, "event", f) = InHand(f) + Own(g, "drain", f)
  BY GotoInHand DEF Types, EnqueueEvent, lifeVars
<1>2. msg \in Message /\ \A f : Carries(msg, f) = One(g, f)
  BY <1>1, MessageTypes DEF EventMsg, Carries, One
<1>3. Enqueue(msg)
  BY DEF EnqueueEvent
<1> HIDE DEF g, msg
<1>4. \A f : InHand(f)' + Carries(msg, f) = InHand(f) /\ Carries(msg, f) \in Nat
  BY <1>1, <1>2, OneType DEF Own
<1>5. QueueTypes'
  BY <1>2, <1>3, EnqueueTypes DEF Types
<1>6. Types'
  BY <1>1, <1>5 DEF Types, EnqueueEvent, lifeVars, countVars, sourceVars, LifeTypes, CountTypes
<1>7. \A f \in Fingerprints : Held(f)' = Held(f)
  BY <1>1, <1>2, <1>3, <1>4, PassOn DEF EnqueueEvent, countVars
<1> QED
  BY <1>6, <1>7, KeepBalance DEF EnqueueEvent, countVars

LEMMA CaptureFailsStep ==
  ASSUME Types, Balance, NEW t \in Threads, CaptureFails(t)
  PROVE  Types' /\ Balance'
<1>1. thread' = [thread EXCEPT ![t] = Idle] /\ UNCHANGED summaries
  BY DEF CaptureFails, lifeVars
<1>2. ThreadTypes'
  BY <1>1, IdleMay, MoveTypes DEF Types
<1>3. ASSUME NEW f \in Fingerprints
      PROVE  /\ HeldBy(t, f) \in Nat /\ InHand(f) \in Nat /\ InHand(f)' \in Nat
             /\ InHand(f)' + HeldBy(t, f) = InHand(f)
  <2>1. /\ InHand(f) \in Nat /\ InHand(f)' \in Nat
        /\ InHand(f)' + Holds(thread[t], f) = InHand(f) + Holds(Idle, f)
    BY <1>1, IdleMay, MoveInHand DEF Types
  <2>2. Holds(thread[t], f) = HeldBy(t, f) /\ Holds(thread[t], f) \in Nat
    BY HoldsType DEF Holds, HeldBy, Types, ThreadTypes
  <2> QED
    BY <2>1, <2>2, IdleMay
<1>4. failed' = [f \in Fingerprints |-> failed[f] + HeldBy(t, f)]
  BY DEF CaptureFails
<1>5. Types'
  <2>1. failed' \in [Fingerprints -> Nat]
    BY <1>3, <1>4 DEF Types, CountTypes
  <2> QED
    BY <1>2, <2>1 DEF Types, CaptureFails, queueVars, ledgerVars, lifeVars, countVars, sourceVars,
       QueueTypes, LifeTypes, CountTypes
<1>6. ASSUME NEW f \in Fingerprints
      PROVE  hits'[f] = Held(f)' + overflow'[f] + failed'[f]
  <2> DEFINE i == InHand(f)
             j == InHand(f)'
             a == Aggregated(f)
             s == Sent(f, 1 .. Len(content))
             l == HeldBy(t, f)
  <2>1. i \in Nat /\ j \in Nat /\ a \in Nat /\ s \in Nat /\ l \in Nat /\ j + l = i
    BY <1>3, Numbers
  <2>2. Held(f) = i + a + s /\ Held(f)' = j + a + s
    BY Untouched DEF Held, CaptureFails, countVars
  <2>3. failed'[f] = failed[f] + l /\ hits'[f] = hits[f] + 0 /\ overflow'[f] = overflow[f]
    BY <1>4, Numbers DEF CaptureFails, countVars
  <2> HIDE DEF i, j, a, s, l
  <2>4. Held(f)' \in Nat /\ Held(f)' + l = Held(f) + 0
    BY <2>1, <2>2
  <2> QED
    BY <2>1, <2>3, <2>4, Rebalance
<1> QED
  BY <1>5, <1>6, BalanceIs

LEMMA DrainNotDueStep ==
  ASSUME Types, Balance, NEW t \in Threads, DrainNotDue(t)
  PROVE  Types' /\ Balance'
<1>1. thread' = [thread EXCEPT ![t] = Idle] /\ UNCHANGED summaries /\ thread[t].at = "drain"
  BY DEF DrainNotDue, lifeVars
<1>2. ThreadTypes'
  BY <1>1, IdleMay, MoveTypes DEF Types
<1>3. ASSUME NEW f PROVE InHand(f)' = InHand(f)
  <2>1. /\ InHand(f) \in Nat /\ InHand(f)' \in Nat
        /\ InHand(f)' + Holds(thread[t], f) = InHand(f) + Holds(Idle, f)
    BY <1>1, IdleMay, MoveInHand DEF Types
  <2>2. Holds(thread[t], f) = 0 /\ Holds(Idle, f) = 0
    BY <1>1, IdleMay, EmptyHands DEF Types
  <2> QED
    BY <2>1, <2>2
<1>4. Types'
  BY <1>2 DEF Types, DrainNotDue, queueVars, ledgerVars, lifeVars, countVars, sourceVars,
     QueueTypes, LifeTypes, CountTypes
<1>5. \A f : Held(f)' = Held(f)
  BY <1>3, Untouched DEF DrainNotDue, Held, countVars
<1> QED
  BY <1>4, <1>5, KeepBalance DEF DrainNotDue, countVars

LEMMA DrainDueStep ==
  ASSUME Types, Balance, NEW t \in Threads, DrainDue(t)
  PROVE  Types' /\ Balance'
<1> DEFINE r == [thread[t] EXCEPT !.at = "flush", !.out = Summaries]
<1>1. Summaries \in SUBSET SummaryMessages /\ IsFiniteSet(Summaries)
  BY SummariesType DEF Types
<1>2. MayBe(thread[t]) /\ thread[t] \in CallbackState /\ thread[t].fp \in Fingerprints
  BY DEF Types, ThreadTypes, MayBe, DrainDue
<1>3. r \in CallbackState /\ r.at = "flush" /\ r.out = Summaries /\ r.fp = thread[t].fp
  BY <1>1, <1>2 DEF CallbackState
<1>4. thread' = [thread EXCEPT ![t] = r]
  BY DEF DrainDue
<1> HIDE DEF r
<1>5. MayBe(r)
  BY <1>1, <1>2, <1>3 DEF MayBe
<1>6. ThreadTypes'
  BY <1>4, <1>5, MoveTypes DEF Types
<1>7. ASSUME NEW f PROVE InHand(f)' = InHand(f) + Aggregated(f) /\ InHand(f)' \in Nat
  <2>1. UNCHANGED summaries /\ ThreadTypes /\ LifeTypes /\ thread[t].at = "drain"
    BY DEF DrainDue, lifeVars, Types
  <2>2. /\ InHand(f) \in Nat /\ InHand(f)' \in Nat
        /\ InHand(f)' + Holds(thread[t], f) = InHand(f) + Holds(r, f)
    BY <1>4, <1>5, <2>1, MoveInHand
  <2>3. Holds(thread[t], f) = 0
    BY <2>1, EmptyHands
  <2>4. Holds(r, f) = 0 + Aggregated(f) /\ Aggregated(f) \in Nat
    BY <1>3, SummariesHold DEF Holds, Types
  <2> QED
    BY <2>2, <2>3, <2>4
<1>8. CountTypes'
  BY SwappedTypes DEF Types, DrainDue
<1>9. Types'
  BY <1>6, <1>8 DEF Types, DrainDue, queueVars, ledgerVars, lifeVars, sourceVars,
     QueueTypes, LifeTypes
<1>10. \A f \in Fingerprints : Held(f)' = Held(f)
  BY <1>7, SwapOut DEF DrainDue
<1> QED
  BY <1>9, <1>10, KeepBalance DEF DrainDue

LEMMA FlushHolds ==
  ASSUME NEW r, MayBe(r), r.at = "flush", NEW f
  PROVE  Holds(r, f) = Occurrences(MessagesAt(r.out, f))
<1> DEFINE n == Occurrences(MessagesAt(r.out, f))
<1>1. Holds(r, f) = 0 + n
  BY DEF Holds, MessagesAt
<1>2. n \in Nat
  BY HoldsType DEF MessagesAt
<1> HIDE DEF n
<1>3. Holds(r, f) = n
  BY <1>1, <1>2
<1> QED
  BY <1>3 DEF n

LEMMA FlushOneStep ==
  ASSUME Types, Balance, NEW t \in Threads, NEW msg \in thread[t].out, FlushOne(t, msg)
  PROVE  Types' /\ Balance'
<1> DEFINE rest == thread[t].out \ {msg}
           kept == [thread[t] EXCEPT !.out = rest]
           r    == IF rest = {} THEN Idle ELSE kept
<1>1. /\ MayBe(thread[t]) /\ thread[t] \in CallbackState /\ thread[t].at = "flush"
      /\ thread[t].out \in SUBSET SummaryMessages /\ IsFiniteSet(thread[t].out)
      /\ thread[t].fp \in Fingerprints
  BY DEF Types, ThreadTypes, MayBe, CallbackState, FlushOne
<1>2. rest \in SUBSET SummaryMessages /\ IsFiniteSet(rest)
  BY <1>1, FS_RemoveElement
<1>3. kept \in CallbackState /\ kept.at = "flush" /\ kept.fp = thread[t].fp /\ kept.out = rest
  BY <1>1, <1>2 DEF CallbackState
<1>4. thread' = [thread EXCEPT ![t] = r]
  BY DEF FlushOne
<1> HIDE DEF kept
<1>5. MayBe(r)
  BY <1>1, <1>2, <1>3, IdleMay DEF MayBe
<1>6. ASSUME NEW f PROVE Holds(r, f) = Occurrences(MessagesAt(rest, f))
  <2>1. CASE rest = {}
    <3>1. MessagesAt(rest, f) = {}
      BY <2>1 DEF MessagesAt
    <3>2. Occurrences(MessagesAt(rest, f)) = 0
      BY <3>1, OccurrencesNone
    <3> QED
      BY <2>1, <3>2, IdleMay
  <2>2. CASE rest # {}
    <3>1. Holds(kept, f) = Occurrences(MessagesAt(kept.out, f))
      BY <1>3, <1>5, <2>2, FlushHolds
    <3> QED
      BY <1>3, <2>2, <3>1
  <2> QED
    BY <2>1, <2>2
<1> HIDE DEF r
<1>7. ASSUME NEW f PROVE Holds(thread[t], f) = Occurrences(MessagesAt(thread[t].out, f))
  BY <1>1, FlushHolds
<1>8. Enqueue(msg) /\ msg \in Message
  BY <1>1 DEF FlushOne, SummaryMessages
<1>9. ASSUME NEW f
      PROVE  /\ InHand(f)' \in Nat /\ Carries(msg, f) \in Nat
             /\ InHand(f)' + Carries(msg, f) = InHand(f)
  <2>1. UNCHANGED summaries /\ ThreadTypes /\ LifeTypes
    BY DEF FlushOne, lifeVars, Types
  <2>2. /\ InHand(f) \in Nat /\ InHand(f)' \in Nat
        /\ InHand(f)' + Holds(thread[t], f) = InHand(f) + Holds(r, f)
    BY <1>4, <1>5, <2>1, MoveInHand
  <2>3. /\ Holds(thread[t], f) \in Nat /\ Holds(r, f) \in Nat /\ Carries(msg, f) \in Nat
        /\ Holds(thread[t], f) = Carries(msg, f) + Holds(r, f)
    <3>1. /\ Holds(thread[t], f) = Occurrences(MessagesAt(thread[t].out, f))
          /\ Holds(r, f) = Occurrences(MessagesAt(rest, f))
      BY <1>6, <1>7
    <3> QED
      BY <1>1, <3>1, OccurrencesDrop
  <2> QED
    BY <2>2, <2>3
<1>10. ThreadTypes'
  BY <1>4, <1>5, MoveTypes DEF Types
<1>11. QueueTypes'
  BY <1>8, EnqueueTypes DEF Types
<1>12. Types'
  BY <1>10, <1>11 DEF Types, FlushOne, lifeVars, countVars, sourceVars, LifeTypes, CountTypes
<1>13. \A f \in Fingerprints : Held(f)' = Held(f)
  BY <1>8, <1>9, PassOn DEF FlushOne, countVars
<1> QED
  BY <1>12, <1>13, KeepBalance DEF FlushOne, countVars
-----------------------------------------------------------------------------
LEMMA LoadClassStep ==
  ASSUME Types, Balance, NEW c \in Classes, LoadClass(c)
  PROVE  Types' /\ Balance'
<1>1. (shipped \subseteq loaded)'
  BY DEF Types, LoadClass
<1>2. Types'
  BY <1>1 DEF Types, LoadClass, queueVars, ledgerVars, lifeVars, countVars,
     QueueTypes, ThreadTypes, LifeTypes, CountTypes
<1>3. \A f : Held(f)' = Held(f)
  BY Untouched DEF LoadClass, Held, lifeVars, countVars
<1> QED
  BY <1>2, <1>3, KeepBalance DEF LoadClass, countVars

\* The lifecycle callbacks that touch no count.
LEMMA PlainLifeStep ==
  ASSUME Types, Balance, OnLoad \/ EnableCapture \/ DisableCapture \/ StopQueue \/ Join
  PROVE  Types' /\ Balance'
<1>1. /\ UNCHANGED <<ledgerVars, content, summaries, hits, pending, overflow, loaded, shipped,
                     thread, failed>>
      /\ worker' \in {"unborn", "running", "stopping", "gone"}
      /\ early' \in {early, offered}
      /\ started' \in BOOLEAN
      /\ life' \in {"loaded", "enabled", "disabled", "joining", "dead"}
      /\ summaries = {}
  BY DEF Types, QueueTypes, LifeTypes, OnLoad, EnableCapture, DisableCapture, StopQueue, Join,
     queueVars, countVars, sourceVars
<1>2. Types'
  BY <1>1 DEF Types, ledgerVars, QueueTypes, ThreadTypes, LifeTypes, CountTypes
<1>3. \A f : Held(f)' = Held(f)
  BY <1>1, Untouched DEF Held
<1> QED
  BY <1>1, <1>2, <1>3, KeepBalance

LEMMA RegisterStep ==
  ASSUME Types, Balance, Register
  PROVE  Types' /\ Balance'
<1>1. StartMsg \in Message /\ Enqueue(StartMsg) /\ \A f : Carries(StartMsg, f) = 0
  BY MessageTypes DEF Register, StartMsg, Carries
<1>2. QueueTypes'
  BY <1>1, EnqueueTypes DEF Types
<1>3. Types'
  BY <1>2 DEF Types, Register, countVars, sourceVars, ThreadTypes, LifeTypes, CountTypes
<1>4. ASSUME NEW f \in Fingerprints PROVE Held(f)' = Held(f)
  <2>1. InHand(f)' = InHand(f) /\ InHand(f) \in Nat
    BY Untouched, Numbers DEF Register
  <2>2. UNCHANGED pending
    BY DEF Register, countVars
  <2> QED
    BY <1>1, <2>1, <2>2, PassOn
<1> QED
  BY <1>3, <1>4, KeepBalance DEF Register, countVars

LEMMA ForceDrainStep ==
  ASSUME Types, Balance, ForceDrain
  PROVE  Types' /\ Balance'
<1>1. summaries' \in SUBSET SummaryMessages /\ IsFiniteSet(summaries') /\ summaries = {}
  BY SummariesType DEF Types, LifeTypes, ForceDrain
<1>2. ASSUME NEW f PROVE InHand(f)' = InHand(f) + Aggregated(f) /\ InHand(f)' \in Nat
  <2>1. /\ InHand(f) \in Nat /\ InHand(f)' \in Nat
        /\ InHand(f)' + Occurrences(MessagesAt(summaries, f))
             = InHand(f) + Occurrences(MessagesAt(summaries', f))
    BY <1>1, ListInHand DEF Types, ForceDrain
  <2>2. MessagesAt({}, f) = {}
    BY DEF MessagesAt
  <2>3. Occurrences(MessagesAt(summaries, f)) = 0
    BY <1>1, <2>2, OccurrencesNone
  <2>4. Occurrences(MessagesAt(summaries', f)) = Aggregated(f) /\ Aggregated(f) \in Nat
    BY SummariesHold DEF MessagesAt, Types, ForceDrain
  <2> QED
    BY <2>1, <2>3, <2>4
<1>3. CountTypes'
  BY SwappedTypes DEF Types, ForceDrain
<1>4. Types'
  BY <1>1, <1>3 DEF Types, ForceDrain, queueVars, ledgerVars, sourceVars,
     QueueTypes, ThreadTypes, LifeTypes
<1>5. \A f \in Fingerprints : Held(f)' = Held(f)
  BY <1>2, SwapOut DEF ForceDrain
<1> QED
  BY <1>4, <1>5, KeepBalance DEF ForceDrain

LEMMA FlushLastStep ==
  ASSUME Types, Balance, NEW msg \in summaries, FlushLast(msg)
  PROVE  Types' /\ Balance'
<1>1. /\ summaries \in SUBSET SummaryMessages /\ IsFiniteSet(summaries)
      /\ summaries' = summaries \ {msg} /\ Enqueue(msg) /\ msg \in Message
  BY DEF Types, LifeTypes, FlushLast, SummaryMessages
<1>2. summaries' \in SUBSET SummaryMessages /\ IsFiniteSet(summaries')
  BY <1>1, FS_RemoveElement
<1>3. ASSUME NEW f
      PROVE  /\ InHand(f)' \in Nat /\ Carries(msg, f) \in Nat
             /\ InHand(f)' + Carries(msg, f) = InHand(f)
  <2> DEFINE a == Occurrences(MessagesAt(summaries, f))
             b == Occurrences(MessagesAt(summaries', f))
             i == InHand(f)
             j == InHand(f)'
             c == Carries(msg, f)
  <2>1. i \in Nat /\ j \in Nat /\ j + a = i + b
    BY <1>2, ListInHand DEF Types, FlushLast
  <2>2. a \in Nat /\ b \in Nat /\ c \in Nat /\ a = c + b
    BY <1>1, OccurrencesDrop
  <2> HIDE DEF a, b, c, i, j
  <2>3. j \in Nat /\ c \in Nat /\ j + c = i
    BY <2>1, <2>2
  <2> QED
    BY <2>3 DEF i, j, c
<1>4. QueueTypes'
  BY <1>1, EnqueueTypes DEF Types
<1>5. Types'
  BY <1>2, <1>4 DEF Types, FlushLast, countVars, sourceVars, ThreadTypes, LifeTypes, CountTypes
<1>6. \A f \in Fingerprints : Held(f)' = Held(f)
  BY <1>1, <1>3, PassOn DEF FlushLast, countVars
<1> QED
  BY <1>5, <1>6, KeepBalance DEF FlushLast, countVars

\* The worker takes events from the queue; what they say is history.
LEMMA SettleStep ==
  ASSUME Types, Balance, Settle \/ WorkerLeaves, waiting \in Seq(Nat)
  PROVE  Types' /\ Balance'
<1>1. /\ UNCHANGED <<offered, early, content, lifeVars, hits, countVars, sourceVars, thread, failed>>
      /\ worker' \in {worker, "gone"}
  BY DEF Settle, WorkerLeaves, ledgerVars, Ledger!Deliver, Ledger!WriteOff
<1>2. Len(waiting') <= MaxQueue + BatchSize
  <2>1. CASE Settle
    <3>1. PICK n \in 1 .. Len(waiting) : waiting' = SubSeq(waiting, n + 1, Len(waiting))
      BY <2>1 DEF Settle, Ledger!Deliver, Ledger!WriteOff, Ledger!Rest
    <3>2. Len(waiting) \in Nat
      BY LenProperties
    <3>3. Len(waiting') = Len(waiting) - n
      BY <3>1, <3>2, LP!SplitAt
    <3> QED
      BY <3>2, <3>3 DEF Types, QueueTypes
  <2>2. CASE WorkerLeaves
    BY <2>2 DEF WorkerLeaves, ledgerVars, Types, QueueTypes
  <2> QED
    BY <2>1, <2>2
<1>3. Types'
  BY <1>1, <1>2 DEF Types, lifeVars, countVars, sourceVars, QueueTypes, ThreadTypes, LifeTypes,
     CountTypes
<1>4. \A f : Held(f)' = Held(f)
  BY <1>1, Untouched DEF Held, lifeVars, countVars
<1> QED
  BY <1>1, <1>3, <1>4, KeepBalance DEF countVars

LEMMA NextBalance ==
  ASSUME Types, Balance, waiting \in Seq(Nat), [Next]_vars
  PROVE  Types' /\ Balance'
<1>1. CASE UNCHANGED vars
  <2>1. Types'
    BY <1>1 DEF vars, Types, queueVars, ledgerVars, lifeVars, countVars, sourceVars,
       QueueTypes, ThreadTypes, LifeTypes, CountTypes
  <2>2. \A f : Held(f)' = Held(f)
    BY <1>1, Untouched DEF vars, Held, lifeVars, countVars
  <2> QED
    BY <1>1, <2>1, <2>2, KeepBalance DEF vars, countVars
<1>2. ASSUME NEW t \in Threads, Callback(t) PROVE Types' /\ Balance'
  BY <1>2, ThrowStep, DecideStep, RecordStep, TakeUnshippedStep, ShipSourceStep, EnqueueEventStep,
     CaptureFailsStep, DrainNotDueStep, DrainDueStep, FlushOneStep DEF Callback
<1>3. CASE Lifecycle
  BY <1>3, PlainLifeStep, RegisterStep, ForceDrainStep, FlushLastStep DEF Lifecycle
<1> QED
  BY <1>1, <1>2, <1>3, LoadClassStep, SettleStep DEF Next
-----------------------------------------------------------------------------
(* The queue is the ledger.                                                *)

LEMMA LedgerStep == ASSUME [Next]_vars PROVE [LP!Next]_(LP!vars)
<1> USE DEF LP!Next, LP!vars, LP!Accept, LP!Refuse, LP!Deliver, LP!WriteOff, LP!Oldest, LP!Rest,
            LP!Range, Ledger!Accept, Ledger!Refuse, Ledger!Deliver, Ledger!WriteOff, Ledger!Oldest,
            Ledger!Rest, Ledger!Range
<1>1. ASSUME NEW msg, Enqueue(msg) PROVE LP!Next
  BY <1>1 DEF Enqueue
<1>2. CASE Settle
  BY <1>2 DEF Settle
<1>3. CASE UNCHANGED ledgerVars
  BY <1>3 DEF ledgerVars
<1>4. ASSUME NEW t \in Threads, Callback(t)
      PROVE  UNCHANGED ledgerVars \/ \E msg : Enqueue(msg)
  BY <1>4 DEF Callback, Throw, Decide, Record, TakeUnshipped, ShipSource, EnqueueEvent,
     CaptureFails, DrainNotDue, DrainDue, FlushOne, queueVars
<1>5. CASE Lifecycle
  <2>1. UNCHANGED ledgerVars \/ \E msg : Enqueue(msg)
    BY <1>5 DEF Lifecycle, OnLoad, EnableCapture, Register, DisableCapture, ForceDrain, StopQueue,
       Join, FlushLast, queueVars
  <2> QED
    BY <1>1, <1>3, <2>1
<1>6. CASE WorkerLeaves \/ UNCHANGED vars \/ \E c \in Classes : LoadClass(c)
  BY <1>3, <1>6 DEF WorkerLeaves, LoadClass, queueVars, vars
<1> QED
  BY <1>1, <1>2, <1>3, <1>4, <1>5, <1>6 DEF Next

LEMMA LedgerInit == Init => LP!Init
BY DEF Init, LP!Init, Ledger!Init

\* The queue numbers events, keeps them in order and forgets none, whoever
\* offers them and whenever (agent/src/async_queue.cpp:31-42, 97-166).
THEOREM FeedsLedger == Spec => Ledger!Spec
<1>1. Init => Ledger!Init
  BY DEF Init
<1>2. [Next]_vars => [Ledger!Next]_(Ledger!vars)
  <2> SUFFICES ASSUME [Next]_vars PROVE [Ledger!Next]_(Ledger!vars)
    OBVIOUS
  <2>1. [LP!Next]_(LP!vars)
    BY LedgerStep
  <2> QED
    BY <2>1 DEF LP!Next, LP!vars, LP!Accept, LP!Refuse, LP!Deliver, LP!WriteOff, LP!Oldest, LP!Rest,
       LP!Range, Ledger!Next, Ledger!vars, Ledger!Accept, Ledger!Refuse, Ledger!Deliver,
       Ledger!WriteOff, Ledger!Oldest, Ledger!Rest, Ledger!Range
<1> QED
  BY <1>1, <1>2, PTL DEF Spec, Ledger!Spec

LEMMA QueueConserves == Spec => []LP!Inv
<1>1. [Next]_vars => [LP!Next]_(LP!vars)
  BY LedgerStep
<1>2. LP!Spec => []LP!Inv
  BY LP!LedgerConserves
<1> QED
  BY <1>1, <1>2, LedgerInit, PTL DEF Spec, LP!Spec

LEMMA TypesAndBalance == Spec => [](Types /\ Balance)
<1>1. LP!Inv => waiting \in Seq(Nat)
  BY DEF LP!Inv, LP!LedgerType
<1>2. Types /\ Balance /\ LP!Inv /\ [Next]_vars => Types' /\ Balance'
  BY <1>1, NextBalance
<1> QED
  BY <1>2, InitTypes, QueueConserves, PTL DEF Spec

LEMMA TypesImply == Types => TypeOK
BY DEF Types, QueueTypes, ThreadTypes, CallbackState, LifeTypes, CountTypes, TypeOK

\* Every throw the sampler has counted is somewhere exactly once, and the
\* aggregator and the queue keep their bounds (exception_handler.cpp:230-356,
\* count_aggregator.cpp:16-59).
THEOREM ThrowsAreConserved == Spec => []OccurrencesConserved
<1>1. Types /\ Balance => OccurrencesConserved
  BY TypesImply DEF Balance, OccurrencesConserved
<1> QED
  BY <1>1, TypesAndBalance, PTL
-----------------------------------------------------------------------------
(* The source cache's marks.                                               *)

\* Who was going to upload a class, and which uploads there are, stays.
LEMMA MarksKept ==
  ASSUME Types, Marked,
         UNCHANGED content \/ \E msg \in Message : Enqueue(msg) /\ msg.kind # "source",
         shipped \subseteq shipped',
         \A t \in Threads : thread'[t].at = "ship" =>
             thread[t].at = "ship" /\ thread'[t].fp = thread[t].fp
  PROVE  Marked'
<1> DEFINE n == Len(content)
<1>1. /\ n \in Nat /\ Len(content') \in {n, n + 1}
      /\ \A i \in 1 .. n : content'[i] = content[i]
      /\ Len(content') = n + 1 => content'[n + 1].kind # "source"
  BY EnqueueTypes DEF Types, QueueTypes
<1>2. \A i \in 1 .. Len(content') :
        content'[i].kind = "source" => i \in 1 .. n /\ content'[i] = content[i]
  <2>1. ASSUME NEW i \in 1 .. Len(content'), content'[i].kind = "source" PROVE i \in 1 .. n
    <3>1. i \in 1 .. n \/ (i = n + 1 /\ Len(content') = n + 1)
      BY <1>1
    <3> QED
      BY <1>1, <2>1, <3>1
  <2> QED
    BY <1>1, <2>1
<1>3. \A i \in Sources(1 .. Len(content))' :
        i \in Sources(1 .. Len(content)) /\ content'[i] = content[i]
  BY <1>2 DEF Sources
<1> HIDE DEF n
<1>4. SourceShippedOnce'
  BY <1>3 DEF Marked, SourceShippedOnce
<1>5. \A i \in Sources(1 .. Len(content))' : content'[i].of \in shipped'
  BY <1>3 DEF Marked
<1>6. ASSUME NEW t \in Threads, thread'[t].at = "ship"
      PROVE  /\ thread[t].at = "ship" /\ thread'[t].fp = thread[t].fp
             /\ ClassOf[thread[t].fp] \in shipped'
             /\ \A i \in Sources(1 .. Len(content))' : content'[i].of # ClassOf[thread[t].fp]
  BY <1>3, <1>6 DEF Marked
<1>7. \A t, u \in Threads :
        thread'[t].at = "ship" /\ thread'[u].at = "ship"
          /\ ClassOf[thread'[t].fp] = ClassOf[thread'[u].fp] => t = u
  BY <1>6 DEF Marked
<1> QED
  BY <1>4, <1>5, <1>6, <1>7 DEF Marked

LEMMA TakeMarks ==
  ASSUME Types, Marked, NEW t \in Threads, TakeUnshipped(t)
  PROVE  Marked'
<1> DEFINE c == ClassOf[thread[t].fp]
<1>0. /\ thread \in [Threads -> CallbackState] /\ thread[t] \in CallbackState
      /\ UNCHANGED content
  BY DEF Types, ThreadTypes, TakeUnshipped
<1>1. CASE c \in loaded \ shipped
  <2>1. /\ thread'[t].at = "ship" /\ thread'[t].fp = thread[t].fp
        /\ \A u \in Threads : u # t => thread'[u] = thread[u]
        /\ shipped' = shipped \cup {c} /\ c \notin shipped
    BY <1>0, <1>1 DEF TakeUnshipped, Goto, CallbackState
  <2> HIDE DEF c
  <2>2. \A i \in Sources(1 .. Len(content)) : content[i].of \in shipped /\ content[i].of # c
    BY <2>1 DEF Marked
  <2>3. \A u \in Threads : u # t /\ thread[u].at = "ship" => ClassOf[thread[u].fp] # c
    BY <2>1 DEF Marked
  <2>4. SourceShippedOnce'
    BY <1>0 DEF Marked, SourceShippedOnce, Sources
  <2>5. \A i \in Sources(1 .. Len(content))' : content'[i].of \in shipped'
    BY <1>0, <2>1, <2>2 DEF Sources
  <2>6. ASSUME NEW u \in Threads, thread'[u].at = "ship"
        PROVE  /\ ClassOf[thread'[u].fp] \in shipped'
               /\ \A i \in Sources(1 .. Len(content))' : content'[i].of # ClassOf[thread'[u].fp]
    <3>1. CASE u = t
      BY <1>0, <2>1, <2>2, <3>1 DEF Sources, c
    <3>2. CASE u # t
      BY <1>0, <2>1, <2>6, <3>2 DEF Marked, Sources
    <3> QED
      BY <3>1, <3>2
  <2>7. ASSUME NEW u \in Threads, NEW w \in Threads, thread'[u].at = "ship", thread'[w].at = "ship",
               ClassOf[thread'[u].fp] = ClassOf[thread'[w].fp]
        PROVE  u = w
    <3>1. u # t /\ w # t => u = w
      BY <2>1, <2>7 DEF Marked
    <3>2. u = t /\ w # t => FALSE
      BY <2>1, <2>3, <2>7 DEF c
    <3>3. u # t /\ w = t => FALSE
      BY <2>1, <2>3, <2>7 DEF c
    <3> QED
      BY <3>1, <3>2, <3>3
  <2> QED
    BY <2>4, <2>5, <2>6, <2>7 DEF Marked
<1>2. CASE c \notin loaded \ shipped
  <2>1. /\ thread'[t].at = "event" /\ shipped' = shipped
        /\ \A u \in Threads : u # t => thread'[u] = thread[u]
    BY <1>0, <1>2 DEF TakeUnshipped, Goto, CallbackState
  <2> QED
    BY <1>0, <2>1, MarksKept
<1> QED
  BY <1>1, <1>2

LEMMA ShipMarks ==
  ASSUME Types, Marked, NEW t \in Threads, ShipSource(t)
  PROVE  Marked'
<1> DEFINE c == ClassOf[thread[t].fp]
           n == Len(content)
<1>1. /\ thread \in [Threads -> CallbackState] /\ thread[t] \in CallbackState
      /\ thread[t].fp \in Fingerprints /\ thread[t].at = "ship"
  BY DEF Types, ThreadTypes, MayBe, ShipSource
<1>2. /\ thread'[t].at = "event" /\ shipped' = shipped
      /\ \A u \in Threads : u # t => thread'[u] = thread[u]
  BY <1>1 DEF ShipSource, Goto, CallbackState, sourceVars
<1>3. SourceMsg(c) \in Message /\ Enqueue(SourceMsg(c)) /\ SourceMsg(c).of = c
  BY <1>1, MessageTypes DEF ShipSource, SourceMsg
<1>4. /\ Len(content') = n + 1 /\ content'[n + 1].of = c /\ n \in Nat
      /\ \A i \in 1 .. n : content'[i] = content[i]
  BY <1>3, EnqueueTypes DEF Types, QueueTypes
<1>5. c \in shipped /\ \A i \in Sources(1 .. n) : content[i].of # c /\ content[i].of \in shipped
  BY <1>1 DEF Marked
<1>6. \A u \in Threads : u # t /\ thread[u].at = "ship" => ClassOf[thread[u].fp] # c
  BY <1>1 DEF Marked
<1> HIDE DEF c, n
<1>7. ASSUME NEW i \in Sources(1 .. Len(content))'
      PROVE  (i \in Sources(1 .. n) /\ content'[i] = content[i]) \/ i = n + 1
  <2>1. i \in 1 .. n + 1 /\ content'[i].kind = "source"
    BY <1>4, <1>7 DEF Sources
  <2>2. i \in 1 .. n \/ i = n + 1
    BY <1>4, <2>1
  <2> QED
    BY <1>4, <2>1, <2>2 DEF Sources
<1>8. SourceShippedOnce'
  <2> SUFFICES ASSUME NEW i \in Sources(1 .. Len(content))', NEW j \in Sources(1 .. Len(content))',
                      content'[i].of = content'[j].of
               PROVE  i = j
    BY DEF SourceShippedOnce
  <2>1. i \in Sources(1 .. n) /\ j \in Sources(1 .. n) => i = j
    BY <1>7, <1>4 DEF Marked, SourceShippedOnce, n, Sources
  <2> QED
    BY <1>4, <1>5, <1>7, <2>1
<1>9. \A i \in Sources(1 .. Len(content))' : content'[i].of \in shipped'
  BY <1>2, <1>4, <1>5, <1>7
<1>10. ASSUME NEW u \in Threads, thread'[u].at = "ship"
       PROVE  /\ ClassOf[thread'[u].fp] \in shipped'
              /\ \A i \in Sources(1 .. Len(content))' : content'[i].of # ClassOf[thread'[u].fp]
  <2>1. u # t /\ thread'[u] = thread[u] /\ ClassOf[thread[u].fp] # c
    BY <1>2, <1>6, <1>10
  <2> QED
    BY <1>2, <1>4, <1>7, <1>10, <2>1 DEF Marked, n
<1>11. ASSUME NEW u \in Threads, NEW w \in Threads, thread'[u].at = "ship", thread'[w].at = "ship",
              ClassOf[thread'[u].fp] = ClassOf[thread'[w].fp]
       PROVE  u = w
  BY <1>2, <1>11 DEF Marked
<1> QED
  BY <1>8, <1>9, <1>10, <1>11 DEF Marked

LEMMA NextMarks == ASSUME Types, Marked, [Next]_vars PROVE Marked'
<1>0. /\ thread \in [Threads -> CallbackState] /\ summaries \in SUBSET SummaryMessages
      /\ \A m \in SummaryMessages : m \in Message /\ m.kind # "source"
      /\ \A t \in Threads : /\ thread[t] \in CallbackState
                            /\ thread[t].out \in SUBSET SummaryMessages
                            /\ thread[t].at # "idle" => thread[t].fp \in Fingerprints
  BY DEF Types, ThreadTypes, MayBe, LifeTypes, SummaryMessages, CallbackState
<1>1. CASE UNCHANGED vars \/ (\E c \in Classes : LoadClass(c)) \/ Settle \/ WorkerLeaves
  <2>1. UNCHANGED <<content, shipped, thread>>
    BY <1>1 DEF vars, sourceVars, LoadClass, Settle, WorkerLeaves
  <2> QED
    BY <2>1, MarksKept
<1>2. CASE Lifecycle
  <2>1. UNCHANGED <<shipped, thread>>
    BY <1>2 DEF Lifecycle, OnLoad, EnableCapture, Register, DisableCapture, ForceDrain, StopQueue,
       Join, FlushLast, sourceVars
  <2>2. UNCHANGED content \/ Register \/ \E msg \in summaries : FlushLast(msg)
    BY <1>2 DEF Lifecycle, OnLoad, EnableCapture, DisableCapture, ForceDrain, StopQueue, Join
  <2>3. Register => \E msg \in Message : Enqueue(msg) /\ msg.kind # "source"
    BY MessageTypes DEF Register, StartMsg
  <2>4. \A msg \in summaries : FlushLast(msg) => Enqueue(msg)
    BY DEF FlushLast
  <2>5. UNCHANGED content \/ \E msg \in Message : Enqueue(msg) /\ msg.kind # "source"
    BY <1>0, <2>2, <2>3, <2>4
  <2> QED
    BY <2>1, <2>5, MarksKept
<1>3. ASSUME NEW t \in Threads, Callback(t) PROVE Marked'
  <2>1. CASE TakeUnshipped(t) \/ ShipSource(t)
    BY <2>1, TakeMarks, ShipMarks
  <2>2. CASE EnqueueEvent(t)
    <3>1. EventMsg(thread[t].fp, thread[t].hit) \in Message
      BY <1>0, <2>2, MessageTypes DEF EnqueueEvent, CallbackState
    <3>2. UNCHANGED shipped /\ \A u \in Threads : thread'[u].at = "ship" => thread'[u] = thread[u]
      BY <1>0, <2>2 DEF EnqueueEvent, Goto, sourceVars, CallbackState
    <3>3. \E msg \in Message : Enqueue(msg) /\ msg.kind # "source"
      BY <2>2, <3>1 DEF EnqueueEvent, EventMsg
    <3> QED
      BY <3>2, <3>3, MarksKept
  <2>3. ASSUME NEW msg \in thread[t].out, FlushOne(t, msg) PROVE Marked'
    <3>1. UNCHANGED shipped /\ \A u \in Threads : thread'[u].at = "ship" => thread'[u] = thread[u]
      BY <1>0, <2>3 DEF FlushOne, sourceVars, CallbackState, Idle
    <3>2. \E m \in Message : Enqueue(m) /\ m.kind # "source"
      BY <1>0, <2>3 DEF FlushOne
    <3> QED
      BY <3>1, <3>2, MarksKept
  <2>4. ASSUME \/ \E f \in Fingerprints : Throw(t, f)
               \/ \E place \in {"source", "event", "record"} : Decide(t, place)
               \/ Record(t) \/ CaptureFails(t) \/ DrainNotDue(t) \/ DrainDue(t)
        PROVE  Marked'
    <3>1. UNCHANGED <<content, shipped>>
      BY <2>4 DEF Throw, Decide, Record, CaptureFails, DrainNotDue, DrainDue, sourceVars
    <3>2. \A u \in Threads : thread'[u].at = "ship" => thread'[u] = thread[u]
      <4>1. ASSUME NEW f \in Fingerprints, Throw(t, f)
            PROVE  \A u \in Threads : thread'[u].at = "ship" => thread'[u] = thread[u]
        BY <1>0, <4>1 DEF Throw
      <4>2. ASSUME NEW place \in {"source", "event", "record"}, Decide(t, place)
            PROVE  \A u \in Threads : thread'[u].at = "ship" => thread'[u] = thread[u]
        <5> DEFINE h == hits[thread[t].fp] + 1
        <5>1. thread' = [thread EXCEPT ![t] = [thread[t] EXCEPT !.at = place, !.hit = h]]
          BY <1>0, <4>2 DEF Decide
        <5> HIDE DEF h
        <5>2. [thread[t] EXCEPT !.at = place, !.hit = h].at = place
          BY <1>0 DEF CallbackState
        <5> QED
          BY <1>0, <5>1, <5>2
      <4>3. CASE Record(t)
        BY <1>0, <4>3 DEF Record, Goto, CallbackState
      <4>4. CASE CaptureFails(t) \/ DrainNotDue(t)
        BY <1>0, <4>4 DEF CaptureFails, DrainNotDue, Idle
      <4>5. CASE DrainDue(t)
        <5>1. thread' = [thread EXCEPT ![t] = [thread[t] EXCEPT !.at = "flush", !.out = Summaries]]
          BY <1>0, <4>5 DEF DrainDue
        <5>2. [thread[t] EXCEPT !.at = "flush", !.out = Summaries].at = "flush"
          BY <1>0 DEF CallbackState
        <5> QED
          BY <1>0, <5>1, <5>2
      <4> QED
        BY <2>4, <4>1, <4>2, <4>3, <4>4, <4>5
    <3> QED
      BY <3>1, <3>2, MarksKept
  <2> QED
    BY <1>3, <2>1, <2>2, <2>3, <2>4 DEF Callback
<1> QED
  BY <1>1, <1>2, <1>3 DEF Next

\* No class is uploaded twice, however many threads capture its frames at once:
\* take_unshipped() tests and marks in one step (source_cache.cpp:44-51).
THEOREM UploadsAreUnique == Spec => []SourceShippedOnce
<1>1. Init => Marked
  <2> SUFFICES ASSUME Init PROVE Marked
    OBVIOUS
  <2>1. Sources(1 .. Len(content)) = {}
    <3>1. Len(content) = 0
      BY EmptySeq DEF Init
    <3> QED
      BY <3>1 DEF Sources
  <2> QED
    BY <2>1 DEF Init, Idle, Marked, SourceShippedOnce
<1>2. Types /\ Marked /\ [Next]_vars => Marked'
  BY NextMarks
<1>3. Marked => SourceShippedOnce
  BY DEF Marked
<1> QED
  BY <1>1, <1>2, <1>3, TypesAndBalance, PTL DEF Spec
-----------------------------------------------------------------------------
(* The VM's death.                                                         *)

\* What is offered after stop() waits behind what was offered before.
LEMMA OfferedLate ==
  ASSUME Types, NEW msg, Enqueue(msg), waiting \in Seq(Nat),
         \A i \in 1 .. Len(waiting) : waiting[i] > early
  PROVE  \A i \in 1 .. Len(waiting') : waiting'[i] > early'
<1>1. early' = early /\ offered \in Nat /\ early \in 0 .. offered /\ Len(waiting) \in Nat
  BY LenProperties DEF Enqueue, Types, QueueTypes
<1>2. CASE waiting' = waiting
  BY <1>1, <1>2
<1>3. CASE waiting' = Append(waiting, offered + 1)
  <2>1. /\ Len(waiting') = Len(waiting) + 1 /\ waiting'[Len(waiting) + 1] = offered + 1
        /\ \A i \in 1 .. Len(waiting) : waiting'[i] = waiting[i]
    BY <1>1, <1>3, AppendProperties
  <2>2. offered + 1 > early
    BY <1>1
  <2>3. \A i \in 1 .. Len(waiting') : i \in 1 .. Len(waiting) \/ i = Len(waiting) + 1
    BY <1>1, <2>1
  <2> QED
    BY <1>1, <2>1, <2>2, <2>3
<1> QED
  BY <1>2, <1>3 DEF Enqueue, Ledger!Accept, Ledger!Refuse

\* A callback offers events; in a quiet death there is none.
LEMMA CallbackPhases ==
  ASSUME Types, Phases, waiting \in Seq(Nat), NEW t \in Threads, Callback(t)
  PROVE  Phases'
<1>1. UNCHANGED <<life, started, cutShort, worker, early>>
  BY DEF Callback, Throw, Decide, Record, TakeUnshipped, ShipSource, EnqueueEvent,
     CaptureFails, DrainNotDue, DrainDue, FlushOne, queueVars, lifeVars, Enqueue
<1>2. UNCHANGED waiting \/ \E msg : Enqueue(msg)
  BY DEF Callback, Throw, Decide, Record, TakeUnshipped, ShipSource, EnqueueEvent,
     CaptureFails, DrainNotDue, DrainDue, FlushOne, queueVars, ledgerVars
<1>3. started \/ thread[t].at # "idle"
  BY DEF Callback, Throw, Decide, Record, TakeUnshipped, ShipSource, EnqueueEvent,
     CaptureFails, DrainNotDue, DrainDue, FlushOne
<1>4. worker = "gone" => \A i \in 1 .. Len(waiting') : waiting'[i] > early'
  BY <1>1, <1>2, OfferedLate DEF Phases
<1>5. cutShort \/ life \in {"unloaded", "loaded", "enabled", "live"}
  BY <1>3 DEF Phases, Types, LifeTypes
<1> QED
  BY <1>1, <1>4, <1>5 DEF Phases

LEMMA LifecyclePhases ==
  ASSUME Types, Phases, waiting \in Seq(Nat), Lifecycle
  PROVE  Phases'
<1>1. CASE OnLoad
  BY <1>1 DEF OnLoad, Phases, ledgerVars
<1>2. CASE EnableCapture
  BY <1>2 DEF EnableCapture, Phases, queueVars, ledgerVars
<1>3. CASE Register
  BY <1>3 DEF Register, Phases, Enqueue
<1>4. CASE DisableCapture
  BY <1>4 DEF DisableCapture, Phases, queueVars, ledgerVars
<1>5. CASE ForceDrain
  BY <1>5 DEF ForceDrain, Phases, queueVars, ledgerVars, SwapPending
<1>6. CASE StopQueue
  BY <1>6 DEF StopQueue, Phases, ledgerVars, countVars
<1>7. CASE Join
  BY <1>7 DEF Join, Phases, queueVars, ledgerVars, countVars
<1>8. ASSUME NEW msg \in summaries, FlushLast(msg) PROVE Phases'
  BY <1>8 DEF FlushLast, Phases, Enqueue, countVars
<1> QED
  BY <1>1, <1>2, <1>3, <1>4, <1>5, <1>6, <1>7, <1>8 DEF Lifecycle

LEMMA NextPhases ==
  ASSUME Types, Phases, waiting \in Seq(Nat), [Next]_vars
  PROVE  Phases'
<1>1. CASE UNCHANGED vars \/ \E c \in Classes : LoadClass(c)
  BY <1>1 DEF vars, LoadClass, queueVars, ledgerVars, lifeVars, countVars, Phases
<1>2. CASE Settle
  <2>1. /\ worker # "gone"
        /\ UNCHANGED <<worker, offered, early, started, life, cutShort, pending, thread>>
    BY <1>2 DEF Settle, lifeVars, countVars, Ledger!Deliver, Ledger!WriteOff
  <2> QED
    BY <2>1 DEF Phases
<1>3. CASE WorkerLeaves
  <2>1. /\ worker = "stopping" /\ worker' = "gone"
        /\ \A i \in 1 .. Len(waiting) : waiting[i] > early
        /\ UNCHANGED <<waiting, offered, early, started, life, cutShort, pending, thread>>
    BY <1>3 DEF WorkerLeaves, ledgerVars, lifeVars, countVars
  <2> QED
    BY <2>1 DEF Phases
<1> QED
  BY <1>1, <1>2, <1>3, CallbackPhases, LifecyclePhases DEF Next

\* With nothing in hand, in the aggregator or in the queue, every throw is
\* settled, dropped or lost.
LEMMA DeadAndQuiet ==
  ASSUME Types, Balance, Phases, LP!Inv, life = "dead", ~cutShort, NEW f \in Fingerprints
  PROVE  hits[f] = Sent(f, delivered \cup lost) + overflow[f] + failed[f]
<1>1. /\ \A t \in Threads : thread[t].at = "idle"
      /\ pending = <<>> /\ early = offered /\ summaries = {}
      /\ \A i \in 1 .. Len(waiting) : waiting[i] > early
  BY DEF Phases, Types, LifeTypes
<1>2. InHand(f) = 0
  <2> DEFINE F == [t \in Threads |-> HeldBy(t, f)]
  <2>1. \A t \in Threads : Holds(thread[t], f) = 0
    BY <1>1, EmptyHands DEF Types
  <2>2. \A t \in Threads : F[t] = 0
    BY <2>1 DEF HeldBy, Holds
  <2> HIDE DEF F
  <2>3. SumFunctionOnSet(F, Threads) = 0
    BY <2>2, SumZero
  <2>4. MessagesAt({}, f) = {}
    BY DEF MessagesAt
  <2>5. Occurrences(MessagesAt(summaries, f)) = 0
    BY <1>1, <2>4, OccurrencesNone
  <2> QED
    BY <2>3, <2>5 DEF InHand, F, MessagesAt
<1>3. Aggregated(f) = 0
  BY <1>1 DEF Aggregated
<1>4. delivered \cup lost = 1 .. Len(content)
  <2>1. /\ waiting \in Seq(Nat) /\ offered \in Nat /\ Len(content) = offered
        /\ (delivered \cup lost) \cup LP!Range(waiting) = 1 .. offered
    BY DEF LP!Inv, LP!LedgerType, LP!Conserved, Types, QueueTypes
  <2>2. LP!Range(waiting) = {}
    <3>1. ASSUME NEW x \in LP!Range(waiting) PROVE FALSE
      <4>1. PICK i \in 1 .. Len(waiting) : x = waiting[i]
        BY <2>1, LenProperties DEF LP!Range
      <4>2. x > offered /\ x \in 1 .. offered
        BY <1>1, <2>1, <4>1
      <4> QED
        BY <2>1, <4>2
    <3> QED
      BY <3>1
  <2> QED
    BY <2>1, <2>2
<1>5. Held(f) = Sent(f, delivered \cup lost)
  <2> DEFINE s == Sent(f, 1 .. Len(content))
  <2>1. s \in Nat /\ s = Sent(f, delivered \cup lost)
    BY <1>4, Numbers
  <2>2. Held(f) = 0 + 0 + s
    BY <1>2, <1>3 DEF Held
  <2> HIDE DEF s
  <2> QED
    BY <2>1, <2>2
<1> QED
  BY <1>5, BalanceIs

\* A VM that dies with no callback under way accounts for every throw: vm_death
\* drains the aggregator, then stops the queue and joins its worker
\* (agent_main.cpp:50-69, async_queue.cpp:57-71).
THEOREM QuietDeathIsClean == Spec => []QuietDeathLosesNothing
<1>1. Init => Phases
  BY DEF Init, Ledger!Init, Phases
<1>2. LP!Inv => waiting \in Seq(Nat)
  BY DEF LP!Inv, LP!LedgerType
<1>3. Types /\ LP!Inv /\ Phases /\ [Next]_vars => Phases'
  BY <1>2, NextPhases
<1>4. Types /\ Balance /\ Phases /\ LP!Inv => QuietDeathLosesNothing
  BY DeadAndQuiet DEF QuietDeathLosesNothing
<1> QED
  BY <1>1, <1>3, <1>4, TypesAndBalance, QueueConserves, PTL DEF Spec
=============================================================================
