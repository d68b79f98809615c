----------------------------- MODULE AsyncQueue -----------------------------
(***************************************************************************)
(* The agent's event queue (agent/src/async_queue.cpp): a bounded deque    *)
(* filled by any number of throwing threads and drained by one worker that *)
(* batches, posts, retries, requeues, and on stop() drains within a time   *)
(* budget and exits.                                                       *)
(*                                                                         *)
(* One action is one critical section under mu_, one read or write of the  *)
(* atomic running_, or one answer of the transport, together with the      *)
(* thread-local work up to the next one.  Time is not measured here: a     *)
(* timed wait may end at any moment and the shutdown budget may run out at *)
(* any moment after stop() (module WorkerClock measures them).             *)
(*                                                                         *)
(* Events are numbered by the order in which enqueue() takes mu_, which is *)
(* all that tells them apart, so the throwing threads are the environment  *)
(* of Enqueue and need no names.  delivered, lost and lateFrom are         *)
(* history variables: no guard reads them.                                 *)
(***************************************************************************)
EXTENDS Naturals, Sequences, FiniteSets, Functions

CONSTANTS
    MaxQueue,     \* kMaxQueue
    BatchSize,    \* kBatchSize
    SendRetries,  \* kSendRetries
    MaxEvents     \* bound: events offered in one behaviour

ASSUME ConstantsAssumption ==
    /\ MaxQueue \in Nat \ {0}
    /\ BatchSize \in Nat \ {0}
    /\ SendRetries \in Nat
    /\ MaxEvents \in Nat

VARIABLES
    queue,      \* queue_
    running,    \* running_
    dropped,    \* dropped_
    rejects,    \* permanent_rejects_
    budget,     \* stop_deadline_: "unset", "open" or "spent"
    pc,         \* where the worker thread is
    batch,      \* run()'s local batch
    stopping,   \* run()'s local stopping, read before the send
    attempt,    \* send_with_retry()'s loop counter
    offered,    \* number of enqueue() calls so far
    delivered,  \* history: events of acknowledged batches
    lost,       \* history: events refused or thrown away
    lateFrom    \* history: first event id offered after stop(), 0 before stop()

workerVars == <<pc, batch, stopping, attempt>>
history    == <<delivered, lost, lateFrom>>
vars == <<queue, running, dropped, rejects, budget, pc, batch, stopping, attempt,
          offered, delivered, lost, lateFrom>>

PC == {"unborn", "collect", "check", "dropall", "send", "retry", "backoff",
       "giveup", "tail", "exited"}

\* The worker holds a batch popped from the queue and not settled yet.
Holding == {"check", "dropall", "send", "retry", "backoff", "giveup"}

MinOf(m, n) == IF m <= n THEN m ELSE n
-----------------------------------------------------------------------------
Init ==
    /\ queue = <<>>
    /\ running = FALSE
    /\ dropped = 0
    /\ rejects = 0
    /\ budget = "unset"
    /\ pc = "unborn"
    /\ batch = <<>>
    /\ stopping = FALSE
    /\ attempt = 0
    /\ offered = 0
    /\ delivered = {}
    /\ lost = {}
    /\ lateFrom = 0

\* start(): the compare-exchange succeeds once; the worker begins in run().
Start ==
    /\ pc = "unborn"
    /\ ~running
    /\ running' = TRUE
    /\ pc' = "collect"
    /\ UNCHANGED <<queue, dropped, rejects, budget, batch, stopping, attempt,
                   offered, history>>

\* stop(), up to the join: publish the deadline, then flip running_.
Stop ==
    /\ running
    /\ running' = FALSE
    /\ budget' = "open"
    /\ lateFrom' = offered + 1
    /\ UNCHANGED <<queue, dropped, rejects, workerVars, offered, delivered, lost>>

\* now() passes stop_deadline_.
BudgetRunsOut ==
    /\ budget = "open"
    /\ budget' = "spent"
    /\ UNCHANGED <<queue, running, dropped, rejects, workerVars, offered, history>>

\* enqueue(): never looks at running_; a full queue refuses and counts.
Enqueue ==
    /\ offered < MaxEvents
    /\ offered' = offered + 1
    /\ \/ /\ Len(queue) >= MaxQueue
          /\ dropped' = dropped + 1
          /\ lost' = lost \cup {offered + 1}
          /\ UNCHANGED queue
       \/ /\ Len(queue) < MaxQueue
          /\ queue' = Append(queue, offered + 1)
          /\ UNCHANGED <<dropped, lost>>
    /\ UNCHANGED <<running, rejects, budget, workerVars, delivered, lateFrom>>
-----------------------------------------------------------------------------
\* run(), first critical section: the wait has ended, pop up to a batch.  An
\* empty queue loops back, or ends the worker when the queue is stopping.
CollectBatch ==
    /\ pc = "collect"
    /\ queue # <<>>
    /\ LET n == MinOf(BatchSize, Len(queue)) IN
         /\ batch' = SubSeq(queue, 1, n)
         /\ queue' = SubSeq(queue, n + 1, Len(queue))
    /\ pc' = "check"
    /\ UNCHANGED <<running, dropped, rejects, budget, stopping, attempt, offered, history>>

\* Mutated form: the wait loop never looks at running_ when it finds nothing.
CollectNothingLoops ==
    /\ pc = "collect"
    /\ queue = <<>>
    /\ UNCHANGED vars

CollectNothing ==
    /\ pc = "collect"
    /\ queue = <<>>
    /\ ~running
    /\ pc' = "exited"
    /\ UNCHANGED <<queue, running, dropped, rejects, budget, batch, stopping,
                   attempt, offered, history>>

\* run() reads running_ again, outside the lock, and compares the deadline.
CheckDeadline ==
    /\ pc = "check"
    /\ stopping' = ~running
    /\ pc' = IF ~running /\ budget = "spent" THEN "dropall" ELSE "send"
    /\ attempt' = 0
    /\ UNCHANGED <<queue, running, dropped, rejects, budget, batch, offered, history>>

\* drop_batch_and_queue(): what it adds to dropped_, and the whole of it.
\* (Mutated form: the batch is cleared before it is counted.)
CountAfterClear(b, q) == Len(q)

DropCount(b, q) == Len(b) + Len(q)

DropBatchAndQueue(extra) ==
    /\ dropped' = dropped + extra + DropCount(batch, queue)
    /\ lost' = lost \cup Range(batch) \cup Range(queue)
    /\ batch' = <<>>
    /\ queue' = <<>>

DropAndExit ==
    /\ pc = "dropall"
    /\ DropBatchAndQueue(0)
    /\ pc' = "exited"
    /\ UNCHANGED <<running, rejects, budget, stopping, attempt, offered, delivered, lateFrom>>

\* transport_->send() answers kOk.
SendOk ==
    /\ pc = "send"
    /\ delivered' = delivered \cup Range(batch)
    /\ batch' = <<>>
    /\ pc' = "tail"
    /\ UNCHANGED <<queue, running, dropped, rejects, budget, stopping, attempt,
                   offered, lost, lateFrom>>

\* transport_->send() answers kPermanent: count the batch, and when this
\* iteration began after stop() throw everything away.
SendPermanent ==
    /\ pc = "send"
    /\ rejects' = rejects + 1
    /\ \/ /\ stopping
          /\ DropBatchAndQueue(Len(batch))
       \/ /\ ~stopping
          /\ dropped' = dropped + Len(batch)
          /\ lost' = lost \cup Range(batch)
          /\ batch' = <<>>
          /\ UNCHANGED queue
    /\ pc' = "tail"
    /\ UNCHANGED <<running, budget, stopping, attempt, offered, delivered, lateFrom>>

\* transport_->send() answers kRetryable.
SendRetryable ==
    /\ pc = "send"
    /\ pc' = "retry"
    /\ UNCHANGED <<queue, running, dropped, rejects, budget, batch, stopping,
                   attempt, offered, history>>

\* send_with_retry() gives up when running_ has gone false or on the last
\* attempt; otherwise it backs off, and the backoff may end at any moment.
LastAttempt == attempt = SendRetries

DecideRetry ==
    /\ pc = "retry"
    /\ pc' = IF ~running \/ LastAttempt THEN "giveup" ELSE "backoff"
    /\ UNCHANGED <<queue, running, dropped, rejects, budget, batch, stopping,
                   attempt, offered, history>>

EndBackoff ==
    /\ pc = "backoff"
    /\ attempt' = attempt + 1
    /\ pc' = "send"
    /\ UNCHANGED <<queue, running, dropped, rejects, budget, batch, stopping,
                   offered, history>>

\* requeue_front(): the newest events of the batch go back first, so what does
\* not fit, and is dropped, is the oldest part of the batch.  (Mutated
\* form: a batch that failed is always dropped.)
OverflowAll(b, q) == Len(b)

Overflow(b, q) == IF Len(b) + Len(q) <= MaxQueue THEN 0
                  ELSE IF Len(q) >= MaxQueue THEN Len(b)
                  ELSE Len(b) + Len(q) - MaxQueue

\* (Mutated forms: pushed at the back; pushed front to back, so the newest are
\* the ones that do not fit; forgotten.)
RequeuedAtBack(b, q)     == q \o SubSeq(b, Overflow(b, q) + 1, Len(b))
RequeuedOldestOnly(b, q) == SubSeq(b, 1, Len(b) - Overflow(b, q)) \o q
RequeuedNothing(b, q)    == q

Requeued(b, q) == SubSeq(b, Overflow(b, q) + 1, Len(b)) \o q

RequeueFront ==
    LET k == Overflow(batch, queue) IN
      /\ queue' = Requeued(batch, queue)
      /\ dropped' = dropped + k
      /\ lost' = lost \cup Range(SubSeq(batch, 1, k))
      /\ batch' = <<>>

\* (Mutated form: a batch that failed is put back whether or not the queue is
\* stopping.)
GiveUpRequeues ==
    /\ pc = "giveup"
    /\ RequeueFront
    /\ pc' = "tail"
    /\ UNCHANGED <<running, rejects, budget, stopping, attempt, offered, delivered, lateFrom>>

GiveUp ==
    /\ pc = "giveup"
    /\ \/ stopping /\ DropBatchAndQueue(0)
       \/ ~stopping /\ RequeueFront
    /\ pc' = "tail"
    /\ UNCHANGED <<running, rejects, budget, stopping, attempt, offered, delivered, lateFrom>>

\* End of the loop body: leave when stopping and nothing is queued.  (Mutated
\* form: leave as soon as stopping.)
LeaveAtOnce ==
    /\ pc = "tail"
    /\ pc' = IF ~running THEN "exited" ELSE "collect"
    /\ UNCHANGED <<queue, running, dropped, rejects, budget, batch, stopping,
                   attempt, offered, history>>

LoopEnd ==
    /\ pc = "tail"
    /\ pc' = IF ~running /\ queue = <<>> THEN "exited" ELSE "collect"
    /\ UNCHANGED <<queue, running, dropped, rejects, budget, batch, stopping,
                   attempt, offered, history>>
-----------------------------------------------------------------------------
Worker ==
    \/ CollectBatch \/ CollectNothing \/ CheckDeadline \/ DropAndExit
    \/ SendOk \/ SendPermanent \/ SendRetryable
    \/ DecideRetry \/ EndBackoff \/ GiveUp \/ LoopEnd

Next == Start \/ Stop \/ BudgetRunsOut \/ Enqueue \/ Worker

Spec == Init /\ [][Next]_vars
-----------------------------------------------------------------------------
(***************************************************************************)
(* Properties                                                              *)
(***************************************************************************)
Pending == batch \o queue
Settled == delivered \cup lost
Exited  == pc = "exited"

TypeOK ==
    /\ queue \in Seq(Nat \ {0})
    /\ batch \in Seq(Nat \ {0})
    /\ running \in BOOLEAN
    /\ stopping \in BOOLEAN
    /\ dropped \in Nat
    /\ rejects \in Nat
    /\ budget \in {"unset", "open", "spent"}
    /\ pc \in PC
    /\ attempt \in 0 .. SendRetries
    /\ offered \in Nat
    /\ lateFrom \in Nat
    /\ delivered \subseteq Nat \ {0}
    /\ lost \subseteq Nat \ {0}

\* The deque never exceeds kMaxQueue even though a whole batch is pushed back
\* in front of events that arrived while it was being posted.
QueueBounded == Len(queue) <= MaxQueue

\* No event is forgotten or held twice: each one offered is in exactly one of
\* the worker's batch, the queue, the acknowledged set and the thrown-away set,
\* and those still pending are in the order in which enqueue() accepted them.
NothingForgotten ==
    /\ \A i, j \in 1 .. Len(Pending) : i < j => Pending[i] < Pending[j]
    /\ delivered \cap lost = {}
    /\ Settled \cap Range(Pending) = {}
    /\ Settled \cup Range(Pending) = 1 .. offered

\* Losses are visible: dropped() is never less than the number of events that
\* were refused or thrown away, and it is exact until stop() is called.
LossesCounted ==
    /\ dropped >= Cardinality(lost)
    /\ lateFrom = 0 => dropped = Cardinality(lost)

\* When the worker has gone, whatever was offered before stop() was called has
\* been acknowledged or counted; only later arrivals can be left in the queue.
DrainComplete ==
    Exited => 1 .. (lateFrom - 1) \subseteq Settled

\* A transient outage by itself loses nothing: while the queue has not been
\* stopped, an accepted event is thrown away only on a permanent rejection or
\* because the queue is full.
OutageLosesNothing ==
    [][(dropped' > dropped /\ lateFrom = 0) =>
         (rejects' > rejects \/ Len(queue') = MaxQueue)]_vars

\* stop() returns: the worker reaches its end after running_ is cleared, even
\* when the collector never answers with anything but a retryable failure.
StopReturns == (lateFrom # 0) ~> Exited

\* An assumption about the collector, not the agent: a batch that is posted again
\* and again is answered with something other than kRetryable at last.
CollectorRecovers == SF_vars(SendOk \/ SendPermanent)

\* If the collector recovers, every event offered before stop() is acknowledged
\* or counted, however often its batch is put back.
EarlyEventsSettle ==
    CollectorRecovers =>
        \A e \in 1 .. MaxEvents :
            (e <= offered /\ pc # "unborn" /\ lateFrom = 0) ~> (e \in Settled)

Ledger == INSTANCE DeliveryLedger WITH
    pending <- Pending, RefuseAt <- MaxQueue, Capacity <- MaxQueue + BatchSize

\* The queue is a FIFO ledger: events leave strictly from the front, whether
\* acknowledged or thrown away, and are refused only when kMaxQueue are waiting.
LedgerSpec == Ledger!Spec
=============================================================================
