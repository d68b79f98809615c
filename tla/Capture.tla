------------------------------- MODULE Capture -------------------------------
(***************************************************************************)
(* The agent's capture pipeline: the Exception callback on any number of   *)
(* application threads (agent/src/exception_handler.cpp), the COUNT_ONLY   *)
(* aggregator and the class-source cache they share, the VM's lifecycle    *)
(* callbacks (agent/src/agent_main.cpp) and the queue they all feed.  The  *)
(* queue is taken at the level of its abstract specification, the ledger   *)
(* that AsyncQueue is proved to implement, with what else that module      *)
(* promises: nothing leaves before start() or after the worker has gone,   *)
(* and the worker goes only when everything offered before stop() is       *)
(* settled (AsyncQueue's DrainComplete).                                   *)
(*                                                                         *)
(* One action is one critical section of a shared object (sampler stripe,  *)
(* aggregator, source cache, queue) with the thread-local work before it.  *)
(* The reentrance guard and the two filters leave no trace when they turn  *)
(* a throw away, so only throws that pass them appear.  The sampler's      *)
(* verdict is any tier, except that a fingerprint's first hit is FULL      *)
(* (module Sampler computes it); its flush timer may or may not be due.    *)
(* The code tries to ship the class of every app frame on a stack, one     *)
(* after the other; here a stack has one such class, or none.              *)
(*                                                                         *)
(* The queue numbers the events offered to it; content says what each is.  *)
(***************************************************************************)
EXTENDS Naturals, Sequences, FiniteSets, Functions

CONSTANTS
    MaxQueue,      \* AsyncQueue::kMaxQueue
    BatchSize,     \* AsyncQueue::kBatchSize
    Threads,       \* application threads that throw
    Fingerprints,  \* throw sites that pass the filters
    Classes,       \* app classes on the captured stacks
    ClassOf,       \* the app class whose frame a site's stack shows, or "none"
    MaxEntries,    \* CountAggregator::kMaxEntries
    MaxThrows,     \* bound: throws sampled in one behaviour
    MaxFailures    \* bound: throws lost so before no callback fails any more

ASSUME CaptureAssumption ==
    /\ ClassOf \in [Fingerprints -> Classes \cup {"none"}]
    /\ {MaxQueue, BatchSize, MaxEntries, MaxThrows, MaxFailures} \subseteq Nat
    /\ IsFiniteSet(Threads)

VARIABLES
    offered,     \* the queue: events offered so far,
    waiting,     \*   those accepted and not settled,
    delivered,   \*   those acknowledged,
    lost,        \*   those refused or thrown away,
    worker,      \*   its worker: "unborn", "running", "stopping" or "gone"
    early,       \*   and how many were offered before stop()
    content,     \* what each offered event is, by its number
    started,     \* AgentContext::started
    life,        \* where the lifecycle callbacks are
    summaries,   \* vm_death's local list of drained summaries
    hits,        \* the sampler's total per fingerprint
    pending,     \* CountAggregator::pending_
    overflow,    \* CountAggregator::overflow_dropped_
    loaded,      \* SourceCache::bytes_
    shipped,     \* SourceCache::shipped_
    thread,      \* each callback's progress and locals
    failed,      \* history: per fingerprint, throws an exception in a callback lost
    cutShort     \* history: a callback was under way when vm_death began

Ledger == INSTANCE DeliveryLedger WITH
    pending <- waiting, RefuseAt <- MaxQueue, Capacity <- MaxQueue + BatchSize

ledgerVars == <<offered, waiting, delivered, lost>>
queueVars  == <<ledgerVars, worker, early>>
countVars  == <<pending, overflow>>
sourceVars == <<loaded, shipped>>
lifeVars   == <<started, life, summaries, cutShort>>
vars == <<queueVars, content, lifeVars, hits, countVars, sourceVars, thread, failed>>

EventMsg(fp, hit)      == [kind |-> "event", of |-> fp, occurrences |-> 1, hit |-> hit]
SummaryMsg(fp, n, hit) == [kind |-> "summary", of |-> fp, occurrences |-> n, hit |-> hit]
SourceMsg(c)           == [kind |-> "source", of |-> c, occurrences |-> 0, hit |-> 0]
StartMsg               == [kind |-> "agent_start", of |-> "agent", occurrences |-> 0, hit |-> 0]

Idle == [at |-> "idle", fp |-> "none", hit |-> 0, out |-> {}]

Init ==
    /\ Ledger!Init
    /\ worker = "unborn"
    /\ early = 0
    /\ content = <<>>
    /\ started = FALSE
    /\ life = "unloaded"
    /\ summaries = {}
    /\ hits = [f \in Fingerprints |-> 0]
    /\ pending = <<>>
    /\ overflow = [f \in Fingerprints |-> 0]
    /\ loaded = {}
    /\ shipped = {}
    /\ thread = [t \in Threads |-> Idle]
    /\ failed = [f \in Fingerprints |-> 0]
    /\ cutShort = FALSE
-----------------------------------------------------------------------------
(* Shared objects.                                                         *)

\* AsyncQueue::enqueue(msg); its result is ignored by every caller.
Enqueue(msg) ==
    /\ Ledger!Accept \/ Ledger!Refuse
    /\ content' = Append(content, msg)
    /\ UNCHANGED <<worker, early>>

\* CountAggregator::record(): fold one occurrence into its summary, unless it
\* needs an entry and there is no room for one.  The prototype is overwritten.
RoomFor(f) == f \in DOMAIN pending \/ Cardinality(DOMAIN pending) < MaxEntries

RecordCount(f, hit) ==
    LET n == IF f \in DOMAIN pending THEN pending[f].count + 1 ELSE 1 IN
      \/ /\ RoomFor(f)
         /\ pending' = [g \in DOMAIN pending \cup {f} |->
                          IF g = f THEN [count |-> n, hit |-> hit] ELSE pending[g]]
         /\ UNCHANGED overflow
      \/ /\ ~RoomFor(f)
         /\ overflow' = [overflow EXCEPT ![f] = @ + 1]
         /\ UNCHANGED pending

\* CountAggregator::drain() when a flush is due: the whole map is swapped out.
Summaries == {SummaryMsg(f, pending[f].count, pending[f].hit) : f \in DOMAIN pending}

\* (Mutated form: the map is copied instead of swapped.)
CopyPending == UNCHANGED pending

SwapPending == pending' = <<>>

\* SourceCache::store() from the class-file load hook.
LoadClass(c) ==
    /\ life # "unloaded"
    /\ c \notin loaded
    /\ loaded' = loaded \cup {c}
    /\ UNCHANGED <<queueVars, content, lifeVars, hits, countVars, shipped, thread, failed>>
-----------------------------------------------------------------------------
(* exception_callback().                                                   *)

Occurrences(msgs) == SumFunctionOnSet([m \in msgs |-> m.occurrences], msgs)

\* Throws at f that t's callback has decided on and not passed on: its own, and
\* those in the summaries it has drained.
HeldBy(t, f) ==
    (IF thread[t].fp = f /\ thread[t].at \in {"source", "ship", "event", "record"}
     THEN 1 ELSE 0)
    + Occurrences({m \in thread[t].out : m.of = f})

Goto(t, place) == thread' = [thread EXCEPT ![t].at = place]

\* The callback begins: started is read once, here.
Throw(t, f) ==
    /\ thread[t].at = "idle"
    /\ started
    /\ thread' = [thread EXCEPT ![t] = [at |-> "decide", fp |-> f, hit |-> 0, out |-> {}]]
    /\ UNCHANGED <<queueVars, content, lifeVars, hits, countVars, sourceVars, failed>>

\* Sampler::decide(), under the stripe's lock.
Decide(t, place) ==
    LET f == thread[t].fp IN
      /\ thread[t].at = "decide"
      /\ SumFunction(hits) < MaxThrows
      /\ place \in IF hits[f] = 0 THEN {"source"} ELSE {"source", "event", "record"}
      /\ hits' = [hits EXCEPT ![f] = @ + 1]
      /\ thread' = [thread EXCEPT ![t] = [@ EXCEPT !.at = place, !.hit = hits[f] + 1]]
      /\ UNCHANGED <<queueVars, content, lifeVars, countVars, sourceVars, failed>>

\* COUNT_ONLY: aggregator.record().
Record(t) ==
    /\ thread[t].at = "record"
    /\ RecordCount(thread[t].fp, thread[t].hit)
    /\ Goto(t, "drain")
    /\ UNCHANGED <<queueVars, content, lifeVars, hits, sourceVars, failed>>

\* FULL: take_unshipped() for the class on the stack.  (Mutated form: the class
\* is not marked.)
TakeUnmarked(t) ==
    LET c == ClassOf[thread[t].fp] IN
      /\ thread[t].at = "source"
      /\ Goto(t, IF c \in loaded \ shipped THEN "ship" ELSE "event")
      /\ UNCHANGED <<queueVars, content, lifeVars, hits, countVars, sourceVars, failed>>

TakeUnshipped(t) ==
    LET c == ClassOf[thread[t].fp] IN
      /\ thread[t].at = "source"
      /\ IF c \in loaded \ shipped
         THEN Goto(t, "ship") /\ shipped' = shipped \cup {c}
         ELSE Goto(t, "event") /\ UNCHANGED shipped
      /\ UNCHANGED <<queueVars, content, lifeVars, hits, countVars, loaded, failed>>

ShipSource(t) ==
    /\ thread[t].at = "ship"
    /\ Enqueue(SourceMsg(ClassOf[thread[t].fp]))
    /\ Goto(t, "event")
    /\ UNCHANGED <<lifeVars, hits, countVars, sourceVars, failed>>

EnqueueEvent(t) ==
    /\ thread[t].at = "event"
    /\ Enqueue(EventMsg(thread[t].fp, thread[t].hit))
    /\ Goto(t, "drain")
    /\ UNCHANGED <<lifeVars, hits, countVars, sourceVars, failed>>

\* A C++ exception between the verdict and the last enqueue: the catch handlers
\* swallow it, and nothing counts what the callback had in hand.
CaptureFails(t) ==
    /\ thread[t].at \in {"source", "ship", "event", "record", "flush"}
    /\ SumFunction(failed) < MaxFailures
    /\ failed' = [f \in Fingerprints |-> failed[f] + HeldBy(t, f)]
    /\ thread' = [thread EXCEPT ![t] = Idle]
    /\ UNCHANGED <<queueVars, content, lifeVars, hits, countVars, sourceVars>>

\* flush_pending_counts(force = false): drain() finds the flush due or not.
DrainNotDue(t) ==
    /\ thread[t].at = "drain"
    /\ thread' = [thread EXCEPT ![t] = Idle]
    /\ UNCHANGED <<queueVars, content, lifeVars, hits, countVars, sourceVars, failed>>

DrainDue(t) ==
    /\ thread[t].at = "drain"
    /\ DOMAIN pending # {}
    /\ thread' = [thread EXCEPT ![t] = [@ EXCEPT !.at = "flush", !.out = Summaries]]
    /\ SwapPending
    /\ UNCHANGED <<queueVars, content, lifeVars, hits, overflow, sourceVars, failed>>

FlushOne(t, msg) ==
    LET rest == thread[t].out \ {msg} IN
      /\ thread[t].at = "flush"
      /\ msg \in thread[t].out
      /\ Enqueue(msg)
      /\ thread' = [thread EXCEPT ![t] = IF rest = {} THEN Idle ELSE [@ EXCEPT !.out = rest]]
      /\ UNCHANGED <<lifeVars, hits, countVars, sourceVars, failed>>
-----------------------------------------------------------------------------
(* agent_main.cpp.                                                         *)

\* Agent_OnLoad(): the queue's worker runs before the VM is up.
OnLoad ==
    /\ life = "unloaded"
    /\ life' = "loaded"
    /\ worker' = "running"
    /\ UNCHANGED <<ledgerVars, early, content, started, summaries, cutShort, hits, countVars, sourceVars,
                   thread, failed>>

\* vm_init(), or Agent_OnAttach() in a live VM: capture is enabled first ...
EnableCapture ==
    /\ life = "loaded"
    /\ life' = "enabled"
    /\ started' = TRUE
    /\ UNCHANGED <<queueVars, content, summaries, cutShort, hits, countVars, sourceVars,
                   thread, failed>>

\* ... and the instance registered after.
Register ==
    /\ life = "enabled"
    /\ life' = "live"
    /\ Enqueue(StartMsg)
    /\ UNCHANGED <<started, summaries, cutShort, hits, countVars, sourceVars, thread, failed>>

\* vm_death(): no new capture, then the forced drain, its events, stop(), join.
DisableCapture ==
    /\ life = "live"
    /\ life' = "disabled"
    /\ started' = FALSE
    /\ cutShort' = \E t \in Threads : thread[t].at # "idle"
    /\ UNCHANGED <<queueVars, content, summaries, hits, countVars, sourceVars, thread, failed>>

\* (Mutated form: the last drain honours the flush timer.)
ForceDrainWhenDue ==
    /\ life = "disabled"
    /\ life' = "flushing"
    /\ \/ summaries' = Summaries /\ SwapPending
       \/ UNCHANGED <<summaries, pending>>
    /\ UNCHANGED <<queueVars, content, started, cutShort, hits, overflow, sourceVars,
                   thread, failed>>

ForceDrain ==
    /\ life = "disabled"
    /\ life' = "flushing"
    /\ summaries' = Summaries
    /\ SwapPending
    /\ UNCHANGED <<queueVars, content, started, cutShort, hits, overflow, sourceVars,
                   thread, failed>>

FlushLast(msg) ==
    /\ life = "flushing"
    /\ msg \in summaries
    /\ summaries' = summaries \ {msg}
    /\ Enqueue(msg)
    /\ UNCHANGED <<started, life, cutShort, hits, countVars, sourceVars, thread, failed>>

StopQueue ==
    /\ life = "flushing"
    /\ summaries = {}
    /\ life' = "joining"
    /\ worker' = "stopping"
    /\ early' = offered
    /\ UNCHANGED <<ledgerVars, content, started, summaries, cutShort, hits, countVars, sourceVars,
                   thread, failed>>

Join ==
    /\ life = "joining"
    /\ worker = "gone"
    /\ life' = "dead"
    /\ UNCHANGED <<queueVars, content, started, summaries, cutShort, hits, countVars,
                   sourceVars, thread, failed>>
-----------------------------------------------------------------------------
\* AsyncQueue::run(): a batch, or more when stopping, is settled.
Settle ==
    /\ worker \in {"running", "stopping"}
    /\ \E n \in 1 .. Len(waiting) : Ledger!Deliver(n) \/ Ledger!WriteOff(n)
    /\ UNCHANGED <<worker, early, content, lifeVars, hits, countVars, sourceVars, thread, failed>>

WorkerLeaves ==
    /\ worker = "stopping"
    /\ \A i \in 1 .. Len(waiting) : waiting[i] > early
    /\ worker' = "gone"
    /\ UNCHANGED <<ledgerVars, early, content, lifeVars, hits, countVars, sourceVars, thread, failed>>

Callback(t) ==
    \/ \E f \in Fingerprints : Throw(t, f)
    \/ \E place \in {"source", "event", "record"} : Decide(t, place)
    \/ Record(t) \/ TakeUnshipped(t) \/ ShipSource(t) \/ EnqueueEvent(t)
    \/ CaptureFails(t) \/ DrainNotDue(t) \/ DrainDue(t)
    \/ \E msg \in thread[t].out : FlushOne(t, msg)

Lifecycle ==
    \/ OnLoad \/ EnableCapture \/ Register
    \/ DisableCapture \/ ForceDrain \/ StopQueue \/ Join
    \/ \E msg \in summaries : FlushLast(msg)

Next ==
    \/ \E t \in Threads : Callback(t)
    \/ \E c \in Classes : LoadClass(c)
    \/ Lifecycle
    \/ Settle \/ WorkerLeaves

Spec == Init /\ [][Next]_vars
-----------------------------------------------------------------------------
(* Properties                                                              *)

Sources(ids)     == {i \in ids : content[i].kind = "source"}
Messages(f, ids) == {i \in ids : content[i].kind \in {"event", "summary"} /\ content[i].of = f}

\* Throws at f whose message is among the offered events in ids.
Sent(f, ids) ==
    SumFunctionOnSet([i \in Messages(f, ids) |-> content[i].occurrences], Messages(f, ids))

\* Throws at f that a callback, or vm_death, has in hand.
InHand(f) ==
    SumFunctionOnSet([t \in Threads |-> HeldBy(t, f)], Threads)
    + Occurrences({m \in summaries : m.of = f})

Aggregated(f) == IF f \in DOMAIN pending THEN pending[f].count ELSE 0

TypeOK ==
    /\ Len(content) = offered
    /\ Len(waiting) <= MaxQueue + BatchSize
    /\ worker \in {"unborn", "running", "stopping", "gone"}
    /\ early \in 0 .. offered
    /\ started \in BOOLEAN
    /\ life \in {"unloaded", "loaded", "enabled", "live", "disabled", "flushing",
                 "joining", "dead"}
    /\ hits \in [Fingerprints -> Nat]
    /\ DOMAIN pending \subseteq Fingerprints
    /\ Cardinality(DOMAIN pending) <= MaxEntries
    /\ shipped \subseteq loaded
    /\ \A t \in Threads :
         thread[t].at \in {"idle", "decide", "source", "ship", "event", "record",
                          "drain", "flush"}

\* Every throw the sampler has counted is somewhere exactly once: in a
\* callback's hands, in the aggregator, in a message offered to the queue, in
\* the overflow counter, or among those an exception in a callback has lost; and the
\* aggregator and the queue keep their bounds.
OccurrencesConserved ==
    /\ TypeOK
    /\ \A f \in Fingerprints :
         hits[f] = InHand(f) + Aggregated(f) + Sent(f, 1 .. Len(content))
                   + overflow[f] + failed[f]

\* No class is uploaded twice, however many threads capture its frames at once.
SourceShippedOnce ==
    \A i, j \in Sources(1 .. Len(content)) : content[i].of = content[j].of => i = j

\* A VM that dies with no callback under way accounts for every throw: once
\* vm_death has returned each is acknowledged, or counted as dropped, as
\* overflow, or lost to an exception in a callback; none is left in the aggregator or the queue.
QuietDeathLosesNothing ==
    (life = "dead" /\ ~cutShort) =>
        \A f \in Fingerprints :
            hits[f] = Sent(f, delivered \cup lost) + overflow[f] + failed[f]
=============================================================================
