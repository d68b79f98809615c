---------------------------- MODULE WorkerClock -----------------------------
(***************************************************************************)
(* The timed side of the agent's queue worker: how long stop() can hold up *)
(* the exit of the host JVM, and which sleeps a notification can miss      *)
(* (agent/src/async_queue.cpp).  Event identities and counters, the        *)
(* subject of AsyncQueue, are left out; what is kept is the number of      *)
(* queued events, the mutex and the condition variable at the grain at     *)
(* which a notification can be lost, and a clock.                          *)
(*                                                                         *)
(* A condition wait tests its predicate holding mu_ ("armed") and then     *)
(* releases mu_ and blocks in one step; a notification wakes a thread that *)
(* is blocked and does nothing for one that is not.  enqueue() changes the *)
(* queue under mu_, stop() flips running_ without it.                      *)
(*                                                                         *)
(* One tick is one second.  Time passes only while the worker sleeps or    *)
(* posts: every other step takes no measurable time.                       *)
(***************************************************************************)
EXTENDS Naturals

CONSTANTS
    BatchSize,     \* kBatchSize
    SendRetries,   \* kSendRetries
    FlushTicks,    \* kFlushMs
    BackoffTicks,  \* the longest backoff slept between attempts
    HttpTicks,     \* the transport's timeout (config.h: timeout_ms)
    DrainTicks,    \* kShutdownDrainMs
    MaxQueued,     \* bound: events queued at a time
    Throwers       \* bound: threads inside enqueue() at a time

ASSUME ClockAssumption ==
    /\ {BatchSize, SendRetries, FlushTicks, BackoffTicks, HttpTicks, DrainTicks,
        MaxQueued, Throwers} \subseteq Nat
    /\ BatchSize > 0
    /\ BackoffTicks <= DrainTicks   \* 800 ms is the longest of three backoffs
    /\ FlushTicks <= DrainTicks

VARIABLES
    queued,    \* queue_.size()
    notifies,  \* enqueue() calls that have unlocked mu_ and not yet notified
    running,   \* running_
    stopper,   \* the thread in stop(): "away", "flagged", "notified"
    worker,    \* the worker's place in its loop
    wait,      \* which wait it is in: "flush" or "backoff"
    left,      \* ticks left in the current sleep or POST
    held,      \* size of the batch in hand
    stopping,  \* run()'s local stopping
    attempt,   \* send_with_retry()'s loop counter
    elapsed    \* ticks since stop() flipped running_

clockVars == <<queued, notifies, running, stopper, worker, wait, left, held, stopping,
          attempt, elapsed>>
batchVars == <<held, stopping, attempt>>

ClockInit ==
    /\ queued = 0
    /\ notifies = 0
    /\ running = TRUE
    /\ stopper = "away"
    /\ worker = "test"
    /\ wait = "flush"
    /\ left = FlushTicks
    /\ held = 0
    /\ stopping = FALSE
    /\ attempt = 0
    /\ elapsed = 0
-----------------------------------------------------------------------------
(* The throwing threads and the thread in stop().                          *)

\* enqueue(), under mu_: a worker between its test and its block holds it.
Push ==
    /\ worker # "armed"
    /\ queued < MaxQueued
    /\ notifies < Throwers
    /\ queued' = queued + 1
    /\ notifies' = notifies + 1
    /\ UNCHANGED <<running, stopper, worker, wait, left, batchVars, elapsed>>

\* A blocked worker that is notified tests its predicate again.
Wakened == IF worker = "blocked" THEN "test" ELSE worker

\* (Mutated form: the notification is skipped.)
NotifyNobody ==
    /\ notifies > 0
    /\ notifies' = notifies - 1
    /\ UNCHANGED <<queued, running, stopper, worker, wait, left, batchVars, elapsed>>

NotifyOne ==
    /\ notifies > 0
    /\ notifies' = notifies - 1
    /\ worker' = Wakened
    /\ UNCHANGED <<queued, running, stopper, wait, left, batchVars, elapsed>>

StopFlag ==
    /\ stopper = "away"
    /\ stopper' = "flagged"
    /\ running' = FALSE
    /\ UNCHANGED <<queued, notifies, worker, wait, left, batchVars, elapsed>>

StopNotify ==
    /\ stopper = "flagged"
    /\ stopper' = "notified"
    /\ worker' = Wakened
    /\ UNCHANGED <<queued, notifies, running, wait, left, batchVars, elapsed>>
-----------------------------------------------------------------------------
(* The worker's condition waits.                                           *)

WaitOver == ~running \/ (wait = "flush" /\ queued >= BatchSize)

AfterWait == IF wait = "flush" THEN "collect" ELSE "retry"

Sleep(kind, ticks) ==
    /\ worker' = "test"
    /\ wait' = kind
    /\ left' = ticks

TestPredicate ==
    /\ worker = "test"
    /\ worker' = IF WaitOver THEN AfterWait ELSE "armed"
    /\ UNCHANGED <<queued, notifies, running, stopper, wait, left, batchVars, elapsed>>

Block ==
    /\ worker = "armed"
    /\ worker' = "blocked"
    /\ UNCHANGED <<queued, notifies, running, stopper, wait, left, batchVars, elapsed>>

TimeOut ==
    /\ worker = "blocked"
    /\ left = 0
    /\ worker' = AfterWait
    /\ UNCHANGED <<queued, notifies, running, stopper, wait, left, batchVars, elapsed>>
-----------------------------------------------------------------------------
(* run() and send_with_retry().                                            *)

Collect ==
    /\ worker = "collect"
    /\ LET n == IF queued < BatchSize THEN queued ELSE BatchSize IN
         /\ held' = n
         /\ queued' = queued - n
         /\ \/ n > 0 /\ worker' = "check" /\ UNCHANGED <<wait, left>>
            \/ n = 0 /\ ~running /\ worker' = "exited" /\ UNCHANGED <<wait, left>>
            \/ n = 0 /\ running /\ Sleep("flush", FlushTicks)
    /\ UNCHANGED <<notifies, running, stopper, stopping, attempt, elapsed>>

\* POST: the answer comes after any time up to the transport's timeout.
Post ==
    /\ worker' = "post"
    /\ left' \in 0 .. HttpTicks
    /\ UNCHANGED wait

\* (Mutated form: the deadline is never compared.)
CheckNoDeadline ==
    /\ worker = "check"
    /\ stopping' = ~running
    /\ attempt' = 0
    /\ Post
    /\ UNCHANGED <<queued, notifies, running, stopper, held, elapsed>>

CheckDeadline ==
    /\ worker = "check"
    /\ stopping' = ~running
    /\ attempt' = 0
    /\ \/ /\ ~running /\ elapsed >= DrainTicks
          /\ worker' = "exited"
          /\ held' = 0
          /\ queued' = 0
          /\ UNCHANGED <<wait, left>>
       \/ /\ running \/ elapsed < DrainTicks
          /\ Post
          /\ UNCHANGED <<held, queued>>
    /\ UNCHANGED <<notifies, running, stopper, elapsed>>

\* kOk, or kPermanent, which empties the queue when stopping.
AnswerFinal ==
    /\ worker = "post"
    /\ left = 0
    /\ held' = 0
    /\ queued' \in IF stopping THEN {queued, 0} ELSE {queued}
    /\ worker' = "tail"
    /\ UNCHANGED <<notifies, running, stopper, wait, left, stopping, attempt, elapsed>>

OutOfAttempts == attempt = SendRetries

\* kRetryable: give up when stopping or out of attempts, else back off.
AnswerRetryable ==
    /\ worker = "post"
    /\ left = 0
    /\ IF ~running \/ OutOfAttempts
       THEN /\ worker' = "giveup"
            /\ UNCHANGED <<wait, left>>
       ELSE Sleep("backoff", BackoffTicks)
    /\ UNCHANGED <<queued, notifies, running, stopper, batchVars, elapsed>>

Retry ==
    /\ worker = "retry"
    /\ attempt' = attempt + 1
    /\ Post
    /\ UNCHANGED <<queued, notifies, running, stopper, held, stopping, elapsed>>

\* drop_batch_and_queue() when stopping, else requeue_front() (what exceeds the
\* bound is dropped).
GiveUp ==
    /\ worker = "giveup"
    /\ held' = 0
    /\ queued' = IF stopping THEN 0
                 ELSE IF queued + held < MaxQueued THEN queued + held ELSE MaxQueued
    /\ worker' = "tail"
    /\ UNCHANGED <<notifies, running, stopper, wait, left, stopping, attempt, elapsed>>

LoopEnd ==
    /\ worker = "tail"
    /\ IF ~running /\ queued = 0
       THEN worker' = "exited" /\ UNCHANGED <<wait, left>>
       ELSE Sleep("flush", FlushTicks)
    /\ UNCHANGED <<queued, notifies, running, stopper, batchVars, elapsed>>
-----------------------------------------------------------------------------
\* A second passes.
ClockTick ==
    /\ worker \in {"blocked", "post"}
    /\ left > 0
    /\ stopper # "flagged"
    /\ notifies = 0
    /\ left' = left - 1
    /\ elapsed' = IF running THEN 0 ELSE elapsed + 1
    /\ UNCHANGED <<queued, notifies, running, stopper, worker, wait, batchVars>>

ClockNext ==
    \/ Push \/ NotifyOne \/ StopFlag \/ StopNotify
    \/ TestPredicate \/ Block \/ TimeOut
    \/ Collect \/ CheckDeadline \/ AnswerFinal \/ AnswerRetryable
    \/ Retry \/ GiveUp \/ LoopEnd
    \/ ClockTick

ClockSpec == ClockInit /\ [][ClockNext]_clockVars
-----------------------------------------------------------------------------
(* Properties                                                              *)

ClockTypeOK ==
    /\ queued \in 0 .. MaxQueued
    /\ notifies \in 0 .. Throwers
    /\ running \in BOOLEAN
    /\ stopper \in {"away", "flagged", "notified"}
    /\ worker \in {"test", "armed", "blocked", "collect", "check", "post", "retry",
                   "giveup", "tail", "exited"}
    /\ wait \in {"flush", "backoff"}
    /\ left \in Nat
    /\ held \in 0 .. BatchSize
    /\ stopping \in BOOLEAN
    /\ attempt \in 0 .. SendRetries
    /\ elapsed \in Nat

\* stop() is bounded: the worker has gone within the drain budget plus the one
\* POST that may have begun just before the budget ran out, even if stop()'s
\* notification falls between its predicate and its sleep and is lost.  (The state
\* keeps its types on the way.)
StopBounded == ClockTypeOK /\ (worker # "exited" => elapsed <= DrainTicks + HttpTicks)

\* A full batch never sits out the flush interval: a worker asleep on a queue
\* that holds one has a notification on its way.
FullBatchWakes ==
    (worker = "blocked" /\ wait = "flush" /\ queued >= BatchSize) => notifies > 0
=============================================================================
