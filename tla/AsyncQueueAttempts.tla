------------------------- MODULE AsyncQueueAttempts -------------------------
(***************************************************************************)
(* AsyncQueue with one more history variable: how many times a POST that   *)
(* carries an event was begun after stop() (agent/src/async_queue.cpp:57), *)
(* and with the fairness its liveness properties need.                     *)
(***************************************************************************)
EXTENDS AsyncQueue

VARIABLE postsAfterStop

attemptVars == <<vars, postsAfterStop>>

PostBegins == pc' = "send" /\ pc # "send"

AttemptsInit == Init /\ postsAfterStop = [e \in 1 .. MaxEvents |-> 0]

AttemptsNext ==
    /\ Next
    /\ postsAfterStop' =
         [e \in 1 .. MaxEvents |->
            IF PostBegins /\ lateFrom # 0 /\ e \in Range(batch)
            THEN postsAfterStop[e] + 1
            ELSE postsAfterStop[e]]

\* The worker thread is scheduled, a POST answers within the transport's
\* timeout, a timed wait ends, and the clock reaches the deadline.
AttemptsSpec ==
    /\ AttemptsInit /\ [][AttemptsNext]_attemptVars
    /\ WF_vars(Worker) /\ WF_vars(BudgetRunsOut)

\* However long the collector stays down, no event is posted more than twice
\* after stop(): once by a retry loop that had begun before and is woken out of
\* its backoff, and once more after that loop has put the batch back.  (The header
\* promises one attempt per batch while stopping.)
AtMostTwoPostsAfterStop == \A e \in 1 .. MaxEvents : postsAfterStop[e] <= 2
=============================================================================
