------------------------------ MODULE TimedProofs ------------------------------
(***************************************************************************)
(* The promises about time: how far behind the database an answer of the   *)
(* collector's token cache may be (TokenAuth), how long the agent's stop() *)
(* may hold up the exit of the JVM (WorkerClock), and how often a throw    *)
(* site is captured in full (Sampler).  The three models share nothing.    *)
(*                                                                         *)
(* The token cache, for any number of tokens, of admin requests and of     *)
(* authentications, and for every TTL: an answer is at most the TTL behind *)
(* the database, and a deleted token stays deleted.  AnswersBounded is not *)
(* inductive: an answer is as good as the cache or the rows it came from.  *)
(* Whatever has been read differs from the database only in tokens that    *)
(* changed since it was asked for (AsOf); the cache is stamped with the    *)
(* time of asking, so a fresh one is at most TTL behind, whichever of      *)
(* several reloads and resets came last.                                   *)
(*                                                                         *)
(* The worker, for every batch size, number of retries, timeout and drain  *)
(* budget, and for any number of threads inside enqueue(): stop() is       *)
(* bounded and a full batch is not slept through.  The bound is a sum over *)
(* a whole drain; what makes it inductive is how much of it each place of  *)
(* the worker may already have used (Used).  A sleep that stop() finds     *)
(* under way was begun before it and ends within the budget; a POST begins *)
(* within the budget; and what runs after a POST ends takes no time, since *)
(* it neither sleeps nor passes the deadline.                              *)
(*                                                                         *)
(* The sampler, for any number of threads and throw sites, any window,     *)
(* resample time and capacity: the budget of FULL captures, and the        *)
(* agreement of the map and the LRU list.                                  *)
(*                                                                         *)
(* The difficulty is that decisions work with times out of order.  The     *)
(* first hit of a window is FULL and stamps the window's own start; a      *)
(* later one may stamp an older time, but no older than the longest wait   *)
(* for the lock (Stamps), and a resample is due only kResampleMs after the *)
(* stamp.  So the resample's own stamp is not before the window's start,   *)
(* and the one after it belongs to the next window (WithinBudget).         *)
(*                                                                         *)
(* The list holds each tracked site once (Lists).  That is kept by taking  *)
(* one element out of it and putting one new one in front, so its length   *)
(* follows the size of the map.                                            *)
(***************************************************************************)
EXTENDS TokenAuth, WorkerClock, Sampler, FiniteSetTheorems, SequenceTheorems, TLAPS
-----------------------------------------------------------------------------
(* The token cache.                                                        *)

\* What was known of the tokens at time t: where it is wrong, the row changed later.
AsOf(known, t) ==
    \A k \in Tokens : ~(k \in known <=> rows[k] = "active") => t <= since[k]

RowStates == {"unborn", "active", "revoked", "deleted"}

Types ==
    /\ now \in Nat /\ BootTime <= now /\ now <= MaxTime
    /\ rows \in [Tokens -> RowStates]
    /\ since \in [Tokens -> Nat] /\ \A k \in Tokens : since[k] <= now
    /\ at \in Nat /\ at <= now
    /\ byHash \subseteq Tokens
    /\ admin \in [Admins -> [at : {"idle", "commit", "reset"}, tok : Tokens \cup {"none"},
                             op : {"none", "mint", "revoke", "edit", "delete"},
                             data : RowStates \cup {"none"}]]
    /\ \A r \in Admins : admin[r].at = "commit" =>
          /\ admin[r].tok \in Tokens /\ admin[r].data \in RowStates
          /\ admin[r].op = "delete" => admin[r].data = "deleted"
    /\ auth \in [Auths -> [at : {"idle", "loading", "loaded", "done"}, tok : Tokens \cup {"none"},
                           began : Nat, found : SUBSET Tokens, ok : BOOLEAN]]
    /\ \A a \in Auths : auth[a].began <= now /\ (auth[a].at # "idle" => auth[a].tok \in Tokens)

\* What has been read: the cache, and the rows of reloads that are still to be handled.
Readings ==
    /\ AsOf(byHash, at)
    /\ \A a \in Auths : auth[a].at = "loaded" => AsOf(auth[a].found, auth[a].began)

Answers ==
    \A a \in Auths :
        (auth[a].at = "done" /\ ~(auth[a].ok <=> rows[auth[a].tok] = "active"))
            => auth[a].began <= since[auth[a].tok] + TTL

IInv == Types /\ Readings /\ Answers

LEMMA Numbers == TTL \in Nat /\ BootTime \in Nat /\ MaxTime \in Nat
BY TokenAssumption
-----------------------------------------------------------------------------
LEMMA InitIInv == Init => IInv
<1> SUFFICES ASSUME Init PROVE IInv
  OBVIOUS
<1>1. admin \in [Admins -> [at : {"idle", "commit", "reset"}, tok : Tokens \cup {"none"},
                            op : {"none", "mint", "revoke", "edit", "delete"},
                            data : RowStates \cup {"none"}]]
      /\ \A r \in Admins : admin[r].at = "idle"
  BY DEF Init, NoTask
<1>2. auth \in [Auths -> [at : {"idle", "loading", "loaded", "done"}, tok : Tokens \cup {"none"},
                          began : Nat, found : SUBSET Tokens, ok : BOOLEAN]]
      /\ \A a \in Auths : auth[a].at = "idle" /\ auth[a].began = 0
  BY DEF Init, NoAuth
<1>3. rows \in [Tokens -> RowStates]
  BY DEF Init, RowStates
<1>4. Types
  BY <1>1, <1>2, <1>3, Numbers, TokenAssumption DEF Init, Types
<1> QED
  BY <1>2, <1>4 DEF Init, IInv, Readings, Answers, AsOf

\* A step that leaves rows, tokens and authentications alone, with time going on.
LEMMA FrameKeeps ==
  ASSUME IInv, Types', UNCHANGED <<rows, since, auth>>,
         UNCHANGED <<at, byHash>> \/ (at' = 0 /\ byHash' = {})
  PROVE  IInv'
<1>1. AsOf(byHash, at)'
  <2>1. CASE UNCHANGED <<at, byHash>>
    BY <2>1 DEF IInv, Readings, AsOf
  <2>2. CASE at' = 0 /\ byHash' = {}
    <3>1. \A k \in Tokens : since'[k] \in Nat
      BY DEF Types
    <3> QED
      BY <2>2, <3>1 DEF AsOf
  <2> QED
    BY <2>1, <2>2
<1>2. Readings' /\ Answers'
  BY <1>1 DEF IInv, Readings, Answers, AsOf
<1> QED
  BY <1>2 DEF IInv

\* A commit: what becomes wrong by it changed only now.
LEMMA CommitKeeps ==
  ASSUME IInv, NEW k \in Tokens, NEW state \in RowStates, Commit(k, state),
         UNCHANGED <<now, at, byHash, auth>>
  PROVE  /\ rows' \in [Tokens -> RowStates]
         /\ since' \in [Tokens -> Nat] /\ \A j \in Tokens : since'[j] <= now
         /\ Readings' /\ Answers'
<1>1. /\ rows' \in [Tokens -> RowStates]
      /\ \A j \in Tokens : j # k => rows'[j] = rows[j]
      /\ rows'[k] = state
  BY DEF Commit, IInv, Types
<1>2. /\ since' \in [Tokens -> Nat]
      /\ \A j \in Tokens : j # k => since'[j] = since[j]
      /\ since'[k] = IF (rows[k] = "active") = (state = "active") THEN since[k] ELSE now
  BY DEF Commit, IInv, Types
<1>3. \A j \in Tokens : \/ since'[j] = now
                        \/ since'[j] = since[j] /\ (rows'[j] = "active" <=> rows[j] = "active")
  BY <1>1, <1>2
<1>4. \A j \in Tokens : since'[j] <= now /\ since[j] \in Nat /\ since'[j] \in Nat
  BY <1>2, <1>3 DEF IInv, Types
<1>5. ASSUME NEW known, NEW t \in Nat, t <= now, AsOf(known, t)
      PROVE  \A j \in Tokens : ~(j \in known <=> rows'[j] = "active") => t <= since'[j]
  BY <1>3, <1>5 DEF AsOf
<1>6. Readings'
  <2>1. AsOf(byHash, at)'
    BY <1>5 DEF AsOf, IInv, Readings, Types
  <2>2. ASSUME NEW a \in Auths, auth[a].at = "loaded"
        PROVE  AsOf(auth[a].found, auth[a].began)'
    <3>1. auth[a].began \in Nat /\ auth[a].began <= now /\ AsOf(auth[a].found, auth[a].began)
      BY <2>2 DEF IInv, Types, Readings
    <3> QED
      BY <1>5, <3>1 DEF AsOf
  <2> QED
    BY <2>1, <2>2 DEF Readings
<1>7. Answers'
  <2> SUFFICES ASSUME NEW a \in Auths, auth[a].at = "done",
                      ~(auth[a].ok <=> rows'[auth[a].tok] = "active")
               PROVE  auth[a].began <= since'[auth[a].tok] + TTL
    BY DEF Answers
  <2>1. auth[a].tok \in Tokens /\ auth[a].began \in Nat /\ auth[a].began <= now /\ now \in Nat
    BY DEF IInv, Types
  <2>2. CASE since'[auth[a].tok] = now
    BY <2>1, <2>2, Numbers
  <2>3. CASE since'[auth[a].tok] = since[auth[a].tok]
             /\ (rows'[auth[a].tok] = "active" <=> rows[auth[a].tok] = "active")
    BY <2>3 DEF IInv, Answers
  <2> QED
    BY <1>3, <2>1, <2>2, <2>3
<1> QED
  BY <1>1, <1>2, <1>4, <1>6, <1>7
-----------------------------------------------------------------------------
(* The clock and the admin requests.                                       *)

LEMMA TickIInv == ASSUME IInv, Tick PROVE IInv'
<1>1. now \in Nat /\ now' = now + 1 /\ now < MaxTime
  BY DEF Tick, IInv, Types
<1>2. Types'
  <2>1. /\ now' \in Nat /\ BootTime <= now' /\ now' <= MaxTime
        /\ \A n \in Nat : n <= now => n <= now'
    BY <1>1, Numbers DEF IInv, Types
  <2> QED
    BY <2>1 DEF Tick, IInv, Types
<1> QED
  BY <1>2, FrameKeeps DEF Tick

LEMMA MintIInv ==
  ASSUME IInv, NEW r \in Admins, NEW k \in Tokens, Mint(r, k) PROVE IInv'
<1>1. /\ rows' \in [Tokens -> RowStates] /\ since' \in [Tokens -> Nat]
      /\ \A j \in Tokens : since'[j] <= now
      /\ Readings' /\ Answers'
  BY CommitKeeps DEF Mint, RowStates
<1>2. Types'
  BY <1>1 DEF Mint, NoTask, IInv, Types
<1> QED
  BY <1>1, <1>2 DEF IInv

LEMMA FindIInv ==
  ASSUME IInv, NEW r \in Admins, NEW k \in Tokens, NEW op \in {"revoke", "edit", "delete"},
         Find(r, k, op)
  PROVE  IInv'
<1> DEFINE data == CASE op = "revoke" -> "revoked"
                     [] op = "edit"   -> rows[k]
                     [] op = "delete" -> "deleted"
<1>1. data \in RowStates /\ (op = "delete" => data = "deleted")
  BY DEF IInv, Types, RowStates
<1>2. admin' = [admin EXCEPT ![r] = [at |-> "commit", tok |-> k, op |-> op, data |-> data]]
  BY DEF Find
<1> HIDE DEF data
<1>3. Types'
  BY <1>1, <1>2 DEF Find, IInv, Types
<1> QED
  BY <1>3, FrameKeeps DEF Find

LEMMA CommitIInv == ASSUME IInv, NEW r \in Admins, CommitFound(r) PROVE IInv'
<1>1. admin[r].tok \in Tokens /\ admin[r].data \in RowStates
  BY DEF CommitFound, IInv, Types
<1>2. /\ rows' \in [Tokens -> RowStates] /\ since' \in [Tokens -> Nat]
      /\ \A j \in Tokens : since'[j] <= now
      /\ Readings' /\ Answers'
  BY <1>1, CommitKeeps DEF CommitFound
<1>3. Types'
  BY <1>2 DEF CommitFound, IInv, Types
<1> QED
  BY <1>2, <1>3 DEF IInv

LEMMA CommitFailsIInv == ASSUME IInv, NEW r \in Admins, CommitFails(r) PROVE IInv'
<1>1. Types'
  BY DEF CommitFails, NoTask, IInv, Types
<1> QED
  BY <1>1, FrameKeeps DEF CommitFails

LEMMA ResetIInv == ASSUME IInv, NEW r \in Admins, ResetAndReply(r) PROVE IInv'
<1>1. Types'
  BY DEF ResetAndReply, Reset, NoTask, IInv, Types
<1> QED
  BY <1>1, FrameKeeps DEF ResetAndReply, Reset
-----------------------------------------------------------------------------
(* Authentication.                                                         *)

\* A fresh cache answers at most TTL behind the database.
LEMMA AuthCachedIInv ==
  ASSUME IInv, NEW a \in Auths, NEW k \in Tokens, AuthCached(a, k) PROVE IInv'
<1>1. auth' = [auth EXCEPT ![a] = [at |-> "done", tok |-> k, began |-> now, found |-> {},
                                   ok |-> k \in byHash]]
  BY DEF AuthCached
<1>2. (k \in byHash) \in BOOLEAN
  OBVIOUS
<1>3. auth'[a].at = "done" /\ auth'[a].tok = k /\ auth'[a].began = now
      /\ (auth'[a].ok <=> k \in byHash)
  BY <1>1 DEF IInv, Types
<1>4. /\ auth' \in [Auths -> [at : {"idle", "loading", "loaded", "done"}, tok : Tokens \cup {"none"},
                              began : Nat, found : SUBSET Tokens, ok : BOOLEAN]]
      /\ \A b \in Auths : b # a => auth'[b] = auth[b]
  BY <1>1, <1>2 DEF IInv, Types
<1>5. Types'
  BY <1>3, <1>4 DEF AuthCached, IInv, Types
<1>6. ~(k \in byHash <=> rows[k] = "active") => now <= since[k] + TTL
  BY Numbers DEF AuthCached, Fresh, IInv, Types, Readings, AsOf
<1>7. Readings' /\ Answers'
  BY <1>3, <1>4, <1>6 DEF AuthCached, IInv, Readings, AsOf, Answers
<1> QED
  BY <1>5, <1>7 DEF IInv

LEMMA AuthLoadsIInv ==
  ASSUME IInv, NEW a \in Auths, NEW k \in Tokens, AuthLoads(a, k) PROVE IInv'
<1>1. /\ auth'[a].at = "loading" /\ auth'[a].tok = k /\ auth'[a].began = now
      /\ auth' \in [Auths -> [at : {"idle", "loading", "loaded", "done"}, tok : Tokens \cup {"none"},
                              began : Nat, found : SUBSET Tokens, ok : BOOLEAN]]
      /\ \A b \in Auths : b # a => auth'[b] = auth[b]
  BY DEF AuthLoads, NoAuth, IInv, Types
<1>2. Types'
  BY <1>1 DEF AuthLoads, IInv, Types
<1>3. Readings' /\ Answers'
  BY <1>1 DEF AuthLoads, IInv, Readings, AsOf, Answers
<1> QED
  BY <1>2, <1>3 DEF IInv

\* The database is read as it is: nothing is wrong yet.
LEMMA RowsReadIInv == ASSUME IInv, NEW a \in Auths, RowsRead(a) PROVE IInv'
<1>1. /\ auth'[a].at = "loaded" /\ auth'[a].tok = auth[a].tok /\ auth'[a].began = auth[a].began
      /\ auth'[a].found = Active
      /\ auth' \in [Auths -> [at : {"idle", "loading", "loaded", "done"}, tok : Tokens \cup {"none"},
                              began : Nat, found : SUBSET Tokens, ok : BOOLEAN]]
      /\ \A b \in Auths : b # a => auth'[b] = auth[b]
  BY DEF RowsRead, Active, IInv, Types
<1>2. Types'
  BY <1>1 DEF RowsRead, IInv, Types
<1>3. \A k \in Tokens : k \in Active <=> rows[k] = "active"
  BY DEF Active
<1>4. Readings' /\ Answers'
  BY <1>1, <1>3 DEF RowsRead, IInv, Readings, AsOf, Answers
<1> QED
  BY <1>2, <1>4 DEF IInv

\* The reload that is handled last overwrites the cache; its stamp is of its own asking.
LEMMA AuthLoadedIInv == ASSUME IInv, NEW a \in Auths, AuthLoaded(a) PROVE IInv'
<1>1. /\ auth[a].tok \in Tokens /\ auth[a].began \in Nat /\ auth[a].found \subseteq Tokens
      /\ AsOf(auth[a].found, auth[a].began)
  BY DEF AuthLoaded, IInv, Types, Readings
<1> DEFINE yes == auth[a].tok \in auth[a].found
<1>2. yes \in BOOLEAN
  OBVIOUS
<1>3. auth' = [auth EXCEPT ![a].at = "done", ![a].found = {}, ![a].ok = yes]
  BY DEF AuthLoaded
<1>9. yes <=> auth[a].tok \in auth[a].found
  OBVIOUS
<1> HIDE DEF yes
<1>4. /\ auth'[a].at = "done" /\ auth'[a].tok = auth[a].tok /\ auth'[a].began = auth[a].began
      /\ auth'[a].ok = yes
      /\ auth' \in [Auths -> [at : {"idle", "loading", "loaded", "done"}, tok : Tokens \cup {"none"},
                              began : Nat, found : SUBSET Tokens, ok : BOOLEAN]]
      /\ \A b \in Auths : b # a => auth'[b] = auth[b]
  <2>1. auth \in [Auths -> [at : {"idle", "loading", "loaded", "done"}, tok : Tokens \cup {"none"},
                           began : Nat, found : SUBSET Tokens, ok : BOOLEAN]]
    BY DEF IInv, Types
  <2> QED
    BY <1>2, <1>3, <2>1
<1>5. Types'
  BY <1>1, <1>4 DEF AuthLoaded, Stamp, IInv, Types
<1>6. AsOf(byHash, at)'
  BY <1>1 DEF AuthLoaded, Stamp, AsOf
<1>7. ~(auth[a].tok \in auth[a].found <=> rows[auth[a].tok] = "active")
         => auth[a].began <= since[auth[a].tok] + TTL
  BY <1>1, Numbers DEF AsOf, IInv, Types
<1>8. Readings' /\ Answers'
  BY <1>9, <1>4, <1>6, <1>7 DEF AuthLoaded, IInv, Readings, AsOf, Answers
<1> QED
  BY <1>5, <1>8 DEF IInv

LEMMA AuthEndsIInv == ASSUME IInv, NEW a \in Auths, AuthEnds(a) PROVE IInv'
<1>1. /\ auth'[a].at = "idle" /\ auth'[a].began = 0
      /\ auth' \in [Auths -> [at : {"idle", "loading", "loaded", "done"}, tok : Tokens \cup {"none"},
                              began : Nat, found : SUBSET Tokens, ok : BOOLEAN]]
      /\ \A b \in Auths : b # a => auth'[b] = auth[b]
  BY DEF AuthEnds, NoAuth, IInv, Types
<1>2. Types'
  BY <1>1 DEF AuthEnds, IInv, Types
<1>3. Readings' /\ Answers'
  BY <1>1 DEF AuthEnds, IInv, Readings, AsOf, Answers
<1> QED
  BY <1>2, <1>3 DEF IInv
-----------------------------------------------------------------------------
LEMMA NextIInv == IInv /\ [Next]_vars => IInv'
<1> SUFFICES ASSUME IInv, [Next]_vars PROVE IInv'
  OBVIOUS
<1>1. CASE UNCHANGED vars
  BY <1>1 DEF vars, IInv, Types, Readings, AsOf, Answers
<1>2. ASSUME NEW r \in Admins, AdminStep(r) PROVE IInv'
  BY <1>2, MintIInv, FindIInv, CommitIInv, CommitFailsIInv, ResetIInv DEF AdminStep
<1>3. ASSUME NEW a \in Auths, AuthStep(a) PROVE IInv'
  BY <1>3, AuthCachedIInv, AuthLoadsIInv, RowsReadIInv, AuthLoadedIInv, AuthEndsIInv DEF AuthStep
<1> QED
  BY <1>1, <1>2, <1>3, TickIInv DEF Next

LEMMA CacheInvariant == Spec => []IInv
BY InitIInv, NextIInv, PTL DEF Spec
-----------------------------------------------------------------------------
\* An answer of the token cache is at most its TTL behind the database, in either
\* direction, however reloads, resets and commits overlap.
THEOREM AnswersAreBounded == Spec => []AnswersBounded
<1>1. IInv => AnswersBounded
  <2> SUFFICES ASSUME IInv PROVE AnswersBounded
    OBVIOUS
  <2>1. TypeOK
    BY Numbers DEF IInv, Types, TypeOK, RowStates
  <2>2. StaleBounded /\ FreshBounded
    BY DEF IInv, Answers, StaleBounded, FreshBounded
  <2> QED
    BY <2>1, <2>2 DEF AnswersBounded
<1> QED
  BY <1>1, CacheInvariant, PTL

\* A deletion is final, whatever edits of the row are under way.
THEOREM DeletionIsFinal == Spec => DeletedForGood
<1>1. IInv /\ [Next]_vars => [\A k \in Tokens : rows[k] = "deleted" => rows'[k] = "deleted"]_vars
  <2> SUFFICES ASSUME IInv, Next, NEW k \in Tokens, rows[k] = "deleted"
               PROVE  rows'[k] = "deleted"
    OBVIOUS
  <2>1. rows \in [Tokens -> RowStates]
    BY DEF IInv, Types
  <2>2. ASSUME NEW r \in Admins, AdminStep(r) PROVE rows'[k] = "deleted"
    <3>1. CASE \E j \in Tokens : Mint(r, j)
      BY <2>1, <3>1 DEF Mint, Commit
    <3>2. CASE CommitFound(r)
      <4>1. rows' = [rows EXCEPT ![admin[r].tok] = admin[r].data]
        BY <3>2 DEF CommitFound, Commit
      <4>2. admin[r].tok = k => admin[r].data = "deleted"
        BY <3>2 DEF CommitFound, Stored, IInv, Types
      <4> QED
        BY <2>1, <4>1, <4>2
    <3>3. CASE CommitFails(r) \/ ResetAndReply(r)
               \/ \E j \in Tokens, op \in {"revoke", "edit", "delete"} : Find(r, j, op)
      BY <3>3 DEF CommitFails, ResetAndReply, Find
    <3> QED
      BY <2>2, <3>1, <3>2, <3>3 DEF AdminStep
  <2>3. ASSUME NEW a \in Auths, AuthStep(a) PROVE rows'[k] = "deleted"
    BY <2>3 DEF AuthStep, AuthCached, AuthLoads, RowsRead, AuthLoaded, AuthEnds
  <2> QED
    BY <2>2, <2>3 DEF Next, Tick
<1> QED
  BY <1>1, CacheInvariant, PTL DEF Spec, DeletedForGood
-----------------------------------------------------------------------------
(* The queue worker on a clock.                                            *)

\* The time that stop() has waited, and what the sleep or POST may add to it.
Used ==
    /\ running => elapsed = 0
    /\ worker \in {"test", "armed", "blocked"} => left <= DrainTicks
    /\ worker \in {"armed", "blocked"} \/ (worker = "test" /\ wait = "backoff")
         => elapsed + left <= DrainTicks
    /\ worker = "retry" => elapsed <= DrainTicks
    /\ worker = "post" => elapsed + left <= DrainTicks + HttpTicks
    /\ worker # "exited" => elapsed <= DrainTicks + HttpTicks

\* A backoff is slept only when there is an attempt left.
Attempts ==
    worker = "retry" \/ (worker \in {"test", "armed", "blocked"} /\ wait = "backoff")
      => attempt < SendRetries

\* Between its test and its sleep the worker holds the mutex.
Awake ==
    /\ worker = "armed" /\ wait = "flush" => queued < BatchSize
    /\ FullBatchWakes

ClockInv == ClockTypeOK /\ Used /\ Attempts /\ Awake

LEMMA ClockNumbers ==
    /\ BatchSize \in Nat /\ BatchSize > 0
    /\ SendRetries \in Nat /\ FlushTicks \in Nat /\ BackoffTicks \in Nat
    /\ HttpTicks \in Nat /\ DrainTicks \in Nat /\ MaxQueued \in Nat /\ Throwers \in Nat
    /\ BackoffTicks <= DrainTicks /\ FlushTicks <= DrainTicks
BY ClockAssumption

LEMMA ClockInitInv == ClockInit => ClockInv
<1> SUFFICES ASSUME ClockInit PROVE ClockInv
  OBVIOUS
<1>1. ClockTypeOK
  <2>1. running \in BOOLEAN /\ stopping \in BOOLEAN
    BY DEF ClockInit
  <2>2. /\ queued = 0 /\ notifies = 0 /\ held = 0 /\ attempt = 0 /\ elapsed = 0
        /\ left = FlushTicks /\ stopper = "away" /\ worker = "test" /\ wait = "flush"
    BY DEF ClockInit
  <2> QED
    BY <2>1, <2>2, ClockNumbers DEF ClockTypeOK
<1>2. Used
  BY ClockNumbers DEF ClockInit, Used
<1>3. Attempts /\ Awake
  BY DEF ClockInit, Attempts, Awake, FullBatchWakes
<1> QED
  BY <1>1, <1>2, <1>3 DEF ClockInv
-----------------------------------------------------------------------------
(* The threads beside the worker.                                          *)

LEMMA PushClock == ASSUME ClockInv, Push PROVE ClockInv'
<1>1. ClockTypeOK'
  BY ClockNumbers DEF ClockInv, ClockTypeOK, Push, batchVars
<1>2. Used' /\ Attempts'
  BY DEF ClockInv, Used, Attempts, Push, batchVars
<1>3. Awake'
  BY ClockNumbers DEF ClockInv, ClockTypeOK, Awake, FullBatchWakes, Push
<1> QED
  BY <1>1, <1>2, <1>3 DEF ClockInv

LEMMA NotifyOneClock == ASSUME ClockInv, NotifyOne PROVE ClockInv'
<1>1. ClockTypeOK'
  BY ClockNumbers DEF ClockInv, ClockTypeOK, NotifyOne, Wakened, batchVars
<1>2. Used' /\ Attempts'
  BY DEF ClockInv, Used, Attempts, NotifyOne, Wakened, batchVars
<1>3. Awake'
  BY DEF ClockInv, Awake, FullBatchWakes, NotifyOne, Wakened
<1> QED
  BY <1>1, <1>2, <1>3 DEF ClockInv

LEMMA StopFlagClock == ASSUME ClockInv, StopFlag PROVE ClockInv'
BY DEF ClockInv, ClockTypeOK, Used, Attempts, Awake, FullBatchWakes, StopFlag, batchVars

LEMMA StopNotifyClock == ASSUME ClockInv, StopNotify PROVE ClockInv'
<1>1. ClockTypeOK'
  BY DEF ClockInv, ClockTypeOK, StopNotify, Wakened, batchVars
<1>2. Used' /\ Attempts'
  BY DEF ClockInv, Used, Attempts, StopNotify, Wakened, batchVars
<1>3. Awake'
  BY DEF ClockInv, Awake, FullBatchWakes, StopNotify, Wakened
<1> QED
  BY <1>1, <1>2, <1>3 DEF ClockInv

\* A second passes for a worker that sleeps or posts.
LEMMA TickClock == ASSUME ClockInv, ClockTick PROVE ClockInv'
<1>1. ClockTypeOK'
  BY DEF ClockInv, ClockTypeOK, ClockTick, batchVars
<1>2. Used'
  BY ClockNumbers DEF ClockInv, ClockTypeOK, Used, ClockTick
<1>3. Attempts' /\ Awake'
  BY DEF ClockInv, Attempts, Awake, FullBatchWakes, ClockTick, batchVars
<1> QED
  BY <1>1, <1>2, <1>3 DEF ClockInv
-----------------------------------------------------------------------------
(* The worker.                                                             *)

LEMMA TestPredicateClock == ASSUME ClockInv, TestPredicate PROVE ClockInv'
<1>1. ClockTypeOK'
  BY DEF ClockInv, ClockTypeOK, TestPredicate, AfterWait, batchVars
<1>2. CASE WaitOver
  <2>1. worker = "test" /\ worker' = AfterWait
    BY <1>2 DEF TestPredicate
  <2>2. Used' /\ Attempts' /\ Awake'
    BY <2>1, ClockNumbers DEF ClockInv, ClockTypeOK, Used, Attempts, Awake, FullBatchWakes, TestPredicate,
                         AfterWait, batchVars
  <2> QED
    BY <1>1, <2>2 DEF ClockInv
<1>3. CASE ~WaitOver
  <2>1. worker = "test" /\ worker' = "armed" /\ running /\ (wait = "flush" => ~(queued >= BatchSize))
    BY <1>3 DEF TestPredicate, WaitOver, ClockInv, ClockTypeOK
  <2>2. Used' /\ Attempts' /\ Awake'
    BY <2>1, ClockNumbers DEF ClockInv, ClockTypeOK, Used, Attempts, Awake, FullBatchWakes, TestPredicate,
                         batchVars
  <2> QED
    BY <1>1, <2>2 DEF ClockInv
<1> QED
  BY <1>2, <1>3

LEMMA BlockClock == ASSUME ClockInv, Block PROVE ClockInv'
BY ClockNumbers DEF ClockInv, ClockTypeOK, Used, Attempts, Awake, FullBatchWakes, Block, batchVars

LEMMA TimeOutClock == ASSUME ClockInv, TimeOut PROVE ClockInv'
<1>1. ClockTypeOK'
  BY DEF ClockInv, ClockTypeOK, TimeOut, AfterWait, batchVars
<1>2. Used' /\ Attempts' /\ Awake'
  BY ClockNumbers DEF ClockInv, ClockTypeOK, Used, Attempts, Awake, FullBatchWakes, TimeOut, AfterWait, batchVars
<1> QED
  BY <1>1, <1>2 DEF ClockInv

LEMMA CollectClock == ASSUME ClockInv, Collect PROVE ClockInv'
<1>1. PICK n \in 0 .. BatchSize :
        /\ n <= queued /\ held' = n /\ queued' = queued - n
        /\ \/ n > 0 /\ worker' = "check" /\ UNCHANGED <<wait, left>>
           \/ n = 0 /\ ~running /\ worker' = "exited" /\ UNCHANGED <<wait, left>>
           \/ n = 0 /\ running /\ Sleep("flush", FlushTicks)
  BY ClockNumbers DEF Collect, ClockInv, ClockTypeOK
<1>2. worker = "collect" /\ UNCHANGED <<notifies, running, stopper, stopping, attempt, elapsed>>
  BY DEF Collect
<1>3. ClockTypeOK'
  BY <1>1, <1>2, ClockNumbers DEF ClockInv, ClockTypeOK, Sleep
<1>4. Used' /\ Attempts' /\ Awake'
  BY <1>1, <1>2, ClockNumbers DEF ClockInv, ClockTypeOK, Used, Attempts, Awake, FullBatchWakes, Sleep
<1> QED
  BY <1>3, <1>4 DEF ClockInv

LEMMA CheckDeadlineClock == ASSUME ClockInv, CheckDeadline PROVE ClockInv'
<1>1. ClockTypeOK'
  BY ClockNumbers DEF ClockInv, ClockTypeOK, CheckDeadline, Post
<1>2. Used' /\ Attempts' /\ Awake'
  BY ClockNumbers DEF ClockInv, ClockTypeOK, Used, Attempts, Awake, FullBatchWakes, CheckDeadline, Post
<1> QED
  BY <1>1, <1>2 DEF ClockInv

LEMMA AnswerFinalClock == ASSUME ClockInv, AnswerFinal PROVE ClockInv'
<1>1. queued' \in 0 .. MaxQueued
  BY ClockNumbers DEF AnswerFinal, ClockInv, ClockTypeOK
<1>2. ClockTypeOK'
  BY <1>1, ClockNumbers DEF ClockInv, ClockTypeOK, AnswerFinal
<1>3. Used' /\ Attempts' /\ Awake'
  BY ClockNumbers DEF ClockInv, ClockTypeOK, Used, Attempts, Awake, FullBatchWakes, AnswerFinal
<1> QED
  BY <1>2, <1>3 DEF ClockInv

LEMMA AnswerRetryableClock == ASSUME ClockInv, AnswerRetryable PROVE ClockInv'
<1>1. ClockTypeOK'
  BY ClockNumbers DEF ClockInv, ClockTypeOK, AnswerRetryable, Sleep, batchVars
<1>2. CASE ~running \/ OutOfAttempts
  <2>1. worker = "post" /\ worker' = "giveup" /\ UNCHANGED <<running, elapsed>>
    BY <1>2 DEF AnswerRetryable
  <2>2. Used' /\ Attempts' /\ Awake'
    BY <2>1 DEF ClockInv, ClockTypeOK, Used, Attempts, Awake, FullBatchWakes
  <2> QED
    BY <1>1, <2>2 DEF ClockInv
<1>3. CASE running /\ ~OutOfAttempts
  <2>1. /\ running /\ worker' = "test" /\ wait' = "backoff" /\ left' = BackoffTicks
        /\ UNCHANGED <<running, attempt, elapsed>>
    BY <1>3 DEF AnswerRetryable, Sleep, batchVars
  <2>2. attempt < SendRetries
    BY <1>3, ClockNumbers DEF OutOfAttempts, ClockInv, ClockTypeOK
  <2>3. elapsed = 0
    BY <2>1 DEF ClockInv, Used
  <2>4. Used'
    BY <2>1, <2>3, ClockNumbers DEF Used
  <2>5. Attempts' /\ Awake'
    BY <2>1, <2>2 DEF Attempts, Awake, FullBatchWakes
  <2> QED
    BY <1>1, <2>4, <2>5 DEF ClockInv
<1> QED
  BY <1>2, <1>3 DEF ClockInv, ClockTypeOK

LEMMA PostInBudget ==
  ASSUME NEW d \in Nat, d <= DrainTicks, NEW h \in Nat, h <= HttpTicks
  PROVE  d + h <= DrainTicks + HttpTicks /\ d <= DrainTicks + HttpTicks
BY ClockNumbers

LEMMA RetryClock == ASSUME ClockInv, Retry PROVE ClockInv'
<1>1. ClockTypeOK'
  BY ClockNumbers DEF ClockInv, ClockTypeOK, Attempts, Retry, Post
<1>2. worker = "retry" /\ worker' = "post" /\ left' \in 0 .. HttpTicks /\ UNCHANGED <<running, elapsed>>
  BY DEF Retry, Post
<1>3. elapsed \in Nat /\ elapsed <= DrainTicks /\ (running => elapsed = 0)
  BY <1>2 DEF ClockInv, ClockTypeOK, Used
<1>4. Used'
  <2>1. left' \in Nat /\ left' <= HttpTicks
    BY <1>2, ClockNumbers
  <2>2. elapsed + left' <= DrainTicks + HttpTicks /\ elapsed <= DrainTicks + HttpTicks
    BY <1>3, <2>1, PostInBudget
  <2> QED
    BY <1>2, <1>3, <2>2 DEF Used
<1>5. Attempts' /\ Awake'
  BY <1>2 DEF Attempts, Awake, FullBatchWakes
<1> QED
  BY <1>1, <1>4, <1>5 DEF ClockInv

LEMMA GiveUpClock == ASSUME ClockInv, GiveUp PROVE ClockInv'
<1>1. ClockTypeOK'
  BY ClockNumbers DEF ClockInv, ClockTypeOK, GiveUp
<1>2. Used' /\ Attempts' /\ Awake'
  BY ClockNumbers DEF ClockInv, ClockTypeOK, Used, Attempts, Awake, FullBatchWakes, GiveUp
<1> QED
  BY <1>1, <1>2 DEF ClockInv

LEMMA LoopEndClock == ASSUME ClockInv, LoopEnd PROVE ClockInv'
<1>1. ClockTypeOK'
  BY ClockNumbers DEF ClockInv, ClockTypeOK, LoopEnd, Sleep, batchVars
<1>2. Used' /\ Attempts' /\ Awake'
  BY ClockNumbers DEF ClockInv, ClockTypeOK, Used, Attempts, Awake, FullBatchWakes, LoopEnd, Sleep, batchVars
<1> QED
  BY <1>1, <1>2 DEF ClockInv
-----------------------------------------------------------------------------
LEMMA NextClock == ASSUME ClockInv, [ClockNext]_clockVars PROVE ClockInv'
<1>1. CASE Push \/ NotifyOne \/ StopFlag \/ StopNotify \/ ClockTick
  BY <1>1, PushClock, NotifyOneClock, StopFlagClock, StopNotifyClock, TickClock
<1>2. CASE TestPredicate \/ Block \/ TimeOut \/ Collect \/ CheckDeadline
  BY <1>2, TestPredicateClock, BlockClock, TimeOutClock, CollectClock, CheckDeadlineClock
<1>3. CASE AnswerFinal \/ AnswerRetryable \/ Retry \/ GiveUp \/ LoopEnd
  BY <1>3, AnswerFinalClock, AnswerRetryableClock, RetryClock, GiveUpClock, LoopEndClock
<1>4. CASE UNCHANGED clockVars
  BY <1>4 DEF clockVars, batchVars, ClockInv, ClockTypeOK, Used, Attempts, Awake, FullBatchWakes
<1> QED
  BY <1>1, <1>2, <1>3, <1>4 DEF ClockNext

LEMMA ClockInvariant == ClockSpec => []ClockInv
<1>1. ClockInit => ClockInv
  BY ClockInitInv
<1>2. ClockInv /\ [ClockNext]_clockVars => ClockInv'
  BY NextClock
<1> QED
  BY <1>1, <1>2, PTL DEF ClockSpec

\* stop() holds up the exit of the JVM for at most the drain budget and one POST,
\* whether or not its notification reaches the worker (AsyncQueue::stop(), run()).
THEOREM StopIsBounded == ClockSpec => []StopBounded
<1>1. ClockInv => StopBounded
  BY DEF ClockInv, Used, StopBounded
<1> QED
  BY <1>1, ClockInvariant, PTL

\* A worker asleep on a full batch has a notification on its way: enqueue() changes
\* the queue under the mutex that the worker holds between its test and its sleep.
THEOREM FullBatchIsNoticed == ClockSpec => []FullBatchWakes
<1>1. ClockInv => FullBatchWakes
  BY DEF ClockInv, Awake
<1> QED
  BY <1>1, ClockInvariant, PTL
-----------------------------------------------------------------------------
(* The sampler.                                                            *)

\* What decide() keeps of a site.
Entries == [total : Nat, hits : Nat, start : Nat, lastFull : Nat]

\* A decision under way read the clock at most MaxDelay ago.
Calls ==
    \A t \in Threads : call[t] # NoCall =>
        /\ call[t].fp \in Fingerprints
        /\ call[t].time \in Nat /\ call[t].time # 0
        /\ call[t].time <= nowMs /\ nowMs <= call[t].time + MaxDelay

SamplerTypes ==
    /\ nowMs \in Nat /\ nowMs # 0
    /\ DOMAIN call = Threads
    /\ Tracked \subseteq Fingerprints
    /\ \A f \in Tracked : states[f] \in Entries
    /\ fulls \in [Fingerprints -> Nat]

\* The stamp of the last FULL is at most MaxDelay before the window it is in.
Stamps(s) ==
    /\ s.start # 0 /\ s.start <= nowMs
    /\ s.lastFull # 0 /\ s.start <= s.lastFull + MaxDelay

\* Either the window is in its budget, or it has had its one resample, which was
\* stamped within it.
WithinBudget(s, n) ==
    \/ n <= s.hits /\ n <= FullPerWindow
    \/ n <= FullPerWindow + 1 /\ s.start <= s.lastFull /\ s.hits > FullPerWindow

Budgets == \A f \in Tracked : Stamps(states[f]) /\ WithinBudget(states[f], fulls[f])

BudgetInv == SamplerTypes /\ Calls /\ Budgets

LEMMA SamplerNumbers ==
    /\ Window \in Nat /\ Resample \in Nat /\ MaxDelay \in Nat /\ FullPerWindow \in Nat
    /\ FullPerWindow > 0 /\ Window > 0 /\ Window <= Resample /\ MaxDelay <= Resample
BY SamplerAssumption

LEMMA InitBudget == SamplerInit => BudgetInv
<1> SUFFICES ASSUME SamplerInit PROVE BudgetInv
  OBVIOUS
<1>1. Tracked = {} /\ nowMs = 1
  BY DEF SamplerInit, Tracked
<1>2. SamplerTypes
  BY <1>1 DEF SamplerInit, SamplerTypes
<1>3. Calls /\ Budgets
  BY <1>1 DEF SamplerInit, Calls, Budgets
<1> QED
  BY <1>2, <1>3 DEF BudgetInv
-----------------------------------------------------------------------------
(* One decision on one site.                                               *)

\* An entry before and after the decision of a call at time t.
Decided(e, t) == Stamped(HitAt(e, t), t)

LEMMA EntryFields ==
  ASSUME NEW e \in Entries
  PROVE  e.total \in Nat /\ e.hits \in Nat /\ e.start \in Nat /\ e.lastFull \in Nat
BY DEF Entries

LEMMA RolledHit ==
  ASSUME NEW e \in Entries, NEW t \in Nat, Rolls(e, t)
  PROVE  /\ HitAt(e, t) \in Entries
         /\ HitAt(e, t).start = t /\ HitAt(e, t).hits = 1 /\ HitAt(e, t).lastFull = e.lastFull
<1> DEFINE counted == [e EXCEPT !.total = e.total + 1]
           moved   == [counted EXCEPT !.start = t]
<1>1. counted \in Entries /\ counted.lastFull = e.lastFull
  BY EntryFields DEF Entries
<1>2. moved \in Entries /\ moved.start = t /\ moved.lastFull = e.lastFull
  <2> HIDE DEF counted
  <2> QED
    BY <1>1 DEF Entries
<1>3. HitAt(e, t) = [moved EXCEPT !.hits = 1]
  BY DEF HitAt
<1> HIDE DEF moved
<1> QED
  BY <1>2, <1>3 DEF Entries

LEMMA CountedHit ==
  ASSUME NEW e \in Entries, NEW t \in Nat, ~Rolls(e, t)
  PROVE  /\ HitAt(e, t) \in Entries
         /\ HitAt(e, t).start = e.start /\ HitAt(e, t).hits = e.hits + 1
         /\ HitAt(e, t).lastFull = e.lastFull
<1>1. HitAt(e, t) = [[e EXCEPT !.total = e.total + 1] EXCEPT !.hits = e.hits + 1]
  BY DEF HitAt
<1>2. e.total + 1 \in Nat /\ e.hits + 1 \in Nat
  BY EntryFields
<1> QED
  BY <1>1, <1>2 DEF Entries

LEMMA StampedEntry ==
  ASSUME NEW s \in Entries, NEW t \in Nat
  PROVE  /\ Stamped(s, t) \in Entries
         /\ Stamped(s, t).start = s.start /\ Stamped(s, t).hits = s.hits
         /\ Tier(s, t) = "FULL" => Stamped(s, t).lastFull = t
         /\ Tier(s, t) # "FULL" => Stamped(s, t).lastFull = s.lastFull
<1>1. CASE Tier(s, t) = "FULL"
  BY <1>1 DEF Stamped, Entries
<1>2. CASE Tier(s, t) # "FULL"
  BY <1>2 DEF Stamped
<1> QED
  BY <1>1, <1>2

LEMMA FullVerdict ==
  ASSUME NEW s \in Entries, NEW t
  PROVE  Tier(s, t) = "FULL" <=> Due(s, t) \/ s.hits <= FullPerWindow
<1>1. CASE Due(s, t) \/ s.hits <= FullPerWindow
  <2>1. ~(~Due(s, t) /\ s.hits > FullPerWindow)
    BY <1>1, EntryFields, SamplerNumbers
  <2> QED
    BY <1>1, <2>1 DEF Tier
<1>2. CASE ~Due(s, t) /\ ~(s.hits <= FullPerWindow)
  <2>1. Tier(s, t) = CASE s.hits > FullPerWindow /\ s.hits <= Reduced -> "REDUCED"
                       [] OTHER -> "COUNT_ONLY"
    BY <1>2 DEF Tier
  <2> QED
    BY <1>2, <2>1
<1> QED
  BY <1>1, <1>2

\* The site's window begins: whatever was before, its first hit is FULL.
LEMMA NewWindow ==
  ASSUME NEW e \in Entries, NEW t \in Nat, t # 0, nowMs \in Nat, t <= nowMs, Rolls(e, t)
  PROVE  /\ Tier(HitAt(e, t), t) = "FULL"
         /\ Stamps(Decided(e, t)) /\ WithinBudget(Decided(e, t), 1)
<1> DEFINE d == Decided(e, t)
<1>1. HitAt(e, t).hits = 1 /\ d.hits = 1 /\ d.start = t
  BY RolledHit, StampedEntry DEF Decided
<1>2. Tier(HitAt(e, t), t) = "FULL"
  BY <1>1, RolledHit, FullVerdict, SamplerNumbers
<1>3. d.lastFull = t
  BY <1>2, RolledHit, StampedEntry DEF Decided
<1> HIDE DEF d
<1>4. Stamps(d) /\ WithinBudget(d, 1)
  BY <1>1, <1>3, SamplerNumbers DEF Stamps, WithinBudget
<1> QED
  BY <1>2, <1>4 DEF d

\* A hit in a window that is under way.
LEMMA SameWindow ==
  ASSUME NEW e \in Entries, NEW n \in Nat, NEW t \in Nat, t # 0,
         nowMs \in Nat, t <= nowMs, nowMs <= t + MaxDelay,
         ~Rolls(e, t), Stamps(e), WithinBudget(e, n)
  PROVE  /\ Stamps(Decided(e, t))
         /\ Tier(HitAt(e, t), t) = "FULL" => WithinBudget(Decided(e, t), n + 1)
         /\ Tier(HitAt(e, t), t) # "FULL" => WithinBudget(Decided(e, t), n)
<1> DEFINE h == HitAt(e, t)
           d == Decided(e, t)
<1>1. /\ h.hits = e.hits + 1 /\ h.start = e.start /\ h.lastFull = e.lastFull
      /\ d.hits = e.hits + 1 /\ d.start = e.start
      /\ Tier(h, t) = "FULL" => d.lastFull = t
      /\ Tier(h, t) # "FULL" => d.lastFull = e.lastFull
  BY CountedHit, StampedEntry DEF Decided
<1>2. e.hits \in Nat /\ e.start \in Nat /\ e.lastFull \in Nat
  BY EntryFields
<1>3. t < e.start + Window
  BY <1>2, SamplerNumbers DEF Rolls, Stamps
<1>4. e.start <= t + MaxDelay
  BY <1>2, SamplerNumbers DEF Stamps
<1>5. Tier(h, t) = "FULL" => t >= e.lastFull + Resample \/ e.hits + 1 <= FullPerWindow
  BY <1>1, CountedHit, FullVerdict DEF Due, Stamps
<1> HIDE DEF d, h
<1>6. Stamps(d)
  BY <1>1, <1>2, <1>4 DEF Stamps
<1>7. ASSUME Tier(h, t) # "FULL" PROVE WithinBudget(d, n)
  BY <1>1, <1>2, <1>7, SamplerNumbers DEF WithinBudget
<1>8. ASSUME Tier(h, t) = "FULL" PROVE WithinBudget(d, n + 1)
  <2>1. d.lastFull = t
    BY <1>1, <1>8
  <2>2. CASE e.hits + 1 <= FullPerWindow
    BY <1>1, <1>2, <2>2, SamplerNumbers DEF WithinBudget
  <2>3. CASE e.hits + 1 > FullPerWindow
    <3>1. t >= e.lastFull + Resample
      BY <1>2, <1>5, <1>8, <2>3, SamplerNumbers
    <3>2. e.start <= t
      BY <1>2, <3>1, SamplerNumbers DEF Stamps
    <3>3. ~(e.start <= e.lastFull)
      BY <1>2, <1>3, <3>1, SamplerNumbers
    <3>4. n <= FullPerWindow
      BY <3>3 DEF WithinBudget
    <3> QED
      BY <1>1, <1>2, <2>1, <2>3, <3>2, <3>4, SamplerNumbers DEF WithinBudget
  <2> QED
    BY <1>2, <2>2, <2>3, SamplerNumbers
<1> QED
  BY <1>6, <1>7, <1>8 DEF d, h
-----------------------------------------------------------------------------
(* The steps.                                                              *)

LEMMA TickBudget == ASSUME BudgetInv, SamplerTick PROVE BudgetInv'
<1>1. nowMs' = nowMs + 1 /\ nowMs' \in Nat /\ UNCHANGED <<call, states, fulls, Tracked>>
  BY DEF SamplerTick, Tracked, BudgetInv, SamplerTypes
<1>2. SamplerTypes'
  BY <1>1 DEF BudgetInv, SamplerTypes
<1>3. Calls'
  <2> SUFFICES ASSUME NEW t \in Threads, call[t] # NoCall
               PROVE  call[t].time <= nowMs' /\ nowMs' <= call[t].time + MaxDelay
    BY <1>1 DEF Calls, BudgetInv
  <2>1. nowMs < call[t].time + MaxDelay
    BY DEF SamplerTick
  <2> QED
    BY <1>1, <2>1, SamplerNumbers DEF BudgetInv, SamplerTypes, Calls
<1>4. Budgets'
  BY <1>1 DEF BudgetInv, SamplerTypes, Budgets, Stamps, WithinBudget, Entries
<1> QED
  BY <1>2, <1>3, <1>4 DEF BudgetInv

LEMMA ReadClockBudget ==
  ASSUME BudgetInv, NEW t \in Threads, NEW f \in Fingerprints, ReadClock(t, f)
  PROVE  BudgetInv'
<1>1. call' = [call EXCEPT ![t] = [fp |-> f, time |-> nowMs]] /\ UNCHANGED <<nowMs, states, fulls, Tracked>>
  BY DEF ReadClock, Tracked
<1>2. SamplerTypes'
  BY <1>1 DEF BudgetInv, SamplerTypes
<1>3. Calls'
  BY <1>1, SamplerNumbers DEF BudgetInv, SamplerTypes, Calls
<1>4. Budgets'
  BY <1>1 DEF BudgetInv, Budgets, Stamps
<1> QED
  BY <1>2, <1>3, <1>4 DEF BudgetInv

LEMMA DecideBudget == ASSUME BudgetInv, NEW t \in Threads, Decide(t) PROVE BudgetInv'
<1> DEFINE f == call[t].fp
           u == call[t].time
           e == Entry(f)
<1>1. f \in Fingerprints /\ u \in Nat /\ u # 0 /\ u <= nowMs /\ nowMs <= u + MaxDelay /\ nowMs \in Nat
  BY DEF Decide, BudgetInv, SamplerTypes, Calls
<1>2. e \in Entries
  BY DEF Entry, NewState, Entries, BudgetInv, SamplerTypes
<1>3. /\ Tracked' = (Tracked \ Victims(f)) \cup {f}
      /\ states'[f] = Decided(e, u)
      /\ \A g \in Tracked' : g # f => g \in Tracked /\ g \notin Victims(f) /\ states'[g] = states[g]
  BY DEF Decide, Tracked, Counted, Decided
<1>4. /\ fulls' \in [Fingerprints -> Nat]
      /\ \A g \in Fingerprints \ Victims(f) : g # f => fulls'[g] = fulls[g]
  BY <1>1 DEF Decide, BudgetInv, SamplerTypes
<1>5. SamplerTypes'
  <2>1. nowMs' = nowMs /\ DOMAIN call' = Threads
    BY DEF Decide, BudgetInv, SamplerTypes
  <2>2. Decided(e, u) \in Entries
    BY <1>1, <1>2, RolledHit, CountedHit, StampedEntry DEF Decided
  <2>3. Tracked' \subseteq Fingerprints
    BY <1>1, <1>3 DEF BudgetInv, SamplerTypes
  <2>4. \A g \in Tracked' : states'[g] \in Entries
    BY <1>3, <2>2 DEF BudgetInv, SamplerTypes
  <2> QED
    BY <1>4, <2>1, <2>3, <2>4 DEF BudgetInv, SamplerTypes
<1>6. Calls'
  BY DEF Decide, BudgetInv, SamplerTypes, Calls
<1>7. Stamps(Decided(e, u)) /\ WithinBudget(Decided(e, u), fulls'[f])
  <2>1. CASE Rolls(e, u)
    <3>1. fulls'[f] \in {0, 1}
      BY <1>1, <2>1, NewWindow, <1>2 DEF Decide, Verdict, Counted
    <3>2. Stamps(Decided(e, u)) /\ WithinBudget(Decided(e, u), 1)
      BY <1>1, <1>2, <2>1, NewWindow
    <3>3. WithinBudget(Decided(e, u), 0)
      <4>1. Decided(e, u).hits \in Nat
        BY <1>1, <1>2, <2>1, RolledHit, StampedEntry, EntryFields DEF Decided
      <4> QED
        BY <4>1, SamplerNumbers DEF WithinBudget
    <3> QED
      BY <3>1, <3>2, <3>3
  <2>2. CASE ~Rolls(e, u)
    <3>1. f \in Tracked /\ e = states[f] /\ f \notin Victims(f)
      BY <2>2 DEF Entry, Rolls, NewState, Victims
    <3>2. fulls[f] \in Nat /\ Stamps(e) /\ WithinBudget(e, fulls[f])
      BY <1>1, <3>1 DEF BudgetInv, SamplerTypes, Budgets
    <3>3. fulls'[f] = fulls[f] + (IF Tier(HitAt(e, u), u) = "FULL" THEN 1 ELSE 0)
      BY <1>1, <2>2, <3>1 DEF Decide, Verdict, Counted
    <3>4. /\ Stamps(Decided(e, u))
          /\ Tier(HitAt(e, u), u) = "FULL" => WithinBudget(Decided(e, u), fulls[f] + 1)
          /\ Tier(HitAt(e, u), u) # "FULL" => WithinBudget(Decided(e, u), fulls[f])
      BY <1>1, <1>2, <2>2, <3>2, SameWindow
    <3> QED
      BY <3>2, <3>3, <3>4
  <2> QED
    BY <2>1, <2>2
<1>8. Budgets'
  <2> SUFFICES ASSUME NEW g \in Tracked'
               PROVE  Stamps(states[g])' /\ WithinBudget(states'[g], fulls'[g])
    BY DEF Budgets, WithinBudget
  <2>1. nowMs' = nowMs
    BY DEF Decide
  <2>2. CASE g = f
    BY <1>3, <1>7, <2>1, <2>2 DEF Stamps
  <2>3. CASE g # f
    BY <1>3, <1>4, <2>1, <2>3 DEF BudgetInv, SamplerTypes, Budgets, Stamps
  <2> QED
    BY <2>2, <2>3
<1> QED
  BY <1>5, <1>6, <1>8 DEF BudgetInv

LEMMA NextBudget == ASSUME BudgetInv, [SamplerNext]_samplerVars PROVE BudgetInv'
<1>1. CASE SamplerTick
  BY <1>1, TickBudget
<1>2. ASSUME NEW t \in Threads, Decide(t) PROVE BudgetInv'
  BY <1>2, DecideBudget
<1>3. ASSUME NEW t \in Threads, NEW f \in Fingerprints, ReadClock(t, f) PROVE BudgetInv'
  BY <1>3, ReadClockBudget
<1>4. CASE UNCHANGED samplerVars
  BY <1>4 DEF samplerVars, BudgetInv, SamplerTypes, Calls, Budgets, Stamps, WithinBudget, Tracked
<1> QED
  BY <1>1, <1>2, <1>3, <1>4 DEF SamplerNext

\* A hot throw site is captured in full at most kFullPerWindow times in a window,
\* and once more for the resample, although decide() reads the clock before it takes
\* the lock and so may work with a time older than the window's start.
THEOREM BudgetHolds == SamplerSpec => []FullBudget
<1>1. SamplerInit => BudgetInv
  BY InitBudget
<1>2. BudgetInv /\ [SamplerNext]_samplerVars => BudgetInv'
  BY NextBudget
<1>3. BudgetInv => FullBudget
  <2> SUFFICES ASSUME BudgetInv, NEW f \in Tracked PROVE fulls[f] <= FullPerWindow + 1
    BY DEF FullBudget
  <2>1. fulls[f] \in Nat /\ WithinBudget(states[f], fulls[f])
    BY DEF BudgetInv, SamplerTypes, Budgets
  <2> QED
    BY <2>1, SamplerNumbers DEF WithinBudget
<1> QED
  BY <1>1, <1>2, <1>3, PTL DEF SamplerSpec
-----------------------------------------------------------------------------
(* The sampler's list.                                                     *)

\* The sequence l lists the set S, each element once.
Lists(l, S) ==
    /\ l \in Seq(S)
    /\ \A x \in S : \E i \in 1 .. Len(l) : l[i] = x
    /\ \A i, j \in 1 .. Len(l) : l[i] = l[j] => i = j

\* push_front() of a new element.
LEMMA PushFront ==
  ASSUME NEW l, NEW S, NEW x, Lists(l, S), x \notin S
  PROVE  Lists(<<x>> \o l, S \cup {x}) /\ Len(<<x>> \o l) = Len(l) + 1
<1> DEFINE m == <<x>> \o l
<1>1. l \in Seq(S) /\ Len(l) \in Nat /\ \A i \in 1 .. Len(l) : l[i] \in S
  BY DEF Lists
<1>2. <<x>> \in Seq(S \cup {x}) /\ l \in Seq(S \cup {x})
  BY <1>1
<1>3. /\ m \in Seq(S \cup {x}) /\ Len(m) = Len(l) + 1
      /\ m[1] = x /\ \A i \in 2 .. Len(m) : m[i] = l[i - 1]
  BY <1>1, <1>2
<1> HIDE DEF m
<1>4. \A y \in S \cup {x} : \E i \in 1 .. Len(m) : m[i] = y
  <2> SUFFICES ASSUME NEW y \in S \cup {x} PROVE \E i \in 1 .. Len(m) : m[i] = y
    OBVIOUS
  <2>1. CASE y = x
    <3>1. 1 \in 1 .. Len(m)
      BY <1>1, <1>3
    <3> QED
      BY <1>3, <2>1, <3>1
  <2>2. CASE y \in S
    <3>1. PICK i \in 1 .. Len(l) : l[i] = y
      BY <2>2 DEF Lists
    <3>2. i + 1 \in 2 .. Len(m) /\ (i + 1) - 1 = i
      BY <1>1, <1>3, <3>1
    <3>3. m[i + 1] = y /\ i + 1 \in 1 .. Len(m)
      BY <1>3, <3>1, <3>2
    <3> QED
      BY <3>3
  <2> QED
    BY <2>1, <2>2
<1>5. ASSUME NEW i \in 1 .. Len(m), NEW j \in 1 .. Len(m), m[i] = m[j] PROVE i = j
  <2>1. \A k \in 1 .. Len(m) : k # 1 => k \in 2 .. Len(m) /\ k - 1 \in 1 .. Len(l)
    BY <1>1, <1>3
  <2>2. \A k \in 1 .. Len(m) : k # 1 => m[k] = l[k - 1] /\ m[k] \in S
    BY <1>1, <1>3, <2>1
  <2>3. CASE i = 1 \/ j = 1
    BY <1>3, <1>5, <2>2, <2>3
  <2>4. CASE i # 1 /\ j # 1
    <3>1. i - 1 \in 1 .. Len(l) /\ j - 1 \in 1 .. Len(l)
      BY <2>1, <2>4
    <3>2. l[i - 1] = l[j - 1]
      BY <1>5, <2>2, <2>4
    <3>3. i - 1 = j - 1
      BY <3>1, <3>2 DEF Lists
    <3> QED
      BY <3>3
  <2> QED
    BY <2>3, <2>4
<1> QED
  BY <1>3, <1>4, <1>5 DEF Lists, m

\* An element is taken out of the list: splice(), and pop_back() of the last.
LEMMA TakeOut ==
  ASSUME NEW l, NEW S, Lists(l, S), NEW k \in 1 .. Len(l)
  PROVE  Lists(RemoveAt(l, k), S \ {l[k]}) /\ Len(RemoveAt(l, k)) = Len(l) - 1
<1> DEFINE m == RemoveAt(l, k)
           a == SubSeq(l, 1, k - 1)
           b == SubSeq(l, k + 1, Len(l))
<1>1. l \in Seq(S) /\ Len(l) \in Nat /\ k \in Nat /\ k >= 1 /\ k <= Len(l)
  BY DEF Lists
<1>2. a \in Seq(S) /\ Len(a) = k - 1 /\ \A i \in 1 .. k - 1 : a[i] = l[i]
  BY <1>1
<1>3. b \in Seq(S) /\ Len(b) = Len(l) - k /\ \A i \in 1 .. Len(l) - k : b[i] = l[k + i]
  BY <1>1
<1>4. m = a \o b
  BY DEF RemoveAt
<1> HIDE DEF m, a, b
<1>5. m \in Seq(S) /\ Len(m) = Len(l) - 1
  <2>1. a \o b \in Seq(S)
    BY <1>2, <1>3
  <2>2. Len(a \o b) = Len(a) + Len(b)
    BY <1>2, <1>3, ConcatProperties
  <2>3. m \in Seq(S) /\ Len(m) = Len(a) + Len(b)
    BY <1>4, <2>1, <2>2
  <2>4. Len(a) + Len(b) = Len(l) - 1
    BY <1>1, <1>2, <1>3
  <2> QED
    BY <2>3, <2>4
<1>6. /\ \A i \in 1 .. k - 1 : m[i] = l[i]
      /\ \A i \in k .. Len(m) : m[i] = l[i + 1]
  <2>1. ASSUME NEW i \in 1 .. k - 1 PROVE m[i] = l[i]
    BY <1>1, <1>2, <1>3, <1>4, <2>1
  <2>2. ASSUME NEW i \in k .. Len(m) PROVE m[i] = l[i + 1]
    <3>1. i - (k - 1) \in 1 .. Len(l) - k /\ k + (i - (k - 1)) = i + 1
      BY <1>1, <1>5, <2>2
    <3>2. m[i] = b[i - (k - 1)]
      BY <1>1, <1>2, <1>3, <1>4, <1>5, <2>2
    <3>3. b[i - (k - 1)] = l[k + (i - (k - 1))]
      BY <1>3, <3>1
    <3> QED
      BY <3>1, <3>2, <3>3
  <2> QED
    BY <2>1, <2>2
<1>7. \A i \in 1 .. Len(m) : \E j \in 1 .. Len(l) : j # k /\ m[i] = l[j]
                                /\ j = IF i < k THEN i ELSE i + 1
  BY <1>1, <1>5, <1>6
<1>8. m \in Seq(S \ {l[k]})
  <2>1. \A i \in 1 .. Len(m) : m[i] \in S \ {l[k]}
    <3> SUFFICES ASSUME NEW i \in 1 .. Len(m) PROVE m[i] \in S \ {l[k]}
      OBVIOUS
    <3>1. PICK j \in 1 .. Len(l) : j # k /\ m[i] = l[j]
      BY <1>7
    <3>2. l[j] \in S /\ l[j] # l[k]
      BY <1>1, <3>1 DEF Lists
    <3> QED
      BY <3>1, <3>2
  <2> QED
    BY <1>5, <2>1
<1>9. ASSUME NEW y \in S \ {l[k]} PROVE \E i \in 1 .. Len(m) : m[i] = y
  <2>1. PICK j \in 1 .. Len(l) : l[j] = y
    BY <1>9 DEF Lists
  <2>2. CASE j < k
    <3>1. j \in 1 .. k - 1 /\ j \in 1 .. Len(m)
      BY <1>1, <1>5, <2>2
    <3> QED
      BY <1>6, <2>1, <3>1
  <2>3. CASE j > k
    <3>1. j - 1 \in k .. Len(m) /\ j - 1 \in 1 .. Len(m) /\ (j - 1) + 1 = j
      BY <1>1, <1>5, <2>3
    <3> QED
      BY <1>6, <2>1, <3>1
  <2>4. j # k
    BY <1>9, <2>1
  <2> QED
    BY <1>1, <2>2, <2>3, <2>4
<1>10. ASSUME NEW i \in 1 .. Len(m), NEW j \in 1 .. Len(m), m[i] = m[j] PROVE i = j
  <2>1. PICK p \in 1 .. Len(l) : m[i] = l[p] /\ p = IF i < k THEN i ELSE i + 1
    BY <1>7
  <2>2. PICK q \in 1 .. Len(l) : m[j] = l[q] /\ q = IF j < k THEN j ELSE j + 1
    BY <1>7
  <2>3. p = q
    BY <1>10, <2>1, <2>2 DEF Lists
  <2> QED
    BY <1>1, <2>1, <2>2, <2>3
<1> QED
  BY <1>5, <1>8, <1>9, <1>10 DEF Lists, m

\* front() of the list without its last element is the list with it taken out.
LEMMA FrontTakesLast ==
  ASSUME NEW l, NEW S, Lists(l, S), l # <<>>
  PROVE  Len(l) \in 1 .. Len(l) /\ Front(l) = RemoveAt(l, Len(l))
<1>1. l \in Seq(S) /\ Len(l) \in Nat /\ Len(l) >= 1
  BY DEF Lists
<1>2. SubSeq(l, Len(l) + 1, Len(l)) = <<>>
  BY <1>1
<1>3. SubSeq(l, 1, Len(l) - 1) \in Seq(S)
  BY <1>1
<1> QED
  BY <1>1, <1>2, <1>3 DEF Front, RemoveAt

\* A list of a set is as long as the set is large.
LEMMA ListedSize ==
  ASSUME NEW l, NEW S, Lists(l, S)
  PROVE  IsFiniteSet(S) /\ Cardinality(S) = Len(l)
<1>1. Len(l) \in Nat /\ l \in [1 .. Len(l) -> S]
  BY DEF Lists
<1>2. IsFiniteSet(1 .. Len(l)) /\ Cardinality(1 .. Len(l)) = Len(l)
  BY <1>1, FS_Interval
<1>3. l \in Injection(1 .. Len(l), S)
  BY <1>1 DEF Lists, Injection, IsInjective
<1>4. l \in Surjection(1 .. Len(l), S)
  BY <1>1 DEF Lists, Surjection
<1>5. ExistsBijection(1 .. Len(l), S)
  BY <1>3, <1>4 DEF ExistsBijection, Bijection
<1> QED
  BY <1>2, <1>5, FS_Bijection
-----------------------------------------------------------------------------
(* The list and the map, and the bounds of what they hold.                 *)

Tidy ==
    /\ Lists(lru, Tracked)
    /\ Len(lru) <= Capacity

Bounded(s) ==
    /\ s.total \in 1 .. MaxHits
    /\ s.hits \in 1 .. s.total
    /\ s.lastFull <= nowMs

Bounds ==
    /\ nowMs <= LastMs
    /\ \A f \in Tracked : Bounded(states[f])

LInv == BudgetInv /\ Tidy /\ Bounds

LEMMA Limits ==
    /\ Capacity \in Nat /\ Capacity > 0 /\ LastMs \in Nat /\ LastMs > 0
    /\ MaxHits \in Nat
BY SamplerAssumption

LEMMA InitLInv == SamplerInit => LInv
<1> SUFFICES ASSUME SamplerInit PROVE LInv
  OBVIOUS
<1>1. BudgetInv
  BY InitBudget
<1>2. Tracked = {} /\ lru = <<>> /\ nowMs = 1
  BY DEF SamplerInit, Tracked
<1>3. Len(lru) = 0 /\ lru \in Seq(Tracked)
  BY <1>2
<1>4. Tidy
  BY <1>2, <1>3, Limits DEF Tidy, Lists
<1>5. Bounds
  BY <1>2, Limits DEF Bounds
<1> QED
  BY <1>1, <1>4, <1>5 DEF LInv

\* What stays in the list is the rest of what stays in the map.
LEMMA OthersListed ==
  ASSUME Tidy, NEW f
  PROVE  /\ Lists(Others(f), (Tracked \ Victims(f)) \ {f})
         /\ Len(Others(f)) + 1 <= Capacity
<1>1. /\ Lists(lru, Tracked) /\ lru \in Seq(Tracked)
      /\ Len(lru) \in Nat /\ Len(lru) <= Capacity /\ Len(lru) = Cardinality(Tracked)
  <2>1. Lists(lru, Tracked) /\ Len(lru) <= Capacity
    BY DEF Tidy
  <2> QED
    BY <2>1, ListedSize DEF Lists
<1>2. CASE f \in Tracked
  <2>1. Place(f) \in 1 .. Len(lru) /\ lru[Place(f)] = f
    BY <1>1, <1>2 DEF Place, Lists
  <2>2. Others(f) = RemoveAt(lru, Place(f)) /\ Victims(f) = {}
    BY <1>2 DEF Others, Victims
  <2>3. /\ Lists(RemoveAt(lru, Place(f)), Tracked \ {f})
        /\ Len(RemoveAt(lru, Place(f))) = Len(lru) - 1
    BY <1>1, <2>1, TakeOut
  <2>4. (Tracked \ Victims(f)) \ {f} = Tracked \ {f}
    BY <2>2
  <2>5. (Len(lru) - 1) + 1 <= Capacity
    BY <1>1, Limits
  <2>6. Lists(Others(f), Tracked \ {f}) /\ Len(Others(f)) = Len(lru) - 1
    BY <2>2, <2>3
  <2> QED
    BY <2>4, <2>5, <2>6
<1>3. CASE f \notin Tracked /\ Victims(f) # {}
  <2>1. lru # <<>> /\ Victims(f) = {lru[Len(lru)]} /\ Others(f) = Front(lru)
    BY <1>3 DEF Victims, Others, Last
  <2>2. Len(lru) \in 1 .. Len(lru) /\ Front(lru) = RemoveAt(lru, Len(lru))
    BY <1>1, <2>1, FrontTakesLast
  <2>3. /\ Lists(Others(f), Tracked \ {lru[Len(lru)]})
        /\ Len(Others(f)) = Len(lru) - 1
    BY <1>1, <2>1, <2>2, TakeOut
  <2>4. (Tracked \ Victims(f)) \ {f} = Tracked \ {lru[Len(lru)]}
    BY <1>3, <2>1
  <2>5. (Len(lru) - 1) + 1 <= Capacity
    BY <1>1, Limits
  <2> QED
    BY <2>3, <2>4, <2>5
<1>4. CASE f \notin Tracked /\ Victims(f) = {}
  <2>1. Others(f) = lru /\ (Tracked \ Victims(f)) \ {f} = Tracked
    BY <1>4 DEF Others
  <2>2. ~(Cardinality(Tracked) >= Capacity) \/ lru = <<>>
    BY <1>4 DEF Victims
  <2>3. Len(lru) + 1 <= Capacity
    BY <1>1, <2>2, Limits
  <2> QED
    BY <1>1, <2>1, <2>3
<1> QED
  BY <1>2, <1>3, <1>4

\* decide() keeps the list and the map in step, full or not.
LEMMA DecideTidy == ASSUME Tidy, NEW t \in Threads, Decide(t) PROVE Tidy'
<1> DEFINE f    == call[t].fp
           rest == (Tracked \ Victims(f)) \ {f}
<1>1. Lists(Others(f), rest) /\ Len(Others(f)) + 1 <= Capacity
  BY OthersListed
<1>2. lru' = <<f>> \o Others(f)
  BY DEF Decide, Promote
<1>3. Tracked' = (Tracked \ Victims(f)) \cup {f}
  BY DEF Decide, Tracked
<1>4. rest \cup {f} = Tracked' /\ f \notin rest
  BY <1>3
<1> HIDE DEF rest, f
<1>5. Lists(lru', Tracked') /\ Len(lru') = Len(Others(f)) + 1
  BY <1>1, <1>2, <1>4, PushFront
<1>6. Len(Others(f)) \in Nat
  BY <1>1 DEF Lists
<1> QED
  BY <1>1, <1>5, <1>6 DEF Tidy

\* What decide() counts, and what it leaves as it was.
LEMMA DecidedTotal ==
  ASSUME NEW e \in Entries, NEW t \in Nat
  PROVE  Decided(e, t).total = e.total + 1 /\ HitAt(e, t).total = e.total + 1
<1>1. HitAt(e, t).total = e.total + 1
  BY DEF HitAt, Entries
<1>2. HitAt(e, t) \in Entries
  BY RolledHit, CountedHit
<1>3. \A s \in Entries : Stamped(s, t).total = s.total
  BY DEF Stamped, Entries
<1> QED
  BY <1>1, <1>2, <1>3 DEF Decided

LEMMA DecideBounds == ASSUME LInv, NEW t \in Threads, Decide(t) PROVE Bounds'
<1> DEFINE f == call[t].fp
           u == call[t].time
           e == Entry(f)
           d == Decided(e, u)
<1>1. u \in Nat /\ u # 0 /\ u <= nowMs /\ nowMs \in Nat /\ nowMs' = nowMs
  BY DEF Decide, LInv, BudgetInv, SamplerTypes, Calls
<1>2. e \in Entries
  BY DEF Entry, NewState, Entries, LInv, BudgetInv, SamplerTypes
<1>3. /\ states'[f] = d
      /\ \A g \in Tracked' : g # f => g \in Tracked /\ states'[g] = states[g]
  BY DEF Decide, Tracked, Counted, Decided
<1>4. HitAt(e, u).total <= MaxHits
  BY DEF Decide, Counted
<1>5. e.total \in Nat /\ e.hits \in Nat /\ e.hits <= e.total /\ e.lastFull <= nowMs
  BY <1>1, <1>2, EntryFields DEF Entry, NewState, LInv, Bounds, Bounded
<1>6. d.total = e.total + 1 /\ HitAt(e, u).total = e.total + 1
  BY <1>1, <1>2, DecidedTotal
<1>7. /\ HitAt(e, u) \in Entries /\ HitAt(e, u).hits \in {1, e.hits + 1}
      /\ HitAt(e, u).lastFull = e.lastFull
  <2>1. CASE Rolls(e, u)
    BY <1>1, <1>2, <2>1, RolledHit
  <2>2. CASE ~Rolls(e, u)
    BY <1>1, <1>2, <2>2, CountedHit
  <2> QED
    BY <2>1, <2>2
<1>8. d.hits \in {1, e.hits + 1} /\ d.lastFull \in {u, e.lastFull}
  <2> DEFINE s == HitAt(e, u)
  <2>1. s \in Entries /\ d = Stamped(s, u)
    BY <1>7 DEF Decided
  <2> HIDE DEF s, d
  <2>2. d.hits = s.hits /\ d.lastFull \in {u, s.lastFull}
    BY <1>1, <2>1, StampedEntry
  <2> QED
    BY <1>7, <2>2 DEF s
<1> HIDE DEF d, e, u
<1>9. d.total \in 1 .. MaxHits /\ d.hits \in 1 .. d.total /\ d.lastFull <= nowMs
  <2>1. d.total = e.total + 1 /\ e.total + 1 <= MaxHits
    BY <1>4, <1>6
  <2>2. d.hits \in Nat /\ 1 <= d.hits /\ d.hits <= e.total + 1
    BY <1>5, <1>8
  <2>3. d.lastFull <= nowMs
    BY <1>1, <1>5, <1>8
  <2> QED
    BY <1>5, <2>1, <2>2, <2>3, Limits
<1>10. ASSUME NEW g \in Tracked'
       PROVE  /\ states'[g].total \in 1 .. MaxHits
              /\ states'[g].hits \in 1 .. states'[g].total
              /\ states'[g].lastFull <= nowMs'
  <2>1. CASE g = f
    BY <1>1, <1>3, <1>9, <2>1
  <2>2. CASE g # f
    <3>1. Bounded(states[g]) /\ states'[g] = states[g]
      BY <1>3, <2>2, <1>10 DEF LInv, Bounds
    <3> QED
      BY <1>1, <3>1 DEF Bounded
  <2> QED
    BY <2>1, <2>2
<1>11. nowMs' <= LastMs
  BY <1>1 DEF LInv, Bounds
<1> QED
  BY <1>10, <1>11 DEF Bounds, Bounded

LEMMA NextLInv == ASSUME LInv, [SamplerNext]_samplerVars PROVE LInv'
<1>1. BudgetInv'
  BY NextBudget DEF LInv
<1>2. CASE SamplerTick
  <2>1. nowMs \in Nat /\ nowMs' = nowMs + 1 /\ nowMs < LastMs /\ UNCHANGED <<lru, states, Tracked>>
    BY <1>2 DEF SamplerTick, LInv, BudgetInv, SamplerTypes, Tracked
  <2>2. \A f \in Tracked : states[f].lastFull \in Nat
    BY DEF LInv, BudgetInv, SamplerTypes, Entries
  <2>3. Tidy' /\ Bounds'
    BY <2>1, <2>2, Limits DEF LInv, Tidy, Lists, Bounds, Bounded
  <2> QED
    BY <1>1, <2>3 DEF LInv
<1>3. ASSUME NEW t \in Threads, Decide(t) PROVE LInv'
  BY <1>1, <1>3, DecideTidy, DecideBounds DEF LInv
<1>4. ASSUME NEW t \in Threads, NEW f \in Fingerprints, ReadClock(t, f) PROVE LInv'
  BY <1>1, <1>4 DEF ReadClock, LInv, Tidy, Lists, Bounds, Bounded, Tracked
<1>5. CASE UNCHANGED samplerVars
  BY <1>1, <1>5 DEF samplerVars, LInv, Tidy, Lists, Bounds, Bounded, Tracked
<1> QED
  BY <1>2, <1>3, <1>4, <1>5 DEF SamplerNext

\* The map and the LRU list hold the same sites, each once and never more than the
\* capacity, whatever the threads decide and in whatever order they take the lock;
\* and what the map holds is well formed.
THEOREM ListMatchesMap == SamplerSpec => []LruMatchesMap
<1>1. SamplerInit => LInv
  BY InitLInv
<1>2. LInv /\ [SamplerNext]_samplerVars => LInv'
  BY NextLInv
<1>3. LInv => LruMatchesMap
  <2> SUFFICES ASSUME LInv PROVE LruMatchesMap
    OBVIOUS
  <2>1. Lists(lru, Tracked) /\ Len(lru) <= Capacity /\ Len(lru) = Cardinality(Tracked)
    BY ListedSize DEF LInv, Tidy
  <2>2. Range(lru) = Tracked
    <3>1. DOMAIN lru = 1 .. Len(lru) /\ \A i \in 1 .. Len(lru) : lru[i] \in Tracked
      BY <2>1 DEF Lists
    <3> QED
      BY <2>1, <3>1 DEF Range, Lists
  <2>3. nowMs \in 1 .. LastMs
    BY Limits DEF LInv, BudgetInv, SamplerTypes, Bounds
  <2>4. ASSUME NEW t \in Threads PROVE call[t] = NoCall \/ call[t].time \in 1 .. nowMs
    BY <2>3 DEF LInv, BudgetInv, Calls
  <2>5. ASSUME NEW f \in Tracked
        PROVE  /\ states[f].total \in 1 .. MaxHits /\ states[f].hits \in 1 .. states[f].total
               /\ states[f].start \in 1 .. LastMs /\ states[f].lastFull \in 1 .. LastMs
    <3>1. /\ states[f].start \in Nat /\ states[f].lastFull \in Nat
          /\ states[f].start # 0 /\ states[f].start <= nowMs
          /\ states[f].lastFull # 0 /\ states[f].lastFull <= nowMs
      BY <2>5 DEF LInv, BudgetInv, SamplerTypes, Entries, Budgets, Stamps, Bounds, Bounded
    <3>2. states[f].total \in 1 .. MaxHits /\ states[f].hits \in 1 .. states[f].total
      BY <2>5 DEF LInv, Bounds, Bounded
    <3> QED
      BY <2>3, <3>1, <3>2, Limits
  <2>6. SamplerTypeOK
    BY <2>3, <2>4, <2>5 DEF SamplerTypeOK, LInv, BudgetInv, SamplerTypes
  <2> QED
    BY <2>1, <2>2, <2>6 DEF LruMatchesMap
<1> QED
  BY <1>1, <1>2, <1>3, PTL DEF SamplerSpec
=============================================================================
