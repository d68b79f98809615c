------------------------------ MODULE TokenAuth ------------------------------
(***************************************************************************)
(* How the collector decides whether an API token is valid: the token rows *)
(* in the database and the admin requests that change them                 *)
(* (collector/src/collector/api/routes.py and storage.py), and the cached  *)
(* set of active tokens that every authenticated request consults          *)
(* (security.py).                                                          *)
(*                                                                         *)
(* All of it runs on one event loop: a task is interrupted only where it   *)
(* awaits the database, so one action is what happens between two awaits,  *)
(* and the database's own read or commit is an action of its own.          *)
(*                                                                         *)
(* A row's document is abstracted to whether it says "revoked"; an edit of *)
(* any other field writes back the document it read.  Time is monotonic(), *)
(* in a unit of which TTL counts several.                                  *)
(***************************************************************************)
EXTENDS Naturals, FiniteSets

CONSTANTS
    Tokens,
    Admins,     \* admin requests under way at a time
    Auths,      \* requests being authenticated at a time
    TTL,        \* TokenStore's ttl_s
    BootTime,   \* what monotonic() shows when the collector starts
    MaxTime     \* bound: the clock

ASSUME TokenAssumption ==
    /\ {TTL, BootTime, MaxTime} \subseteq Nat
    /\ BootTime <= MaxTime

VARIABLES
    now,      \* time.monotonic()
    rows,     \* per token: "unborn", "active", "revoked" or "deleted"
    at,       \* TokenStore._at
    byHash,   \* TokenStore._by_hash
    admin,    \* per admin request: its progress and locals
    auth,     \* per authentication: its progress and locals
    since,    \* history: when a token last became active or stopped being so
    revoked   \* history: tokens whose revocation or deletion was acknowledged

vars == <<now, rows, at, byHash, admin, auth, since, revoked>>

NoTask == [at |-> "idle", tok |-> "none", op |-> "none", data |-> "none"]
NoAuth == [at |-> "idle", tok |-> "none", began |-> 0, found |-> {}, ok |-> FALSE]

Active == {k \in Tokens : rows[k] = "active"}
Stored == {"active", "revoked"}

Init ==
    /\ now = BootTime
    /\ rows \in [Tokens -> {"unborn", "active"}]
    /\ at = 0
    /\ byHash = {}
    /\ admin = [r \in Admins |-> NoTask]
    /\ auth = [a \in Auths |-> NoAuth]
    /\ since = [k \in Tokens |-> 0]
    /\ revoked = {}

Tick ==
    /\ now < MaxTime
    /\ now' = now + 1
    /\ UNCHANGED <<rows, at, byHash, admin, auth, since, revoked>>
-----------------------------------------------------------------------------
(* Admin requests.                                                         *)

Commit(k, state) ==
    /\ rows' = [rows EXCEPT ![k] = state]
    /\ since' = [since EXCEPT ![k] = IF (rows[k] = "active") = (state = "active")
                                     THEN @ ELSE now]

\* POST /tokens: insert_config() commits a new row.
Mint(r, k) ==
    /\ admin[r] = NoTask
    /\ rows[k] = "unborn"
    /\ Commit(k, "active")
    /\ admin' = [admin EXCEPT ![r] = [NoTask EXCEPT !.at = "reset", !.tok = k, !.op = "mint"]]
    /\ UNCHANGED <<now, at, byHash, auth, revoked>>

\* PATCH and DELETE /config/api_tokens/{id}: _find_config() reads the row.
Find(r, k, op) ==
    /\ admin[r] = NoTask
    /\ rows[k] \in Stored
    /\ admin' = [admin EXCEPT ![r] =
                   [at |-> "commit", tok |-> k, op |-> op,
                    data |-> CASE op = "revoke" -> "revoked"
                               [] op = "edit"   -> rows[k]
                               [] op = "delete" -> "deleted"]]
    /\ UNCHANGED <<now, rows, at, byHash, auth, since, revoked>>

\* The session commits what the task computed from the row it read.  An UPDATE
\* of a row that is gone matches nothing and the request fails; a DELETE does
\* no harm.  (Mutated form: a merge, which inserts a row that is gone.)
CommitMerged(r) ==
    /\ admin[r].at = "commit"
    /\ Commit(admin[r].tok, admin[r].data)
    /\ admin' = [admin EXCEPT ![r].at = "reset"]
    /\ UNCHANGED <<now, at, byHash, auth, revoked>>

CommitFound(r) ==
    /\ admin[r].at = "commit"
    /\ rows[admin[r].tok] \in Stored \/ admin[r].op = "delete"
    /\ Commit(admin[r].tok, admin[r].data)
    /\ admin' = [admin EXCEPT ![r].at = "reset"]
    /\ UNCHANGED <<now, at, byHash, auth, revoked>>

CommitFails(r) ==
    /\ admin[r].at = "commit"
    /\ rows[admin[r].tok] \notin Stored
    /\ admin[r].op # "delete"
    /\ admin' = [admin EXCEPT ![r] = NoTask]
    /\ UNCHANGED <<now, rows, at, byHash, auth, since, revoked>>

\* TokenStore.reset()
Reset ==
    /\ at' = 0
    /\ byHash' = {}

\* The handler resumes after the commit: reset the cache and answer.
ResetAndReply(r) ==
    LET k == admin[r].tok IN
      /\ admin[r].at = "reset"
      /\ Reset
      /\ admin' = [admin EXCEPT ![r] = NoTask]
      /\ revoked' = IF admin[r].op \in {"revoke", "delete"} THEN revoked \cup {k} ELSE revoked
      /\ UNCHANGED <<now, rows, auth, since>>
-----------------------------------------------------------------------------
(* require_auth() / authorize_websocket() with a stored token.             *)

Fresh == now <= at + TTL

\* TokenStore.active() with a fresh cache: no await, the answer is immediate.
AuthCached(a, k) ==
    /\ auth[a] = NoAuth
    /\ Fresh
    /\ auth' = [auth EXCEPT ![a] = [at |-> "done", tok |-> k, began |-> now,
                                    found |-> {}, ok |-> k \in byHash]]
    /\ UNCHANGED <<now, rows, at, byHash, admin, since, revoked>>

\* Otherwise it reads the clock and awaits the rows ...
AuthLoads(a, k) ==
    /\ auth[a] = NoAuth
    /\ ~Fresh
    /\ auth' = [auth EXCEPT ![a] = [NoAuth EXCEPT !.at = "loading", !.tok = k,
                                                  !.began = now]]
    /\ UNCHANGED <<now, rows, at, byHash, admin, since, revoked>>

\* ... which the database reads at some moment ...
RowsRead(a) ==
    /\ auth[a].at = "loading"
    /\ auth' = [auth EXCEPT ![a].at = "loaded", ![a].found = Active]
    /\ UNCHANGED <<now, rows, at, byHash, admin, since, revoked>>

\* ... and, resumed, overwrites the cache and answers from it.  The cache is
\* stamped with the time read before the await.  (Mutated form: stamped with
\* the time at which the rows have arrived.)
StampOnArrival(began) == now

Stamp(began) == began

AuthLoaded(a) ==
    /\ auth[a].at = "loaded"
    /\ byHash' = auth[a].found
    /\ at' = Stamp(auth[a].began)
    /\ auth' = [auth EXCEPT ![a].at = "done", ![a].found = {},
                            ![a].ok = auth[a].tok \in auth[a].found]
    /\ UNCHANGED <<now, rows, admin, since, revoked>>

\* The authenticated request ends.
AuthEnds(a) ==
    /\ auth[a].at = "done"
    /\ auth' = [auth EXCEPT ![a] = NoAuth]
    /\ UNCHANGED <<now, rows, at, byHash, admin, since, revoked>>
-----------------------------------------------------------------------------
AdminStep(r) ==
    \/ \E k \in Tokens : Mint(r, k) \/ \E op \in {"revoke", "edit", "delete"} : Find(r, k, op)
    \/ CommitFound(r) \/ CommitFails(r) \/ ResetAndReply(r)

AuthStep(a) ==
    \/ \E k \in Tokens : AuthCached(a, k) \/ AuthLoads(a, k)
    \/ RowsRead(a) \/ AuthLoaded(a) \/ AuthEnds(a)

Next ==
    \/ Tick
    \/ \E r \in Admins : AdminStep(r)
    \/ \E a \in Auths : AuthStep(a)

Spec == Init /\ [][Next]_vars
-----------------------------------------------------------------------------
(* Properties                                                              *)

TypeOK ==
    /\ now \in BootTime .. MaxTime
    /\ rows \in [Tokens -> {"unborn", "active", "revoked", "deleted"}]
    /\ at \in 0 .. now
    /\ byHash \subseteq Tokens
    /\ \A r \in Admins : admin[r].at \in {"idle", "commit", "reset"}
    /\ \A a \in Auths : /\ auth[a].at \in {"idle", "loading", "loaded", "done"}
                        /\ auth[a].found \subseteq Tokens
                        /\ auth[a].began \in 0 .. now

\* Staleness is bounded: however slow a reload is and whatever resets and other
\* reloads it overlaps, a request that begins more than TTL after its token
\* stopped being active is refused.
StaleBounded ==
    \A a \in Auths :
        (auth[a].at = "done" /\ auth[a].ok /\ rows[auth[a].tok] # "active")
            => auth[a].began <= since[auth[a].tok] + TTL

\* The other way round: a token that has been active for more than TTL is never
\* refused, however often the cache is emptied under it.
FreshBounded ==
    \A a \in Auths :
        (auth[a].at = "done" /\ ~auth[a].ok /\ rows[auth[a].tok] = "active")
            => auth[a].began <= since[auth[a].tok] + TTL

\* Both together: an answer is at most TTL behind the database, in either direction.
AnswersBounded == TypeOK /\ StaleBounded /\ FreshBounded

\* A deleted token never comes back, not even through an edit that read its row
\* before the deletion.
DeletedForGood ==
    [][\A k \in Tokens : rows[k] = "deleted" => rows'[k] = "deleted"]_vars

(***************************************************************************)
(* A claim of the source's comments that the code does not meet.           *)
(***************************************************************************)
\* routes.py:469 "revocation/edits take effect immediately": an acknowledged
\* revocation stays in the database.
RevocationSticks == \A k \in revoked : rows[k] # "active"
=============================================================================
