----------------------------- MODULE ConfigStore -----------------------------
(***************************************************************************)
(* The dashboard's configuration entities: the query builder over the      *)
(* collector's config endpoints (integrations/collector/adapter.ts and     *)
(* client.ts), and react-query's copy of each table with the mutations     *)
(* under way.  SettingsTabs and AlertRules are the pages that use it.      *)
(*                                                                         *)
(* A mutation is sent, committed by the collector, and answered, in three  *)
(* steps; it can be refused before the commit, and its answer can be lost  *)
(* after it.  A fetch is asked for, read by the collector, and answered,   *)
(* in three steps too: what it answers may be older than a mutation that   *)
(* was committed in between.  The collector's tables and react-query are   *)
(* external.                                                               *)
(***************************************************************************)
EXTENDS Naturals, FiniteSets, SequencesExt

CONSTANTS
    Slots,      \* mutations under way at a time
    MaxOps,     \* bound: mutations sent and pages visited
    FirstRows,  \* what each table holds at first: table -> set of rows
    FirstGiven  \* the last id given before

Tables == DOMAIN FirstRows

\* A table has one row for an id that was given.
ASSUME StoreAssumption ==
    /\ {MaxOps, FirstGiven} \subseteq Nat /\ Slots \subseteq Nat /\ IsFiniteSet(Slots)
    /\ Tables = {"integrations", "redaction_rules", "api_tokens", "team_members", "alert_rules"}
    /\ FirstRows = [t \in Tables |-> FirstRows[t]]
    /\ \A t \in Tables : \A r \in FirstRows[t] :
          /\ r.id \in 1 .. FirstGiven /\ r = [id |-> r.id, data |-> r.data]
          /\ \A s \in FirstRows[t] : r.id = s.id => r = s

VARIABLES
    rows,       \* external: per table, its rows [id, data]
    lastGiven,  \* external: the last id given
    loaded,     \* tables whose query has data
    seen,       \* per table: the rows of the query's data
    fetch,      \* per table: how far the fetch of its query is
    got,        \* per table: the rows that fetch read
    failed,     \* tables for which the last fetch was an error
    missed,     \* history: tables with a mutation that nothing makes their query read
    mut,        \* per slot: the mutation under way
    ops         \* history: mutations sent and pages visited

queries == <<loaded, seen, fetch, got, failed>>
store == <<rows, lastGiven, queries, missed, mut, ops>>

\* of: the page that sent it is still mounted.  base and touched are history,
\* for the properties of the pages.
NoMut == [stage |-> "none", kind |-> "none", table |-> "none", op |-> "none", id |-> 0,
          data |-> "none", of |-> FALSE, base |-> {}, touched |-> FALSE]

StoreInit(onView) ==
    /\ rows = FirstRows
    /\ lastGiven = FirstGiven
    /\ loaded = {} /\ seen = [t \in Tables |-> {}]
    /\ fetch = [t \in Tables |-> IF t \in onView THEN "asked" ELSE "none"]
    /\ got = [t \in Tables |-> {}]
    /\ failed = {} /\ missed = {}
    /\ mut = [m \in Slots |-> NoMut]
    /\ ops = 0
-----------------------------------------------------------------------------
\* from(table).select("*").order(...): the rows in the order of their creation.
Ordered(data) == SetToSortSeq(data, LAMBDA r, s : r.id < s.id)

\* rows.find(...): the first row in that order that satisfies a test.
First(data, Test(_)) ==
    LET found == {r \in data : Test(r.data)}
    IN  IF found = {} THEN {} ELSE {CHOOSE r \in found : \A s \in found : r.id <= s.id}

Pending(kind) == \E m \in Slots : mut[m].kind = kind /\ mut[m].of

\* {...base, ...changes}
Spread(base, changes) ==
    [field \in DOMAIN base \cup DOMAIN changes |->
        IF field \in DOMAIN changes THEN changes[field] ELSE base[field]]

\* mutate(): the first free slot takes the mutation.
Send(request) ==
    /\ ops < MaxOps
    /\ ops' = ops + 1
    /\ \E m \in Slots :
          /\ mut[m].stage = "none"
          /\ \A other \in Slots : mut[other].stage = "none" => m <= other
          /\ mut' = [mut EXCEPT ![m] = Spread([NoMut EXCEPT !.stage = "sent", !.of = TRUE], request)]
    /\ UNCHANGED <<rows, lastGiven, queries, missed>>

\* insert(), update().eq("id", ...) and delete().eq("id", ...) on the collector.
Applied(q, data) ==
    CASE q.op = "insert" -> data \cup {[id |-> lastGiven + 1, data |-> q.data]}
      [] q.op = "update" -> {IF r.id = q.id THEN [r EXCEPT !.data = Spread(@, q.data)] ELSE r : r \in data}
      [] q.op = "delete" -> {r \in data : r.id # q.id}

\* A fetch that has read the table already is overtaken.  (A reset of all data leaves
\* these tables alone.)
Commit(m) ==
    /\ mut[m].stage = "sent"
    /\ LET q == mut[m] IN
         /\ q.op \in {"update", "delete"} => \E r \in rows[q.table] : r.id = q.id
         /\ rows' = [t \in Tables |-> IF t = q.table THEN Applied(q, rows[t]) ELSE rows[t]]
         /\ lastGiven' = IF q.op = "insert" THEN lastGiven + 1 ELSE lastGiven
         /\ fetch' = [t \in Tables |-> IF t = q.table /\ fetch[t] = "read" THEN "overtaken" ELSE fetch[t]]
         /\ mut' = [mut EXCEPT ![m].stage = "done", ![m].id = IF q.op = "insert" THEN lastGiven' ELSE @]
    /\ UNCHANGED <<loaded, seen, got, failed, missed, ops>>

\* The mutation fails, with or without having been committed; no query is told.
Fail(m) ==
    /\ mut[m].stage # "none"
    /\ mut' = [mut EXCEPT ![m] = NoMut]
    /\ missed' = missed \cup {t \in Tables : /\ mut[m].stage = "done" /\ mut[m].table = t
                                             /\ fetch[t] \in {"none", "overtaken"}}
    /\ UNCHANGED <<rows, lastGiven, queries, ops>>

\* What the onSuccess of a mutation invalidates: the query of its table, or after
\* resetAllData() every query.  (Mutated form: an update is not followed by one.)
InvalidatesUnlessUpdate(q) ==
    IF q.op = "wipe" THEN Tables ELSE IF q.op = "update" THEN {} ELSE {q.table}

Invalidates(q) == IF q.op = "wipe" THEN Tables ELSE {q.table}

\* The mutation is answered: its onSuccess runs, wherever the user is by now.  Of the
\* queries it invalidates those on view are fetched at once: a fetch under way is
\* abandoned for another when the query has data, but a first load is left to finish.
Succeed(m, onView) ==
    LET told      == Invalidates(mut[m]) \cap onView
        restarted == {t \in told : t \in loaded \/ fetch[t] = "none"}
    IN  /\ mut[m].stage = "done"
        /\ mut' = [mut EXCEPT ![m] = NoMut]
        /\ fetch' = [t \in Tables |-> IF t \in restarted THEN "asked" ELSE fetch[t]]
        /\ missed' = missed \cup {t \in Tables \ restarted : t = mut[m].table /\ fetch[t] = "overtaken"}
        /\ UNCHANGED <<rows, lastGiven, loaded, seen, got, failed, ops>>

\* The collector reads the table for a fetch ...
Read(t) ==
    /\ fetch[t] = "asked"
    /\ fetch' = [fetch EXCEPT ![t] = "read"]
    /\ got' = [got EXCEPT ![t] = rows[t]]
    /\ missed' = missed \ {t}
    /\ UNCHANGED <<rows, lastGiven, loaded, seen, failed, mut, ops>>

\* ... and the answer arrives, on view or not; or an error does, and then the query
\* keeps the data it had.
Answered(t) ==
    /\ fetch[t] \in {"read", "overtaken"}
    /\ seen' = [seen EXCEPT ![t] = got[t]]
    /\ loaded' = loaded \cup {t} /\ failed' = failed \ {t}

Errs(t) ==
    /\ fetch[t] # "none"
    /\ failed' = failed \cup {t}
    /\ UNCHANGED <<loaded, seen>>

Fetched(t) ==
    /\ Answered(t) \/ Errs(t)
    /\ fetch' = [fetch EXCEPT ![t] = "none"]
    /\ got' = [got EXCEPT ![t] = {}]
    /\ UNCHANGED <<rows, lastGiven, missed, mut, ops>>

\* A page mounts with the queries of its tables, which are stale at once: they are
\* fetched, unless an earlier fetch of theirs is still under way, which is joined.  The
\* page that was left no longer hears of its mutations.
Visit(tables) ==
    /\ ops < MaxOps
    /\ ops' = ops + 1
    /\ fetch' = [t \in Tables |-> IF t \in tables /\ fetch[t] = "none" THEN "asked" ELSE fetch[t]]
    /\ mut' = [m \in Slots |-> [mut[m] EXCEPT !.of = FALSE]]
    /\ UNCHANGED <<rows, lastGiven, loaded, seen, got, failed, missed>>
=============================================================================
