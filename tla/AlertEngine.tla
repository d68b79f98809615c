----------------------------- MODULE AlertEngine -----------------------------
(***************************************************************************)
(* The collector's alert engine (collector/src/collector/alerts.py): batch *)
(* ingest commits exception rows and schedules one evaluation per event on *)
(* a bounded queue; a single worker evaluates them one after another       *)
(* against the rules it caches, delivers, and records the time on the rule *)
(* -- the same row that admin requests edit (api/routes.py, storage.py).   *)
(*                                                                         *)
(* One action is what a task does between two awaits, or what the database *)
(* does during one.  There is one rule, in scope for every event, of       *)
(* either kind.  Its document is abstracted to its trigger, whether it is  *)
(* enabled and when it last fired.                                         *)
(***************************************************************************)
EXTENDS Naturals, Sequences, FiniteSets

CONSTANTS
    Triggers,      \* trigger types of the rule
    Fingerprints,
    Ingests,       \* ingest requests under way at a time
    Editors,       \* admin requests on the rule under way at a time
    QueueMax,      \* _QUEUE_MAX
    TTL,           \* _RuleCache's ttl_s
    Cooldown,      \* the rule's window, at least _MIN_REFIRE_S
    MaxBatch,      \* bound: events in a batch
    MaxRows,       \* bound: rows per fingerprint
    MaxTime        \* bound: the clock

ASSUME AlertAssumption ==
    /\ Triggers \subseteq {"new_event", "event_reoccurs"}
    /\ {QueueMax, TTL, Cooldown, MaxBatch, MaxRows, MaxTime} \subseteq Nat
    /\ Cooldown > 0
    /\ "none" \notin Fingerprints

VARIABLES
    now,       \* the clock, both time.time() and monotonic()
    count,     \* exception rows per fingerprint
    ingest,    \* per ingest request: events stored and not yet scheduled
    queue,     \* alerts._queue
    skipped,   \* alerts._skipped
    rule,      \* the rule's row
    cacheAt,   \* when the cached rule was asked for, 0 when there is none
    cached,    \* the rule as the cache has it
    worker,    \* _consume()'s progress
    ev,        \*   the event it evaluates,
    began,     \*   when rule_cache.get() was called for it,
    seen,      \*   the rule evaluated, and later the row update_config() read
    editor,    \* per admin request: its progress and what it will write
    fired,     \* history: deliveries per fingerprint
    lastFire,  \* history: when the last delivery was recorded, 0 before any
    since,     \* history: when the rule's row last became (dis)abled
    offAt,     \* history: when a disabling was first acknowledged, 0 before
    unlucky,   \* history: a delivery, or the recording of one, has failed
    clobbered  \* history: an edit has overwritten the time the rule last fired

evalVars    == <<worker, ev, began, seen>>
cacheVars   == <<cacheAt, cached>>
historyVars == <<fired, lastFire, since, offAt, unlucky, clobbered>>
vars == <<now, count, ingest, queue, skipped, rule, cacheVars, evalVars, editor, historyVars>>

NoEvent == "none"
Blank   == [trigger |-> "none", enabled |-> FALSE, last |-> 0]
NoEdit  == [at |-> "idle", data |-> Blank]

Init ==
    /\ now = 1
    /\ count = [f \in Fingerprints |-> 0]
    /\ ingest = [i \in Ingests |-> <<>>]
    /\ queue = <<>>
    /\ skipped = 0
    /\ rule \in [trigger : Triggers, enabled : {TRUE}, last : {0}]
    /\ cacheAt = 0
    /\ cached = Blank
    /\ worker = "get"
    /\ ev = NoEvent
    /\ began = 0
    /\ seen = Blank
    /\ editor = [e \in Editors |-> NoEdit]
    /\ fired = [f \in Fingerprints |-> 0]
    /\ lastFire = 0
    /\ since = 0
    /\ offAt = 0
    /\ unlucky = FALSE
    /\ clobbered = FALSE

Tick ==
    /\ now < MaxTime
    /\ now' = now + 1
    /\ UNCHANGED <<count, ingest, queue, skipped, rule, cacheVars, evalVars, editor, historyVars>>
-----------------------------------------------------------------------------
(* Ingest.                                                                 *)

Occurs(f, batch) == Cardinality({i \in 1 .. Len(batch) : batch[i] = f})

Batches == UNION {[1 .. n -> Fingerprints] : n \in 1 .. MaxBatch}

\* store_exceptions(): the whole batch in one transaction.
StoreBatch(i, batch) ==
    /\ ingest[i] = <<>>
    /\ \A f \in Fingerprints : count[f] + Occurs(f, batch) <= MaxRows
    /\ count' = [f \in Fingerprints |-> count[f] + Occurs(f, batch)]
    /\ ingest' = [ingest EXCEPT ![i] = batch]
    /\ UNCHANGED <<now, queue, skipped, rule, cacheVars, evalVars, editor, historyVars>>

\* After the broadcast of each event: schedule_evaluation(), skipped when full.
PutNoWait(f) ==
    \/ /\ Len(queue) < QueueMax
       /\ queue' = Append(queue, f)
       /\ UNCHANGED skipped
    \/ /\ Len(queue) >= QueueMax
       /\ skipped' = skipped + 1
       /\ UNCHANGED queue

Schedule(i) ==
    /\ ingest[i] # <<>>
    /\ PutNoWait(Head(ingest[i]))
    /\ ingest' = [ingest EXCEPT ![i] = Tail(@)]
    /\ UNCHANGED <<now, count, rule, cacheVars, evalVars, editor, historyVars>>
-----------------------------------------------------------------------------
(* The worker.                                                             *)

Fresh == cacheAt # 0 /\ now <= cacheAt + TTL

\* The next event; a fresh cache answers without an await.
TakeEvent ==
    /\ worker = "get"
    /\ queue # <<>>
    /\ ev' = Head(queue)
    /\ queue' = Tail(queue)
    /\ began' = now
    /\ IF Fresh
       THEN worker' = "judge" /\ seen' = cached
       ELSE worker' = "load" /\ UNCHANGED seen
    /\ UNCHANGED <<now, count, ingest, skipped, rule, cacheVars, editor, historyVars>>

\* list_config(): the database reads the rule ...
RuleRead ==
    /\ worker = "load"
    /\ seen' = rule
    /\ worker' = "loaded"
    /\ UNCHANGED <<now, count, ingest, queue, skipped, rule, cacheVars, ev, began, editor,
                   historyVars>>

\* ... and the cache is filled, whatever was reset meanwhile, and stamped with
\* the time read before the await.  (Mutated form: with the time of the fill.)
StampOnArrival == now

Stamp == began

FillCache ==
    /\ worker = "loaded"
    /\ cacheAt' = Stamp
    /\ cached' = seen
    /\ worker' = "judge"
    /\ UNCHANGED <<now, count, ingest, queue, skipped, rule, ev, began, seen, editor,
                   historyVars>>

Done == worker' = "get" /\ ev' = NoEvent /\ seen' = Blank /\ began' = 0

\* (Mutated form: the cool-down is not looked at.)
NeverDebounced == FALSE

Debounced == seen.trigger = "event_reoccurs" /\ seen.last # 0 /\ now < seen.last + Cooldown

\* enabled, scope and cool-down.
Judge ==
    /\ worker = "judge"
    /\ \/ /\ seen.enabled /\ ~Debounced
          /\ worker' = "condition"
          /\ UNCHANGED <<ev, began, seen>>
       \/ /\ ~seen.enabled \/ Debounced
          /\ Done
    /\ UNCHANGED <<now, count, ingest, queue, skipped, rule, cacheVars, editor, historyVars>>

\* _condition_met(): new_event counts the fingerprint's rows in the database;
\* a matching event_reoccurs rule holds at once.  (Mutated form: two rows are
\* still new.)
NewUpToTwo(f) == count[f] <= 2

IsNew(f) == count[f] <= 1

Holds == seen.trigger = "event_reoccurs" \/ IsNew(ev)

Condition ==
    /\ worker = "condition"
    /\ \/ Holds /\ worker' = "deliver" /\ UNCHANGED <<ev, began, seen>>
       \/ ~Holds /\ Done
    /\ UNCHANGED <<now, count, ingest, queue, skipped, rule, cacheVars, editor, historyVars>>

\* _deliver(): POST to the channel.
Delivered ==
    /\ worker = "deliver"
    /\ fired' = [fired EXCEPT ![ev] = @ + 1]
    /\ lastFire' = now
    /\ worker' = "record"
    /\ UNCHANGED <<now, count, ingest, queue, skipped, rule, cacheVars, ev, began, seen, editor,
                   since, offAt, unlucky, clobbered>>

DeliveryFails ==
    /\ worker = "deliver"
    /\ unlucky' = TRUE
    /\ Done
    /\ UNCHANGED <<now, count, ingest, queue, skipped, rule, cacheVars, editor, 
                   fired, lastFire, since, offAt, clobbered>>

\* update_config(last_triggered_at): read the row ...
RecordReads ==
    /\ worker = "record"
    /\ seen' = [rule EXCEPT !.last = lastFire]
    /\ worker' = "commit"
    /\ UNCHANGED <<now, count, ingest, queue, skipped, rule, cacheVars, ev, began, editor,
                   historyVars>>

\* ... write it back whole, then drop the cache.
DropCache == cacheAt' = 0

SinceChange(old, new) == IF old.enabled = new.enabled THEN since ELSE now

RecordCommits ==
    /\ worker = "commit"
    /\ rule' = seen
    /\ since' = SinceChange(rule, seen)
    /\ DropCache
    /\ Done
    /\ UNCHANGED <<now, count, ingest, queue, skipped, cached, editor, fired, lastFire,
                   offAt, unlucky, clobbered>>

\* The database refuses: the evaluation ends, delivered and not recorded.
RecordFails ==
    /\ worker \in {"record", "commit"}
    /\ unlucky' = TRUE
    /\ Done
    /\ UNCHANGED <<now, count, ingest, queue, skipped, rule, cacheVars, editor, 
                   fired, lastFire, since, offAt, clobbered>>
-----------------------------------------------------------------------------
(* PATCH /config/alert_rules/{id}: disable the rule, or edit another field. *)

EditReads(e, op) ==
    /\ editor[e] = NoEdit
    /\ editor' = [editor EXCEPT ![e] =
                    [at |-> "commit",
                     data |-> IF op = "disable" THEN [rule EXCEPT !.enabled = FALSE] ELSE rule]]
    /\ UNCHANGED <<now, count, ingest, queue, skipped, rule, cacheVars, evalVars, historyVars>>

EditCommits(e) ==
    /\ editor[e].at = "commit"
    /\ rule' = editor[e].data
    /\ since' = SinceChange(rule, editor[e].data)
    /\ clobbered' = (clobbered \/ editor[e].data.last # rule.last)
    /\ editor' = [editor EXCEPT ![e].at = "reset"]
    /\ UNCHANGED <<now, count, ingest, queue, skipped, cacheVars, evalVars, fired, lastFire,
                   offAt, unlucky>>

EditReplies(e) ==
    /\ editor[e].at = "reset"
    /\ DropCache
    /\ offAt' = IF offAt = 0 /\ ~editor[e].data.enabled THEN now ELSE offAt
    /\ editor' = [editor EXCEPT ![e] = NoEdit]
    /\ UNCHANGED <<now, count, ingest, queue, skipped, rule, cached, evalVars, fired, lastFire,
                   since, unlucky, clobbered>>
-----------------------------------------------------------------------------
Worker ==
    \/ TakeEvent \/ RuleRead \/ FillCache \/ Judge \/ Condition
    \/ Delivered \/ DeliveryFails \/ RecordReads \/ RecordCommits \/ RecordFails

Next ==
    \/ Tick
    \/ \E i \in Ingests : Schedule(i) \/ \E batch \in Batches : StoreBatch(i, batch)
    \/ Worker
    \/ \E e \in Editors :
         (\E op \in {"disable", "rename"} : EditReads(e, op)) \/ EditCommits(e) \/ EditReplies(e)

Spec == Init /\ [][Next]_vars
-----------------------------------------------------------------------------
(* Properties                                                              *)

TypeOK ==
    /\ count \in [Fingerprints -> 0 .. MaxRows]
    /\ \A i \in Ingests : Len(ingest[i]) <= MaxBatch
    /\ Len(queue) <= QueueMax
    /\ skipped \in Nat
    /\ cacheAt \in 0 .. now
    /\ worker \in {"get", "load", "loaded", "judge", "condition", "deliver", "record", "commit"}
    /\ worker = "get" <=> ev = NoEvent
    /\ began \in 0 .. now
    /\ \A e \in Editors : editor[e].at \in {"idle", "commit", "reset"}
    /\ rule.last \in 0 .. now /\ lastFire \in 0 .. now

\* A new exception class is announced at most once, however the batches that
\* bring its rows interleave with the evaluations of earlier ones, and the queue of
\* evaluations keeps its bound.
NewEventOnce ==
    /\ TypeOK
    /\ rule.trigger = "new_event" => \A f \in Fingerprints : fired[f] <= 1

\* No notification storm: two deliveries of a rate-based rule are a cool-down
\* apart, unless a delivery could not be recorded or an edit of the rule that
\* overlapped the recording has overwritten it.
CooldownUnlessOverwritten ==
    [][(rule.trigger = "event_reoccurs" /\ fired' # fired /\ lastFire # 0
        /\ ~unlucky /\ ~clobbered)
         => now >= lastFire + Cooldown]_vars

\* A rule that is disabled in the database is quiet: only an evaluation that
\* began at most TTL after it became so may still deliver.
DisabledIsQuiet ==
    [][(fired' # fired /\ ~rule.enabled) => began <= since + TTL]_vars
=============================================================================
