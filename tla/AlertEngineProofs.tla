--------------------------- MODULE AlertEngineProofs ---------------------------
(***************************************************************************)
(* The two promises of an alert rule that is edited while the engine works *)
(* with it, for any number of requests, any queue, TTL and cool-down: a    *)
(* disabled rule is quiet, and a rate-based one keeps its cool-down.       *)
(*                                                                         *)
(* Neither follows from the step that delivers.  The rule it goes by was   *)
(* judged earlier, and came from the cache or the database earlier still;  *)
(* Recent bounds how far the rule's row can have moved since, and Recorded *)
(* says who knows of the last delivery while it is being recorded.         *)
(***************************************************************************)
EXTENDS AlertEngine, FiniteSetTheorems, SequenceTheorems, TLAPS

Documents == [trigger : Triggers \cup {"none"}, enabled : BOOLEAN, last : Nat]

Types ==
    /\ now \in Nat /\ now # 0
    /\ rule \in Documents /\ rule.trigger \in Triggers
    /\ cached \in Documents /\ seen \in Documents
    /\ cacheAt \in Nat /\ cacheAt <= now
    /\ began \in Nat /\ began <= now /\ (worker \notin {"get"} => began # 0)
    /\ since \in Nat /\ since <= now
    /\ lastFire \in Nat /\ lastFire <= now
    /\ worker \in {"get", "load", "loaded", "judge", "condition", "deliver", "record", "commit"}
    /\ editor \in [Editors -> [at : {"idle", "commit", "reset"}, data : Documents]]
    /\ unlucky \in BOOLEAN /\ clobbered \in BOOLEAN
    \* Nothing changes the trigger.
    /\ cacheAt # 0 => cached.trigger = rule.trigger
    /\ worker \in {"loaded", "judge", "condition", "deliver", "commit"} => seen.trigger = rule.trigger
    /\ \A e \in Editors : editor[e].at = "commit" => editor[e].data.trigger = rule.trigger

\* Where the cache, or the rule being evaluated, is wrong about the row being
\* enabled, the row changed after it was asked for.
Recent ==
    /\ cacheAt # 0 /\ cached.enabled # rule.enabled => cacheAt <= since
    /\ worker = "loaded" /\ seen.enabled # rule.enabled => began <= since
    /\ worker \in {"judge", "condition", "deliver"} /\ seen.enabled # rule.enabled
         => began <= since + TTL
    /\ worker \in {"condition", "deliver"} => seen.enabled

\* The time of the last delivery is in the row, in the cache and in the rule being
\* evaluated, except between a delivery and the commit of its record.
Recorded ==
    ~unlucky /\ ~clobbered =>
        /\ worker \notin {"record", "commit"} =>
              /\ rule.last = lastFire
              /\ cacheAt # 0 => cached.last = lastFire
        /\ worker \in {"loaded", "judge", "condition", "deliver", "commit"} => seen.last = lastFire
        /\ worker \in {"condition", "deliver"} /\ seen.trigger = "event_reoccurs" /\ seen.last # 0
              => now >= seen.last + Cooldown

IInv == Types /\ Recent /\ Recorded

LEMMA Numbers ==
    /\ TTL \in Nat /\ Cooldown \in Nat /\ QueueMax \in Nat /\ MaxBatch \in Nat
    /\ "none" \notin Triggers
BY AlertAssumption

LEMMA BlankDocument == Blank \in Documents
BY DEF Blank, Documents

LEMMA InitIInv == Init => IInv
<1> SUFFICES ASSUME Init PROVE IInv
  OBVIOUS
<1>1. PICK r \in [trigger : Triggers, enabled : {TRUE}, last : {0}] : rule = r
  BY DEF Init
<1>2. rule \in Documents /\ rule.trigger \in Triggers /\ rule.last = 0
  <2>1. r.trigger \in Triggers /\ r.enabled \in BOOLEAN /\ r.last = 0
    OBVIOUS
  <2>2. r = [trigger |-> r.trigger, enabled |-> r.enabled, last |-> r.last]
    OBVIOUS
  <2>3. r \in Documents
    BY <2>1, <2>2 DEF Documents
  <2> QED
    BY <1>1, <2>1, <2>3
<1>3. editor \in [Editors -> [at : {"idle", "commit", "reset"}, data : Documents]]
      /\ \A e \in Editors : editor[e].at = "idle"
  BY BlankDocument DEF Init, NoEdit
<1>4. /\ now = 1 /\ cacheAt = 0 /\ cached = Blank /\ worker = "get" /\ began = 0 /\ seen = Blank
      /\ lastFire = 0 /\ since = 0 /\ ~unlucky /\ unlucky \in BOOLEAN /\ clobbered \in BOOLEAN
  BY DEF Init
<1>5. Types
  BY <1>2, <1>3, <1>4, BlankDocument DEF Types
<1>6. Recent /\ Recorded
  BY <1>2, <1>4 DEF Recent, Recorded
<1> QED
  BY <1>5, <1>6 DEF IInv
-----------------------------------------------------------------------------
(* The ingest, and the worker up to the delivery.                          *)

LEMMA TickIInv == ASSUME IInv, Tick PROVE IInv'
<1>1. now' = now + 1 /\ now' \in Nat /\ now' # 0 /\ \A n \in Nat : n <= now => n <= now'
  BY DEF Tick, IInv, Types
<1>2. UNCHANGED <<cacheVars, evalVars, rule, editor, since, lastFire, unlucky, clobbered>>
  BY DEF Tick, historyVars
<1>3. Types'
  BY <1>1, <1>2 DEF IInv, Types, cacheVars, evalVars
<1>4. Recent'
  BY <1>2 DEF IInv, Recent, cacheVars, evalVars
<1>5. now >= seen.last + Cooldown => now' >= seen.last + Cooldown
  BY <1>1, Numbers DEF IInv, Types, Documents
<1>6. Recorded'
  BY <1>2, <1>5 DEF IInv, Recorded, cacheVars, evalVars
<1> QED
  BY <1>3, <1>4, <1>6 DEF IInv

\* What the ingest does is not about the rule.
LEMMA ElsewhereIInv ==
  ASSUME IInv, UNCHANGED <<now, rule, cacheVars, evalVars, editor, historyVars>>
  PROVE  IInv'
BY DEF IInv, Types, Recent, Recorded, cacheVars, evalVars, historyVars

LEMMA TakeEventIInv == ASSUME IInv, TakeEvent PROVE IInv'
<1>1. /\ worker = "get" /\ began' = now
      /\ UNCHANGED <<now, rule, cacheVars, editor, historyVars>>
  BY DEF TakeEvent
<1>2. CASE Fresh
  <2>1. worker' = "judge" /\ seen' = cached
    BY <1>2 DEF TakeEvent
  <2>2. cacheAt # 0 /\ now <= cacheAt + TTL
    BY <1>2 DEF Fresh
  <2>3. cached.enabled # rule.enabled => now <= since + TTL
    BY <2>2, Numbers DEF IInv, Types, Recent
  <2> QED
    BY <1>1, <2>1, <2>2, <2>3 DEF IInv, Types, Recent, Recorded, cacheVars, historyVars
<1>3. CASE ~Fresh
  <2>1. worker' = "load" /\ seen' = seen
    BY <1>3 DEF TakeEvent
  <2> QED
    BY <1>1, <2>1 DEF IInv, Types, Recent, Recorded, cacheVars, historyVars
<1> QED
  BY <1>2, <1>3

LEMMA RuleReadIInv == ASSUME IInv, RuleRead PROVE IInv'
BY DEF RuleRead, IInv, Types, Recent, Recorded, cacheVars, historyVars

LEMMA FillCacheIInv == ASSUME IInv, FillCache PROVE IInv'
<1>1. began <= since => began <= since + TTL
  BY Numbers DEF IInv, Types
<1> QED
  BY <1>1 DEF FillCache, Stamp, IInv, Types, Recent, Recorded, historyVars

\* An evaluation that ends before it has delivered leaves a blank.
LEMMA DoneIInv ==
  ASSUME IInv, Done, worker \notin {"record", "commit"},
         UNCHANGED <<now, rule, cacheVars, editor, historyVars>>
  PROVE  IInv'
BY BlankDocument DEF Done, IInv, Types, Recent, Recorded, cacheVars, historyVars

LEMMA JudgeIInv == ASSUME IInv, Judge PROVE IInv'
<1>1. CASE Done
  BY <1>1, DoneIInv DEF Judge
<1>2. CASE ~Done
  <2>1. /\ worker = "judge" /\ worker' = "condition" /\ seen.enabled /\ ~Debounced
        /\ UNCHANGED <<now, rule, cacheVars, editor, historyVars, began, seen>>
    BY <1>2 DEF Judge
  <2>2. seen.trigger = "event_reoccurs" /\ seen.last # 0 => now >= seen.last + Cooldown
    BY <2>1, Numbers DEF Debounced, IInv, Types, Documents
  <2> QED
    BY <2>1, <2>2 DEF IInv, Types, Recent, Recorded, cacheVars, historyVars
<1> QED
  BY <1>1, <1>2

LEMMA ConditionIInv == ASSUME IInv, Condition PROVE IInv'
<1>1. CASE Done
  BY <1>1, DoneIInv DEF Condition
<1>2. CASE ~Done
  BY <1>2 DEF Condition, IInv, Types, Recent, Recorded, cacheVars, historyVars
<1> QED
  BY <1>1, <1>2
-----------------------------------------------------------------------------
(* The delivery, and the record of it.                                     *)

LEMMA DeliveredIInv == ASSUME IInv, Delivered PROVE IInv'
<1>1. /\ worker = "deliver" /\ worker' = "record" /\ lastFire' = now
      /\ UNCHANGED <<now, rule, cacheAt, cached, began, seen, editor, since, unlucky, clobbered>>
  BY DEF Delivered, cacheVars
<1>2. Types'
  BY <1>1 DEF IInv, Types
<1>3. Recent' /\ Recorded'
  BY <1>1 DEF IInv, Recent, Recorded
<1> QED
  BY <1>2, <1>3 DEF IInv

\* Whatever fails, the properties excuse it from then on.
LEMMA FailureIInv ==
  ASSUME IInv, Done, unlucky' = TRUE,
         UNCHANGED <<now, rule, cacheVars, editor, lastFire, since, clobbered>>
  PROVE  IInv'
BY BlankDocument DEF Done, IInv, Types, Recent, Recorded, cacheVars

LEMMA RecordReadsIInv == ASSUME IInv, RecordReads PROVE IInv'
<1>1. /\ worker = "record" /\ worker' = "commit" /\ seen' = [rule EXCEPT !.last = lastFire]
      /\ UNCHANGED <<now, rule, cacheAt, cached, began, editor, lastFire, since, unlucky, clobbered>>
  BY DEF RecordReads, cacheVars, historyVars
<1>2. seen' \in Documents /\ seen'.trigger = rule.trigger /\ seen'.last = lastFire
  BY <1>1 DEF IInv, Types, Documents
<1>3. Types'
  BY <1>1, <1>2 DEF IInv, Types
<1>4. Recent' /\ Recorded'
  BY <1>1, <1>2 DEF IInv, Recent, Recorded
<1> QED
  BY <1>3, <1>4 DEF IInv

LEMMA SinceChanges ==
  ASSUME IInv, NEW old, NEW new
  PROVE  /\ SinceChange(old, new) \in Nat /\ SinceChange(old, new) <= now
         /\ old.enabled = new.enabled => SinceChange(old, new) = since
         /\ old.enabled # new.enabled => SinceChange(old, new) = now
BY DEF IInv, Types, SinceChange

LEMMA RecordCommitsIInv == ASSUME IInv, RecordCommits PROVE IInv'
<1>1. /\ worker = "commit" /\ worker' = "get" /\ rule' = seen /\ seen' = Blank /\ began' = 0
      /\ since' = SinceChange(rule, seen) /\ cacheAt' = 0
      /\ UNCHANGED <<now, cached, editor, lastFire, unlucky, clobbered>>
  BY DEF RecordCommits, DropCache, Done
<1>2. since' \in Nat /\ since' <= now
  BY <1>1, SinceChanges
<1>3. Types'
  BY <1>1, <1>2, BlankDocument DEF IInv, Types
<1>4. Recent' /\ Recorded'
  BY <1>1 DEF IInv, Recent, Recorded
<1> QED
  BY <1>3, <1>4 DEF IInv
-----------------------------------------------------------------------------
(* The edits of the rule.                                                  *)

LEMMA EditReadsIInv ==
  ASSUME IInv, NEW e \in Editors, NEW op, EditReads(e, op)
  PROVE  IInv'
<1> DEFINE disabled == [rule EXCEPT !.enabled = FALSE]
           data     == IF op = "disable" THEN disabled ELSE rule
<1>0. disabled \in Documents /\ disabled.trigger = rule.trigger
  BY DEF IInv, Types, Documents
<1>1. /\ editor' = [editor EXCEPT ![e] = [at |-> "commit", data |-> data]]
      /\ data \in Documents /\ data.trigger = rule.trigger
  BY <1>0 DEF EditReads, IInv, Types
<1> HIDE DEF data
<1>2. UNCHANGED <<now, rule, cacheAt, cached, worker, began, seen, lastFire, since, unlucky, clobbered>>
  BY DEF EditReads, cacheVars, evalVars, historyVars
<1>3. /\ editor' \in [Editors -> [at : {"idle", "commit", "reset"}, data : Documents]]
      /\ \A f \in Editors : editor'[f].at = "commit" => editor'[f].data.trigger = rule.trigger
  BY <1>1 DEF IInv, Types
<1>4. Types'
  BY <1>2, <1>3 DEF IInv, Types
<1>5. Recent' /\ Recorded'
  BY <1>2 DEF IInv, Recent, Recorded
<1> QED
  BY <1>4, <1>5 DEF IInv

LEMMA EditCommitsIInv ==
  ASSUME IInv, NEW e \in Editors, EditCommits(e)
  PROVE  IInv'
<1> DEFINE data == editor[e].data
<1>1. /\ editor[e].at = "commit" /\ rule' = data /\ since' = SinceChange(rule, data)
      /\ clobbered' = (clobbered \/ data.last # rule.last)
      /\ editor' = [editor EXCEPT ![e].at = "reset"]
      /\ UNCHANGED <<now, cacheAt, cached, worker, began, seen, lastFire, unlucky>>
  BY DEF EditCommits, cacheVars, evalVars
<1>2. data \in Documents /\ data.trigger = rule.trigger
  BY <1>1 DEF IInv, Types
<1>3. /\ since' \in Nat /\ since' <= now
      /\ data.enabled = rule.enabled => since' = since
      /\ data.enabled # rule.enabled => since' = now
  BY <1>1, SinceChanges
<1>4. /\ editor' \in [Editors -> [at : {"idle", "commit", "reset"}, data : Documents]]
      /\ \A f \in Editors : editor'[f].at = "commit" => editor'[f].data.trigger = rule.trigger
  <2>1. editor' = [editor EXCEPT ![e] = [@ EXCEPT !.at = "reset"]]
    BY <1>1
  <2>2. [editor[e] EXCEPT !.at = "reset"] \in [at : {"idle", "commit", "reset"}, data : Documents]
        /\ [editor[e] EXCEPT !.at = "reset"].at = "reset"
    BY DEF IInv, Types
  <2> QED
    BY <2>1, <2>2 DEF IInv, Types
<1> HIDE DEF data
<1>5. Types'
  BY <1>1, <1>2, <1>3, <1>4 DEF IInv, Types
<1>6. Recent'
  <2>1. CASE data.enabled = rule.enabled
    BY <1>1, <1>3, <2>1 DEF IInv, Recent
  <2>2. CASE data.enabled # rule.enabled
    <3>1. began <= now + TTL
      BY Numbers DEF IInv, Types
    <3> QED
      BY <1>1, <1>3, <2>2, <3>1 DEF IInv, Types, Recent
  <2> QED
    BY <2>1, <2>2
<1>7. Recorded'
  BY <1>1 DEF IInv, Recorded
<1> QED
  BY <1>5, <1>6, <1>7 DEF IInv

LEMMA EditRepliesIInv ==
  ASSUME IInv, NEW e \in Editors, EditReplies(e)
  PROVE  IInv'
<1>1. /\ cacheAt' = 0 /\ editor' = [editor EXCEPT ![e] = NoEdit]
      /\ UNCHANGED <<now, rule, cached, worker, began, seen, lastFire, since, unlucky, clobbered>>
  BY DEF EditReplies, DropCache, evalVars
<1>2. /\ editor' \in [Editors -> [at : {"idle", "commit", "reset"}, data : Documents]]
      /\ \A f \in Editors : editor'[f].at = "commit" => editor'[f].data.trigger = rule.trigger
  BY <1>1, BlankDocument DEF NoEdit, IInv, Types
<1>3. Types'
  BY <1>1, <1>2 DEF IInv, Types
<1>4. Recent' /\ Recorded'
  BY <1>1 DEF IInv, Recent, Recorded
<1> QED
  BY <1>3, <1>4 DEF IInv
-----------------------------------------------------------------------------
LEMMA NextIInv == ASSUME IInv, [Next]_vars PROVE IInv'
<1>1. CASE Tick
  BY <1>1, TickIInv
<1>2. ASSUME NEW i \in Ingests, Schedule(i) \/ \E batch \in Batches : StoreBatch(i, batch)
      PROVE  IInv'
  BY <1>2, ElsewhereIInv DEF Schedule, StoreBatch
<1>3. CASE Worker
  <2>1. CASE TakeEvent \/ RuleRead \/ FillCache \/ Judge \/ Condition
    BY <2>1, TakeEventIInv, RuleReadIInv, FillCacheIInv, JudgeIInv, ConditionIInv
  <2>2. CASE Delivered \/ RecordReads \/ RecordCommits
    BY <2>2, DeliveredIInv, RecordReadsIInv, RecordCommitsIInv
  <2>3. CASE DeliveryFails \/ RecordFails
    BY <2>3, FailureIInv DEF DeliveryFails, RecordFails
  <2> QED
    BY <1>3, <2>1, <2>2, <2>3 DEF Worker
<1>4. ASSUME NEW e \in Editors,
             (\E op \in {"disable", "rename"} : EditReads(e, op)) \/ EditCommits(e) \/ EditReplies(e)
      PROVE  IInv'
  BY <1>4, EditReadsIInv, EditCommitsIInv, EditRepliesIInv
<1>5. CASE UNCHANGED vars
  BY <1>5, ElsewhereIInv DEF vars
<1> QED
  BY <1>1, <1>2, <1>3, <1>4, <1>5 DEF Next

LEMMA InvariantHolds == Spec => []IInv
<1>1. Init => IInv
  BY InitIInv
<1>2. IInv /\ [Next]_vars => IInv'
  BY NextIInv
<1> QED
  BY <1>1, <1>2, PTL DEF Spec

\* Only the delivery announces anything.
LEMMA OnlyDelivered ==
  ASSUME [Next]_vars, fired' # fired
  PROVE  Delivered
BY DEF Next, vars, historyVars, Tick, Schedule, StoreBatch, Worker, TakeEvent, RuleRead, FillCache,
       Judge, Condition, DeliveryFails, RecordReads, RecordCommits, RecordFails, EditReads,
       EditCommits, EditReplies

\* No notification storm: two recorded deliveries of a rate-based rule are a
\* cool-down apart (_debounced() and the last_triggered_at that _evaluate()
\* records), as long as no overlapping edit overwrites the record.
THEOREM CooldownIsKept == Spec => CooldownUnlessOverwritten
<1>1. IInv /\ [Next]_vars
        => [(rule.trigger = "event_reoccurs" /\ fired' # fired /\ lastFire # 0
             /\ ~unlucky /\ ~clobbered) => now >= lastFire + Cooldown]_vars
  <2> SUFFICES ASSUME IInv, [Next]_vars, rule.trigger = "event_reoccurs", fired' # fired,
                      lastFire # 0, ~unlucky, ~clobbered
               PROVE  now >= lastFire + Cooldown
    OBVIOUS
  <2>1. worker = "deliver"
    BY OnlyDelivered DEF Delivered
  <2>2. seen.trigger = "event_reoccurs" /\ seen.last = lastFire
    BY <2>1 DEF IInv, Types, Recorded
  <2> QED
    BY <2>1, <2>2 DEF IInv, Recorded
<1> QED
  BY <1>1, InvariantHolds, PTL DEF Spec, CooldownUnlessOverwritten

\* A rule that is disabled in the database is quiet: only an evaluation that began
\* at most the cache's TTL after it became so may still deliver, although the
\* cache is filled across an await and reset by requests (_RuleCache).
THEOREM DisabledStaysQuiet == Spec => DisabledIsQuiet
<1>1. IInv /\ [Next]_vars
        => [(fired' # fired /\ ~rule.enabled) => began <= since + TTL]_vars
  <2> SUFFICES ASSUME IInv, [Next]_vars, fired' # fired, ~rule.enabled
               PROVE  began <= since + TTL
    OBVIOUS
  <2>1. worker = "deliver"
    BY OnlyDelivered DEF Delivered
  <2> QED
    BY <2>1 DEF IInv, Recent
<1> QED
  BY <1>1, InvariantHolds, PTL DEF Spec, DisabledIsQuiet
-----------------------------------------------------------------------------
(* A new exception class is announced once.                                *)
(*                                                                         *)
(* An evaluation counts rows that other requests have stored since, and    *)
(* may deliver long after it counted.  What keeps it to one announcement   *)
(* is that a fingerprint with one row has one event, wherever it is on its *)
(* way to the worker, and that once it was announced none is left (Once).  *)

Has(s, f)    == \E k \in 1 .. Len(s) : s[k] = f
Single(s, f) == \A k, l \in 1 .. Len(s) : s[k] = f /\ s[l] = f => k = l

LEMMA TailHas ==
  ASSUME NEW s \in Seq(Fingerprints), s # <<>>, NEW f
  PROVE  /\ Has(Tail(s), f) => Has(s, f)
         /\ Single(s, f) => Single(Tail(s), f)
         /\ Single(s, f) /\ Head(s) = f => ~Has(Tail(s), f)
         /\ Has(s, Head(s))
<1>1. /\ Len(s) \in Nat /\ Len(s) # 0 /\ Head(s) = s[1]
      /\ Len(Tail(s)) = Len(s) - 1
      /\ \A k \in 1 .. Len(Tail(s)) : k + 1 \in 1 .. Len(s) /\ Tail(s)[k] = s[k + 1] /\ k + 1 # 1
  OBVIOUS
<1>2. Has(Tail(s), f) => Has(s, f)
  BY <1>1 DEF Has
<1>3. Single(s, f) => Single(Tail(s), f)
  <2> SUFFICES ASSUME Single(s, f), NEW k \in 1 .. Len(Tail(s)), NEW l \in 1 .. Len(Tail(s)),
                      Tail(s)[k] = f, Tail(s)[l] = f
               PROVE  k = l
    BY DEF Single
  <2>1. k + 1 = l + 1
    BY <1>1 DEF Single
  <2> QED
    BY <1>1, <2>1
<1>4. Single(s, f) /\ Head(s) = f => ~Has(Tail(s), f)
  <2> SUFFICES ASSUME Single(s, f), Head(s) = f, NEW k \in 1 .. Len(Tail(s)), Tail(s)[k] = f
               PROVE  FALSE
    BY DEF Has
  <2>1. 1 \in 1 .. Len(s)
    BY <1>1
  <2>2. k + 1 = 1
    BY <1>1, <2>1 DEF Single
  <2> QED
    BY <1>1, <2>2
<1>5. Has(s, Head(s))
  BY <1>1 DEF Has
<1> QED
  BY <1>2, <1>3, <1>4, <1>5

LEMMA AppendHas ==
  ASSUME NEW s \in Seq(Fingerprints), NEW e \in Fingerprints, NEW f
  PROVE  /\ Has(Append(s, e), f) <=> Has(s, f) \/ e = f
         /\ Single(s, f) /\ (e = f => ~Has(s, f)) => Single(Append(s, e), f)
<1>1. /\ Len(s) \in Nat /\ Len(Append(s, e)) = Len(s) + 1
      /\ \A k \in 1 .. Len(s) : Append(s, e)[k] = s[k]
      /\ Append(s, e)[Len(s) + 1] = e
  OBVIOUS
<1>2. \A k \in 1 .. Len(s) + 1 : k \in 1 .. Len(s) \/ k = Len(s) + 1
  BY <1>1
<1>3. 1 .. Len(s) \subseteq 1 .. Len(s) + 1 /\ Len(s) + 1 \in 1 .. Len(s) + 1
  BY <1>1
<1>4. Has(Append(s, e), f) <=> Has(s, f) \/ e = f
  BY <1>1, <1>2, <1>3 DEF Has
<1>5. Single(s, f) /\ (e = f => ~Has(s, f)) => Single(Append(s, e), f)
  <2> SUFFICES ASSUME Single(s, f), e = f => ~Has(s, f),
                      NEW k \in 1 .. Len(s) + 1, NEW l \in 1 .. Len(s) + 1,
                      Append(s, e)[k] = f, Append(s, e)[l] = f
               PROVE  k = l
    BY <1>1 DEF Single
  <2>1. CASE k \in 1 .. Len(s) /\ l \in 1 .. Len(s)
    BY <1>1, <2>1 DEF Single
  <2>2. CASE k = Len(s) + 1 /\ l \in 1 .. Len(s)
    BY <1>1, <2>2 DEF Has
  <2>3. CASE l = Len(s) + 1 /\ k \in 1 .. Len(s)
    BY <1>1, <2>3 DEF Has
  <2> QED
    BY <1>2, <2>1, <2>2, <2>3
<1> QED
  BY <1>4, <1>5

\* The rows a batch adds to a fingerprint: none if it has no event of it, one if
\* it has a single one.
LEMMA BatchOccurs ==
  ASSUME NEW batch \in Batches, NEW f
  PROVE  /\ batch \in Seq(Fingerprints) /\ Len(batch) <= MaxBatch
         /\ Occurs(f, batch) \in Nat
         /\ Occurs(f, batch) = 0 => ~Has(batch, f)
         /\ Occurs(f, batch) <= 1 => Single(batch, f)
<1> DEFINE places == {i \in 1 .. Len(batch) : batch[i] = f}
<1>1. PICK n \in 1 .. MaxBatch : batch \in [1 .. n -> Fingerprints]
  BY DEF Batches
<1>2. MaxBatch \in Nat /\ n \in Nat
  BY AlertAssumption
<1>3. batch \in Seq(Fingerprints) /\ Len(batch) = n
  BY <1>1, <1>2
<1>4. IsFiniteSet(places)
  BY <1>2, <1>3, FS_Interval, FS_Subset
<1>5. Occurs(f, batch) = Cardinality(places) /\ Cardinality(places) \in Nat
  BY <1>4, FS_CardinalityType DEF Occurs
<1>6. Cardinality(places) = 0 => places = {}
  BY <1>4, FS_EmptySet
<1>7. Cardinality(places) = 1 => \E x : places = {x}
  BY <1>4, FS_Singleton
<1>8. Cardinality(places) = 0 => ~Has(batch, f)
  BY <1>6 DEF Has
<1>9. Cardinality(places) <= 1 => Single(batch, f)
  BY <1>5, <1>6, <1>7 DEF Single
<1> QED
  BY <1>2, <1>3, <1>5, <1>8, <1>9
-----------------------------------------------------------------------------
Events ==
    /\ count \in [Fingerprints -> 0 .. MaxRows] /\ skipped \in Nat
    /\ ingest \in [Ingests -> Seq(Fingerprints)] /\ \A i \in Ingests : Len(ingest[i]) <= MaxBatch
    /\ queue \in Seq(Fingerprints) /\ Len(queue) <= QueueMax
    /\ ev \in Fingerprints \cup {NoEvent} /\ (worker = "get" <=> ev = NoEvent)
    /\ fired \in [Fingerprints -> Nat]

\* A rule fired at a time that has come.
Past ==
    /\ rule.last <= now /\ cached.last <= now /\ seen.last <= now
    /\ \A e \in Editors : editor[e].data.last <= now

Scheduling(f) == \E i \in Ingests : Has(ingest[i], f)

\* One event of f at most, anywhere between its row and the end of its evaluation.
OneEvent(f) ==
    /\ \A i \in Ingests : Single(ingest[i], f)
    /\ \A i, j \in Ingests : Has(ingest[i], f) /\ Has(ingest[j], f) => i = j
    /\ Single(queue, f)
    /\ Has(queue, f) => ~Scheduling(f)
    /\ ev = f => ~Has(queue, f) /\ ~Scheduling(f)

\* An event of f may still be announced.
Unheard(f) == Scheduling(f) \/ Has(queue, f) \/ (ev = f /\ worker \notin {"record", "commit"})

OnceOf(f) ==
    /\ count[f] = 0 => ~Unheard(f) /\ ev # f /\ fired[f] = 0
    /\ count[f] = 1 => OneEvent(f)
    /\ rule.trigger = "new_event" =>
          /\ fired[f] <= 1
          /\ count[f] <= 1 /\ Unheard(f) => fired[f] = 0
          /\ worker = "deliver" /\ ev = f => fired[f] = 0

Once == \A f \in Fingerprints : OnceOf(f)

EInv == Events /\ Past /\ Once

LEMMA NoEventIsNoFingerprint == NoEvent \notin Fingerprints
BY AlertAssumption DEF NoEvent

LEMMA InitEInv == Init => EInv
<1> SUFFICES ASSUME Init PROVE EInv
  OBVIOUS
<1>1. PICK r \in [trigger : Triggers, enabled : {TRUE}, last : {0}] : rule = r
  BY DEF Init
<1>2. rule.last = 0 /\ cached.last = 0 /\ seen.last = 0 /\ now = 1
      /\ \A e \in Editors : editor[e].data.last = 0
  BY <1>1 DEF Init, Blank, NoEdit
<1>3. Past
  BY <1>2 DEF Past
<1>4. Events
  BY AlertAssumption DEF Init, Events
<1>5. Once
  BY NoEventIsNoFingerprint DEF Init, Once, OnceOf, Unheard, Scheduling, OneEvent, Has, Single
<1> QED
  BY <1>3, <1>4, <1>5 DEF EInv

\* Past is kept by whatever writes a rule it has read.
LEMMA PastKept == ASSUME IInv, Past, [Next]_vars PROVE Past'
<1>1. CASE Tick
  BY <1>1 DEF Tick, cacheVars, evalVars, IInv, Types, Documents, Past
<1>2. ASSUME NEW i \in Ingests, Schedule(i) \/ \E batch \in Batches : StoreBatch(i, batch)
      PROVE  Past'
  BY <1>2 DEF Schedule, StoreBatch, cacheVars, evalVars, Past
<1>3. CASE TakeEvent \/ RuleRead \/ FillCache \/ Delivered
  BY <1>3 DEF TakeEvent, RuleRead, FillCache, Delivered, cacheVars, Past
<1>4. CASE RecordReads
  <2>1. /\ seen' = [rule EXCEPT !.last = lastFire] /\ rule \in Documents /\ lastFire <= now
        /\ UNCHANGED <<now, rule, cached, editor>>
    BY <1>4 DEF RecordReads, cacheVars, IInv, Types
  <2>2. seen'.last = lastFire
    BY <2>1 DEF Documents
  <2> QED
    BY <2>1, <2>2 DEF Past
<1>5. CASE Judge \/ Condition \/ DeliveryFails \/ RecordCommits \/ RecordFails
  <2>1. Blank.last <= now
    BY DEF Blank, IInv, Types
  <2>2. /\ seen' = seen \/ seen' = Blank
        /\ rule' = rule \/ rule' = seen
        /\ UNCHANGED <<now, cached, editor>>
    BY <1>5 DEF Judge, Condition, DeliveryFails, RecordCommits, RecordFails, Done, cacheVars
  <2> QED
    BY <2>1, <2>2 DEF Past
<1>6. ASSUME NEW e \in Editors, NEW op, EditReads(e, op) PROVE Past'
  <2>1. [rule EXCEPT !.enabled = FALSE].last = rule.last
    BY DEF IInv, Types, Documents
  <2>2. editor'[e].data.last = rule.last
    BY <1>6, <2>1 DEF EditReads, IInv, Types
  <2>3. \A d \in Editors : d # e => editor'[d] = editor[d]
    BY <1>6 DEF EditReads, IInv, Types
  <2> QED
    BY <1>6, <2>2, <2>3 DEF EditReads, cacheVars, evalVars, Past
<1>7. ASSUME NEW e \in Editors, EditCommits(e) PROVE Past'
  <2>1. /\ rule' = editor[e].data /\ editor' = [editor EXCEPT ![e] = [@ EXCEPT !.at = "reset"]]
        /\ UNCHANGED <<now, cached, seen>>
    BY <1>7 DEF EditCommits, cacheVars, evalVars
  <2>2. \A d \in Editors : editor'[d].data = editor[d].data
    BY <2>1 DEF IInv, Types
  <2> QED
    BY <2>1, <2>2 DEF Past
<1>8. ASSUME NEW e \in Editors, EditReplies(e) PROVE Past'
  <2>1. NoEdit.data.last <= now
    BY DEF NoEdit, Blank, IInv, Types
  <2>2. editor' = [editor EXCEPT ![e] = NoEdit] /\ UNCHANGED <<now, rule, cached, seen>>
    BY <1>8 DEF EditReplies, evalVars
  <2> QED
    BY <2>1, <2>2 DEF IInv, Types, Past
<1>9. CASE UNCHANGED vars
  BY <1>9 DEF vars, cacheVars, evalVars, Past
<1> QED
  BY <1>1, <1>2, <1>3, <1>4, <1>5, <1>6, <1>7, <1>8, <1>9 DEF Next, Worker

\* What leaves the events where they are, or ends the evaluation of one, without
\* announcing it.
LEMMA OnwardOnce ==
  ASSUME Events, Once, UNCHANGED <<count, skipped, ingest, queue, fired>>,
         rule'.trigger = rule.trigger,
         ev' = ev \/ ev' = NoEvent, worker' = "get" <=> ev' = NoEvent,
         ev' = ev /\ worker \in {"record", "commit"} => worker' \in {"record", "commit"},
         ev' = ev /\ worker' = "deliver" /\ rule.trigger = "new_event"
           => worker = "deliver" \/ (ev \in Fingerprints => fired[ev] = 0)
  PROVE  Events' /\ Once'
<1>1. Events'
  BY DEF Events
<1>2. \A f \in Fingerprints : ev' = f => ev = f
  BY NoEventIsNoFingerprint
<1>3. \A f \in Fingerprints : Unheard(f)' => Unheard(f)
  BY <1>2 DEF Unheard, Scheduling
<1>4. \A f \in Fingerprints : OneEvent(f) => OneEvent(f)'
  BY <1>2 DEF OneEvent, Scheduling
<1>5. Once'
  <2> SUFFICES ASSUME NEW f \in Fingerprints PROVE OnceOf(f)'
    BY DEF Once
  <2>1. OnceOf(f)
    BY DEF Once
  <2> QED
    BY <1>2, <1>3, <1>4, <2>1 DEF OnceOf
<1> QED
  BY <1>1, <1>5

\* The rows of a batch and its events come at once.
LEMMA StoreBatchOnce ==
  ASSUME Events, Once, NEW i \in Ingests, NEW batch \in Batches, StoreBatch(i, batch)
  PROVE  Events' /\ Once'
<1>1. /\ ingest[i] = <<>> /\ ingest' = [ingest EXCEPT ![i] = batch]
      /\ count' = [f \in Fingerprints |-> count[f] + Occurs(f, batch)]
      /\ \A f \in Fingerprints : count[f] + Occurs(f, batch) <= MaxRows
      /\ UNCHANGED <<rule, queue, skipped, worker, ev, fired>>
  BY DEF StoreBatch, evalVars, historyVars
<1>2. /\ ingest'[i] = batch /\ \A j \in Ingests : j # i => ingest'[j] = ingest[j]
  BY <1>1 DEF Events
<1>3. Events'
  <2>1. count' \in [Fingerprints -> 0 .. MaxRows]
    BY <1>1, BatchOccurs, AlertAssumption DEF Events
  <2> QED
    BY <1>1, <1>2, <2>1, BatchOccurs DEF Events
<1>4. Once'
  <2> SUFFICES ASSUME NEW f \in Fingerprints PROVE OnceOf(f)'
    BY DEF Once
  <2> DEFINE n == Occurs(f, batch)
  <2>1. /\ OnceOf(f) /\ n \in Nat /\ count[f] \in Nat /\ count'[f] = count[f] + n
        /\ n = 0 => ~Has(batch, f)
        /\ n <= 1 => Single(batch, f)
    BY <1>1, BatchOccurs DEF Once, Events
  <2> HIDE DEF n
  <2>2. ~Has(ingest[i], f) /\ Single(ingest[i], f)
    BY <1>1 DEF Has, Single
  <2>3. CASE n = 0
    <3>1. count'[f] = count[f] /\ (Scheduling(f)' <=> Scheduling(f))
      BY <1>2, <2>1, <2>2, <2>3 DEF Scheduling
    <3>2. Unheard(f)' <=> Unheard(f)
      BY <1>1, <3>1 DEF Unheard
    <3>3. OneEvent(f) => OneEvent(f)'
      BY <1>1, <1>2, <2>1, <2>2, <2>3, <3>1 DEF OneEvent
    <3> QED
      BY <1>1, <2>1, <3>1, <3>2, <3>3 DEF OnceOf
  <2>4. CASE count[f] = 0 /\ n = 1
    <3>1. ~Scheduling(f) /\ ~Has(queue, f) /\ ev # f /\ fired[f] = 0
      BY <2>1, <2>4 DEF OnceOf, Unheard
    <3>2. OneEvent(f)'
      <4>1. \A j \in Ingests : Has(ingest'[j], f) => j = i
        BY <1>2, <3>1 DEF Scheduling
      <4>2. \A j \in Ingests : Single(ingest'[j], f)
        BY <1>2, <2>1, <2>4, <3>1 DEF Scheduling, Single, Has
      <4>3. Single(queue, f)
        BY <3>1 DEF Single, Has
      <4> QED
        BY <1>1, <3>1, <4>1, <4>2, <4>3 DEF OneEvent
    <3>3. count'[f] = 1
      BY <2>1, <2>4
    <3> QED
      BY <1>1, <3>1, <3>2, <3>3 DEF OnceOf
  <2>5. CASE n # 0 /\ ~(count[f] = 0 /\ n = 1)
    <3>1. count'[f] > 1
      BY <2>1, <2>5
    <3> QED
      BY <1>1, <2>1, <3>1 DEF OnceOf
  <2> QED
    BY <2>3, <2>4, <2>5
<1> QED
  BY <1>3, <1>4

\* An event goes to the end of the queue, or nowhere.
LEMMA ScheduleOnce ==
  ASSUME Events, Once, NEW i \in Ingests, Schedule(i)
  PROVE  Events' /\ Once'
<1> DEFINE s == ingest[i]
           h == Head(s)
<1>1. /\ s \in Seq(Fingerprints) /\ s # <<>> /\ ingest' = [ingest EXCEPT ![i] = Tail(s)]
      /\ UNCHANGED <<count, rule, worker, ev, fired>>
  BY DEF Schedule, Events, evalVars, historyVars
<1>2. /\ ingest'[i] = Tail(s) /\ \A j \in Ingests : j # i => ingest'[j] = ingest[j]
  BY <1>1 DEF Events
<1>3. \/ Len(queue) < QueueMax /\ queue' = Append(queue, h) /\ skipped' = skipped
      \/ queue' = queue /\ skipped' = skipped + 1
  BY DEF Schedule, PutNoWait
<1>4. h \in Fingerprints /\ Tail(s) \in Seq(Fingerprints) /\ Len(Tail(s)) <= Len(s) /\ Len(s) \in Nat
      /\ Len(Tail(s)) \in Nat
  BY <1>1
<1>5. Events'
  <2> HIDE DEF h
  <2>1. queue' \in Seq(Fingerprints) /\ Len(queue') <= QueueMax /\ skipped' \in Nat
    <3>1. CASE queue' = queue /\ skipped' = skipped + 1
      BY <3>1 DEF Events
    <3>2. CASE Len(queue) < QueueMax /\ queue' = Append(queue, h) /\ skipped' = skipped
      <4>1. queue \in Seq(Fingerprints) /\ skipped \in Nat
        BY DEF Events
      <4>2. Append(queue, h) \in Seq(Fingerprints) /\ Len(Append(queue, h)) = Len(queue) + 1
            /\ Len(queue) \in Nat
        BY <1>4, <4>1
      <4> QED
        BY <3>2, <4>1, <4>2, Numbers
    <3> QED
      BY <1>3, <3>1, <3>2
  <2>2. \A j \in Ingests : Len(ingest'[j]) <= MaxBatch
    <3>1. Len(s) <= MaxBatch
      BY DEF Events
    <3>2. Len(Tail(s)) <= MaxBatch
      BY <1>4, <3>1, Numbers
    <3> HIDE DEF s
    <3> QED
      BY <1>2, <3>2 DEF Events
  <2> QED
    BY <1>1, <1>4, <2>1, <2>2 DEF Events
<1> HIDE DEF s, h
<1>6. Once'
  <2> SUFFICES ASSUME NEW f \in Fingerprints PROVE OnceOf(f)'
    BY DEF Once
  <2>1. OnceOf(f)
    BY DEF Once
  <2>2. /\ Has(Tail(s), f) => Has(s, f)
        /\ Single(s, f) => Single(Tail(s), f)
        /\ Single(s, f) /\ h = f => ~Has(Tail(s), f)
        /\ h = f => Has(s, f)
    BY <1>1, TailHas DEF h
  <2>3. /\ Has(queue', f) => Has(queue, f) \/ h = f
        /\ Single(queue, f) /\ (h = f => ~Has(queue, f)) => Single(queue', f)
    <3>1. queue \in Seq(Fingerprints)
      BY DEF Events
    <3>2. CASE queue' = queue
      BY <3>2
    <3>3. CASE queue' = Append(queue, h)
      BY <1>4, <3>1, <3>3, AppendHas
    <3> QED
      BY <1>3, <3>2, <3>3
  <2>4. s = ingest[i]
    BY DEF s
  <2>5. Scheduling(f)' => Scheduling(f)
    BY <1>2, <2>2, <2>4 DEF Scheduling
  <2>6. h = f => Scheduling(f)
    BY <2>2, <2>4 DEF Scheduling
  <2>7. Unheard(f)' => Unheard(f)
    BY <1>1, <2>3, <2>5, <2>6 DEF Unheard
  <2>8. ASSUME OneEvent(f) PROVE OneEvent(f)'
    <3>1. /\ \A j \in Ingests : Single(ingest'[j], f)
          /\ \A j \in Ingests : Has(ingest'[j], f) => Has(ingest[j], f)
      BY <1>2, <2>2, <2>4, <2>8 DEF OneEvent
    <3>2. h = f => ~Has(queue, f) /\ ~Scheduling(f)'
      BY <1>2, <2>2, <2>4, <2>6, <2>8, <3>1 DEF OneEvent, Scheduling
    <3> QED
      BY <1>1, <2>3, <2>5, <2>6, <2>8, <3>1, <3>2 DEF OneEvent
  <2> QED
    BY <1>1, <2>1, <2>7, <2>8 DEF OnceOf
<1> QED
  BY <1>5, <1>6

LEMMA TakeEventOnce == ASSUME Events, Once, TakeEvent PROVE Events' /\ Once'
<1> DEFINE h == Head(queue)
<1>1. /\ worker = "get" /\ queue # <<>> /\ queue \in Seq(Fingerprints)
      /\ ev' = h /\ queue' = Tail(queue) /\ worker' \in {"judge", "load"}
      /\ UNCHANGED <<count, ingest, skipped, rule, fired>>
  BY DEF TakeEvent, Events, historyVars
<1>2. /\ h \in Fingerprints /\ Tail(queue) \in Seq(Fingerprints) /\ Len(Tail(queue)) <= Len(queue)
      /\ Len(queue) \in Nat /\ Len(Tail(queue)) \in Nat
  BY <1>1
<1>3. Events'
  BY <1>1, <1>2, NoEventIsNoFingerprint, AlertAssumption DEF Events
<1>4. Once'
  <2> SUFFICES ASSUME NEW f \in Fingerprints PROVE OnceOf(f)'
    BY DEF Once
  <2>1. OnceOf(f) /\ ev = NoEvent
    BY <1>1 DEF Once, Events
  <2>2. /\ Has(queue', f) => Has(queue, f)
        /\ Single(queue, f) => Single(queue', f)
        /\ Single(queue, f) /\ h = f => ~Has(queue', f)
        /\ h = f => Has(queue, f)
    BY <1>1, TailHas
  <2> HIDE DEF h
  <2>3. Scheduling(f)' <=> Scheduling(f)
    BY <1>1 DEF Scheduling
  <2>4. Unheard(f)' => Unheard(f)
    BY <1>1, <2>2, <2>3 DEF Unheard
  <2>5. OneEvent(f) => OneEvent(f)'
    BY <1>1, <2>2, <2>3 DEF OneEvent
  <2>6. ev' = f => Unheard(f)
    BY <1>1, <2>2 DEF Unheard
  <2> QED
    BY <1>1, <2>1, <2>4, <2>5, <2>6 DEF OnceOf
<1> QED
  BY <1>3, <1>4

LEMMA DeliveredOnce == ASSUME Events, Once, Delivered PROVE Events' /\ Once'
<1>1. /\ worker = "deliver" /\ worker' = "record" /\ fired' = [fired EXCEPT ![ev] = @ + 1]
      /\ UNCHANGED <<count, ingest, queue, skipped, rule, ev>>
  BY DEF Delivered
<1>2. ev \in Fingerprints /\ ev # NoEvent
  BY <1>1 DEF Events
<1>3. fired' \in [Fingerprints -> Nat]
  BY <1>1, <1>2 DEF Events
<1>4. Events'
  BY <1>1, <1>2, <1>3 DEF Events
<1>5. Once'
  <2> SUFFICES ASSUME NEW f \in Fingerprints PROVE OnceOf(f)'
    BY DEF Once
  <2>1. OnceOf(f) /\ fired[f] \in Nat /\ count[f] \in Nat
    BY DEF Once, Events
  <2>2. (Scheduling(f)' <=> Scheduling(f)) /\ (OneEvent(f)' <=> OneEvent(f))
    BY <1>1 DEF Scheduling, OneEvent
  <2>3. CASE f # ev
    <3>1. fired'[f] = fired[f] /\ (Unheard(f)' => Unheard(f))
      BY <1>1, <1>2, <2>2, <2>3 DEF Unheard, Events
    <3> QED
      BY <1>1, <2>1, <2>2, <2>3, <3>1 DEF OnceOf
  <2>4. CASE f = ev
    <3>1. fired'[f] = fired[f] + 1 /\ count[f] # 0
      BY <1>1, <1>2, <2>1, <2>4 DEF OnceOf, Events
    <3>2. count[f] = 1 => ~Unheard(f)'
      BY <1>1, <2>1, <2>2, <2>4 DEF OnceOf, OneEvent, Unheard
    <3>3. rule.trigger = "new_event" => fired[f] = 0
      BY <1>1, <2>1, <2>4 DEF OnceOf
    <3> QED
      BY <1>1, <2>1, <2>2, <3>1, <3>2, <3>3 DEF OnceOf
  <2> QED
    BY <2>3, <2>4
<1> QED
  BY <1>4, <1>5

\* The steps of an evaluation, and of anything that is not about events.
LEMMA OtherOnce ==
  ASSUME IInv, Events, Once,
         \/ Tick \/ RuleRead \/ FillCache \/ Judge \/ Condition
         \/ DeliveryFails \/ RecordReads \/ RecordCommits \/ RecordFails
         \/ \E e \in Editors : (\E op \in {"disable", "rename"} : EditReads(e, op))
                               \/ EditCommits(e) \/ EditReplies(e)
         \/ UNCHANGED vars
  PROVE  Events' /\ Once'
<1>1. UNCHANGED <<count, skipped, ingest, queue, fired>>
  BY DEF Tick, RuleRead, FillCache, Judge, Condition, DeliveryFails, RecordReads, RecordCommits,
         RecordFails, EditReads, EditCommits, EditReplies, vars, historyVars
<1>2. rule'.trigger = rule.trigger
  <2>1. CASE RecordCommits
    BY <2>1 DEF RecordCommits, IInv, Types
  <2>2. ASSUME NEW e \in Editors, EditCommits(e) PROVE rule'.trigger = rule.trigger
    BY <2>2 DEF EditCommits, IInv, Types
  <2> QED
    BY <2>1, <2>2 DEF Tick, RuleRead, FillCache, Judge, Condition, DeliveryFails, RecordReads,
                      RecordFails, EditReads, EditReplies, vars
<1>3. \/ ev' = NoEvent /\ worker' = "get"
      \/ ev' = ev /\ worker' = worker
      \/ ev' = ev /\ worker \in {"load", "loaded", "judge"} /\ worker' \in {"loaded", "judge", "condition"}
      \/ ev' = ev /\ worker = "record" /\ worker' = "commit"
      \/ ev' = ev /\ worker = "condition" /\ worker' = "deliver" /\ Holds
  BY DEF Tick, RuleRead, FillCache, Judge, Condition, DeliveryFails, RecordReads, RecordCommits,
         RecordFails, EditReads, EditCommits, EditReplies, vars, evalVars, historyVars, Done
<1>4. worker' = "get" <=> ev' = NoEvent
  BY <1>3 DEF Events
<1>5. ASSUME worker = "condition", Holds, rule.trigger = "new_event", ev \in Fingerprints
      PROVE  fired[ev] = 0
  <2>1. seen.trigger = "new_event"
    BY <1>5 DEF IInv, Types
  <2>2. count[ev] <= 1
    BY <1>5, <2>1 DEF Holds, IsNew
  <2> QED
    BY <1>5, <2>2 DEF Once, OnceOf, Unheard
<1>6. ev' = ev /\ worker \in {"record", "commit"} => worker' \in {"record", "commit"}
  BY <1>3 DEF Events
<1>7. ev' = ev /\ worker' = "deliver" /\ rule.trigger = "new_event"
        => worker = "deliver" \/ (ev \in Fingerprints => fired[ev] = 0)
  BY <1>3, <1>5
<1>8. ev' = ev \/ ev' = NoEvent
  BY <1>3
<1> QED
  BY <1>1, <1>2, <1>4, <1>6, <1>7, <1>8, OnwardOnce

LEMMA NextEInv == ASSUME IInv, EInv, [Next]_vars PROVE EInv'
<1>1. Past'
  BY PastKept DEF EInv
<1>2. Events /\ Once
  BY DEF EInv
<1>3. CASE \E i \in Ingests : Schedule(i) \/ \E batch \in Batches : StoreBatch(i, batch)
  BY <1>1, <1>2, <1>3, ScheduleOnce, StoreBatchOnce DEF EInv
<1>4. CASE TakeEvent \/ Delivered
  BY <1>1, <1>2, <1>4, TakeEventOnce, DeliveredOnce DEF EInv
<1> QED
  BY <1>1, <1>2, <1>3, <1>4, OtherOnce DEF EInv, Next, Worker

\* The first event of a new exception class is announced once, however batches,
\* the queue and the evaluations interleave (schedule_evaluation(), _evaluate(),
\* _condition_met()).
THEOREM AnnouncedOnce == Spec => []NewEventOnce
<1>1. Init => IInv /\ EInv
  BY InitIInv, InitEInv
<1>2. IInv /\ EInv /\ [Next]_vars => IInv' /\ EInv'
  BY NextIInv, NextEInv
<1>3. IInv /\ EInv => NewEventOnce
  <2> SUFFICES ASSUME IInv, EInv PROVE NewEventOnce
    OBVIOUS
  <2>1. \A e \in Editors : editor[e].at \in {"idle", "commit", "reset"}
    BY DEF IInv, Types
  <2>2. TypeOK
    BY <2>1 DEF IInv, Types, Documents, EInv, Events, Past, TypeOK
  <2> QED
    BY <2>2 DEF EInv, Once, OnceOf, NewEventOnce
<1> QED
  BY <1>1, <1>2, <1>3, PTL DEF Spec
=============================================================================
