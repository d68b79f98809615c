-------------------------------- MODULE Derive --------------------------------
(***************************************************************************)
(* What the dashboard derives from the collector's raw rows                *)
(* (integrations/collector/client.ts, read through adapter.ts): events,    *)
(* occurrences, applications, deployments and servers.                     *)
(*                                                                         *)
(* A row is a record                                                       *)
(*   id, fp          its number and its fingerprint ("": none)             *)
(*   app, inst, env  deployment, instance and environment reported ("none")*)
(*   caught, error   caught or not, and whether its class is an ...Error   *)
(*   hits, n         the agent's running hit count for the throw site, and *)
(*                   the occurrences the row stands for                    *)
(*   at              its time, in minutes: when the agent saw it and when  *)
(*                   the collector received it are taken to be the same    *)
(* and an instance a record inst, app, env, at.  Rows come newest first.   *)
(***************************************************************************)
EXTENDS Integers, SequencesExt

\* Positions in order, given those that come before each: k - 1 of them before the k-th.
InOrder(before) ==
    [k \in 1..Cardinality(DOMAIN before) |-> CHOOSE i \in DOMAIN before : Cardinality(before[i]) = k - 1]

Along(s, order) == [k \in DOMAIN order |-> s[order[k]]]

\* Array.sort(), which is stable: of two elements of a rank the earlier one comes first.
StableSort(s, Before(_, _)) ==
    Along(s, InOrder([i \in DOMAIN s |->
        {j \in DOMAIN s : Before(s[j], s[i]) \/ (j < i /\ ~Before(s[i], s[j]))}]))

Total(s, Value(_)) == SumFunction([i \in DOMAIN s |-> Value(s[i])])

\* Array.filter(): the elements at the positions that are kept.
At(s, kept) ==
    LET upto[n \in 0..Len(s)] ==
            IF n = 0 THEN <<>> ELSE IF n \in kept THEN Append(upto[n - 1], s[n]) ELSE upto[n - 1]
    IN  upto[Len(s)]

Where(s, Test(_)) == At(s, {i \in DOMAIN s : Test(s[i])})

Take(s, n) == SubSeq(s, 1, IF Len(s) < n THEN Len(s) ELSE n)
-----------------------------------------------------------------------------
(* Events and occurrences.                                                 *)

\* The event a row belongs to.
EventId(r) == IF r.fp # "" THEN r.fp ELSE "id:" \o ToString(r.id)

Or(value, default) == IF value = "none" THEN default ELSE value

AppOf(r) == Or(r.app, "unknown")

SeverityFor(r) == IF r.caught THEN "warning" ELSE IF r.error THEN "critical" ELSE "error"

\* deriveEvents(), for one group of rows: the newest represents it.
Event(id, g) ==
    [id |-> id, app |-> AppOf(g[1]), severity |-> SeverityFor(g[1]),
     type |-> IF g[1].caught THEN "caught_exception" ELSE "uncaught_exception",
     first |-> Min({g[i].at : i \in DOMAIN g}), last |-> Max({g[i].at : i \in DOMAIN g}),
     hits |-> Total(g, LAMBDA r : IF r.hits = 0 THEN 1 ELSE r.hits),
     status |-> "active", introduced |-> "none"]

Group(rows, id) == Where(rows, LAMBDA r : EventId(r) = id)

\* deriveEvents(): in the order of their newest rows.
Events(rows) ==
    LET heads == Where([i \in DOMAIN rows |-> i],
                       LAMBDA i : \A j \in 1..(i - 1) : EventId(rows[j]) # EventId(rows[i]))
    IN  [k \in DOMAIN heads |-> Event(EventId(rows[heads[k]]), Group(rows, EventId(rows[heads[k]])))]

\* deriveSnapshots() of one event, ordered by timestamp, newest first.
Snapshots(rows, id) == StableSort(Group(rows, id), LAMBDA r, s : r.at > s.at)
-----------------------------------------------------------------------------
(* Applications, deployments and servers.                                  *)

Environments == {"production", "staging", "development"}

\* normalizeEnvironment().  (Mutated form: what is not known stays as it is.)
NormalizeKnown(raw) ==
    CASE raw \in {"staging", "stage", "stg"}     -> "staging"
      [] raw \in {"development", "dev", "local"} -> "development"
      [] OTHER                                   -> raw

NormalizeEnvironment(raw) ==
    CASE raw \in {"staging", "stage", "stg"}     -> "staging"
      [] raw \in {"development", "dev", "local"} -> "development"
      [] OTHER                                   -> "production"

\* deriveApplications(): named by the rows and the instances; the last instance that
\* reports an environment decides it.
Applications(rows, instances, now) ==
    LET named == {AppOf(rows[i]) : i \in DOMAIN rows} \cup {AppOf(instances[i]) : i \in DOMAIN instances}
        tagged(a) == {i \in DOMAIN instances : AppOf(instances[i]) = a /\ instances[i].env # "none"}
        seen(a) == {rows[i].at : i \in {j \in DOMAIN rows : AppOf(rows[j]) = a}}
    IN  {[id |-> a,
          env |-> IF tagged(a) = {} THEN "production"
                  ELSE NormalizeEnvironment(instances[Max(tagged(a))].env),
          created |-> IF seen(a) = {} THEN now ELSE Min(seen(a))] : a \in named}

\* deriveDeployments(): one per application.
Deployments(apps) == {[id |-> a.id, app |-> a.id, started |-> a.created] : a \in apps}

\* deriveServers(): an instance is dormant after five minutes and offline after an hour.
Servers(instances, now) ==
    {[id |-> instances[i].inst, app |-> AppOf(instances[i]),
      status |-> IF now - instances[i].at < 5 THEN "active"
                 ELSE IF now - instances[i].at < 60 THEN "dormant" ELSE "offline"] : i \in DOMAIN instances}
-----------------------------------------------------------------------------
(* The collector's series (storage.py): per event its occurrences in the   *)
(* window and how they fall into its two halves.                           *)

\* _env_clause()
InEnvironment(r, env) ==
    IF env = "production" THEN r.env \in {"production", "none", ""} ELSE r.env = env

\* event_series(); the buckets of each half are added up.
EventSeries(rows, env, hours, now) ==
    LET counted == Where(rows, LAMBDA r : r.fp # "" /\ InEnvironment(r, env) /\ r.at >= now - 60 * hours)
        of(id, Half(_)) == Total(Where(counted, LAMBDA r : r.fp = id /\ Half(now - r.at >= 30 * hours)),
                                 LAMBDA r : r.n)
    IN  [id \in {counted[i].fp : i \in DOMAIN counted} |->
            LET halves == <<of(id, LAMBDA early : early), of(id, LAMBDA early : ~early)>>
            IN  [total |-> halves[1] + halves[2], buckets |-> halves]]

\* isSeriesIncreasing()
IsIncreasing(buckets) ==
    LET mid == Len(buckets) \div 2
        sum(from, to) == Total(SubSeq(buckets, from, to), LAMBDA b : b)
    IN  /\ Len(buckets) >= 2
        /\ sum(mid + 1, Len(buckets)) > 0
        /\ 5 * sum(mid + 1, Len(buckets)) > 6 * sum(1, mid)
=============================================================================
