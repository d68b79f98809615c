-------------------------------- MODULE Browse --------------------------------
(***************************************************************************)
(* The pages that read (routes/_authenticated): dashboard, events,         *)
(* applications and deployments, with the environment and the time range   *)
(* of the header (lib/app-context.tsx), and the page of one event          *)
(* (EventDetail).  Every page has a query of its own over the derived      *)
(* tables of Derive, some also the collector's series for the environment  *)
(* and the range; a live message makes the page on view fetch them again.  *)
(* The tables of a page are requested at once and independently: each may  *)
(* be of another state of the collector, and each may fail on its own.     *)
(*                                                                         *)
(* A free-text search is left out, and so are the names and places that    *)
(* the pages print.  react-query and the router are external.              *)
(***************************************************************************)
EXTENDS EventDetail

CONSTANTS
    Instances,  \* external: the collector's JVM instances, oldest first; bound: none comes
    Later,      \* bound: the times the clock may come to
    Ranges,     \* bound: time ranges that are chosen
    FirstPages, \* bound: <<page, target, habits>>: what the URL is of at first, and what the
                \* reader does then, if the cache is used, if rows go, if time passes
    MaxOps      \* bound: things the reader does, apart from those of EventDetail

Pages == {"dashboard", "events", "applications", "application", "deployments", "deployment"}

ASSUME BrowseAssumption ==
    /\ Instances \in Seq([inst : STRING, app : STRING, env : STRING, at : Nat])
    /\ Later \in SUBSET Nat /\ Later # {}
    /\ "24h" \in Ranges /\ MaxOps \in Nat
    /\ FirstPages \subseteq Pages \X STRING \X SUBSET STRING

VARIABLES
    now,        \* external: minutes
    page,       \* the page on view, or "event"
    target,     \* URL: the application or deployment of a detail page
    env, range, \* AppContext
    cutoff,     \* EventsPage: memoized start of the time range
    search,     \* EventsPage, URL: the filters and the order
    selected,   \* EventsPage: events that are ticked
    cards,      \* ApplicationsPage: its environment filter
    data,       \* the page's query: what it was answered
    series,     \* its series query: what it was answered
    pending,    \* which of the two are being fetched (the first as asked[DataKey] has it)
    habits,     \* bound: what may happen, of what FirstPages names
    ops         \* history: things the reader did

pageState == <<page, target, env, range, cutoff, search, selected, cards, data, series, pending, ops>>
vars == <<collector, quiet, now, requests, eventPage, pageState, habits>>

Hours == [r \in Ranges |-> CASE r = "1h" -> 1 [] r = "7d" -> 168 [] r = "30d" -> 720 [] OTHER -> 24]
WithSeries == {"dashboard", "events", "applications"}

\* What a query holds before its first answer, and after an answer without rows.
NoData ==
    [ok |-> FALSE, rows |-> <<>>, events |-> <<>>, apps |-> {}, releases |-> {}, machines |-> {}, whole |-> FALSE]

Loading == "data" \in pending /\ ~data.ok

\* The tables that a page's query asks for.  (That of a deployment has its servers from
\* a query of their own, which is folded into the first.)
TablesOf ==
    [p \in Pages |->
        CASE p = "dashboard"    -> {"events", "applications", "deployments"}
          [] p = "events"       -> {"events", "applications", "deployments", "servers", "snapshots"}
          [] p = "applications" -> {"events", "applications", "servers"}
          [] p = "deployments"  -> {"events", "applications", "deployments"}
          [] OTHER              -> {"events", "applications", "deployments", "servers"}]

\* An answer: each table that was read as it is derived from the state read for it,
\* while the query runs, the others empty.  whole is history: the applications were
\* read, and with every row that the events were read with.
Answer(read, of) ==
    LET from == [t \in {"snapshots", "events", "applications", "deployments"} |->
                    IF t \in read THEN states[of[t]] ELSE <<>>]
    IN  [ok |-> TRUE, rows |-> from["snapshots"], events |-> Events(from["events"]),
         apps |-> IF "applications" \in read THEN Applications(from["applications"], Instances, now) ELSE {},
         releases |-> IF "deployments" \in read
                      THEN Deployments(Applications(from["deployments"], Instances, now)) ELSE {},
         machines |-> IF "servers" \in read THEN Servers(Instances, now) ELSE {},
         whole |-> "applications" \in read /\ ToSet(from["events"]) \subseteq ToSet(from["applications"])]

Found == data.events
Apps == data.apps
Releases == data.releases
Machines == data.machines
AppsIn(e) == {a \in Apps : a.env = e}
In(e, x) == \E a \in AppsIn(e) : a.id = x.app

TotalOf(id) == IF id \in DOMAIN series THEN series[id].total ELSE 0
Rising(id) == id \in DOMAIN series /\ IsIncreasing(series[id].buckets)
-----------------------------------------------------------------------------
(* The dashboard.                                                          *)

PeriodEvents == Where(Found, LAMBDA x : In(env, x) /\ x.status = "active" /\ TotalOf(x.id) > 0)
NewEvents == Where(PeriodEvents, LAMBDA x : x.first >= now - 60 * Hours[range])
Increasing == Where(PeriodEvents, LAMBDA x : Rising(x.id))
ByVolume(x, y) == TotalOf(x.id) > TotalOf(y.id)
NewAndIncreasing ==
    Take(StableSort(NewEvents \o Where(Increasing, LAMBDA x : x \notin ToSet(NewEvents)), ByVolume), 8)
TopEvents == Take(StableSort(PeriodEvents, ByVolume), 6)

\* reliability: Math.round(100 - penalty * 30), kept within 0 and 100.  (Mutated form:
\* not kept.)
ReliabilityUnbounded ==
    LET n == Len(PeriodEvents) IN
    IF n = 0 THEN 100
    ELSE (200 * n - 60 * (4 * Len(NewEvents) + 2 * Len(Increasing)) + n) \div (2 * n)

Reliability ==
    LET n == Len(PeriodEvents) IN
    IF n = 0 THEN 100
    ELSE Max({0, Min({100, (200 * n - 60 * (4 * Len(NewEvents) + 2 * Len(Increasing)) + n) \div (2 * n)})})

Verdict == IF Reliability >= 90 THEN "healthy" ELSE IF Reliability >= 70 THEN "degraded" ELSE "at risk"

Rank(x) == CASE x.severity = "critical" -> 0 [] x.severity = "error" -> 1 [] OTHER -> 2

\* appHealth, by number and severity of the events in the window.
Light(mine) ==
    IF Len(mine) >= 6 \/ \E x \in ToSet(mine) : x.severity = "critical" THEN "red"
    ELSE IF Len(mine) >= 2 THEN "amber" ELSE "green"

TrafficLight(a) ==
    LET mine == Where(PeriodEvents, LAMBDA x : x.app = a.id)
    IN  [count |-> Len(mine),
         worst |-> Take(StableSort(mine, LAMBDA x, y : Rank(x) < Rank(y)), 1),
         light |-> Light(mine)]

\* recentDeployments: the last six, with the events they introduced.
RecentDeployments ==
    LET mine == {d \in Releases : In(env, d)}
        newest == {d \in mine : Cardinality({e \in mine : e.started > d.started}) < 6}
    IN  {[deployment |-> d.id, delta |-> Len(Where(Found, LAMBDA x : /\ In(env, x) /\ x.status = "active"
                                                                          /\ x.introduced = d.id))] :
            d \in newest}

Dashboard ==
    [events |-> Len(PeriodEvents), hits |-> Total(PeriodEvents, LAMBDA x : TotalOf(x.id)),
     new |-> Len(NewEvents), score |-> Reliability, verdict |-> Verdict,
     regressions |-> NewAndIncreasing, top |-> TopEvents,
     apps |-> [a \in AppsIn(env) |-> TrafficLight(a)], deployments |-> RecentDeployments]
-----------------------------------------------------------------------------
(* The list of events.                                                     *)

Unfiltered ==
    [type |-> {}, severity |-> {}, status |-> {}, app |-> {}, deployment |-> {}, server |-> {},
     chip |-> "", sort |-> "last_seen", dir |-> "desc"]

\* What the filter rail offers for each field.
Offered(field) ==
    CASE field = "type"       -> {"uncaught_exception", "caught_exception"}
      [] field = "severity"   -> {"critical", "error", "warning", "info"}
      [] field = "status"     -> {"active", "resolved", "hidden"}
      [] field = "app"        -> {a.id : a \in AppsIn(env)}
      [] field = "deployment" -> {d.id : d \in {d \in Releases : In(env, d)}}
      [] field = "server"     -> {m.id : m \in {m \in Machines : In(env, m)}}

Fields == {"type", "severity", "status", "app", "deployment", "server"}

ServersOf(x) == {r.inst : r \in ToSet(Group(data.rows, x.id))}

\* The deployment that started last, of an application: the one it has.
LatestDeployment(app) == {d.id : d \in {d \in Releases : d.app = app}}

Passes(x, field) ==
    LET wanted == search[field] IN
    IF field = "status" /\ (search.chip = "unresolved" \/ wanted = {}) THEN x.status = "active"
    ELSE \/ wanted = {}
         \/ CASE field = "server"     -> wanted \cap ServersOf(x) # {}
              [] field = "deployment" -> x.introduced \in wanted
              [] OTHER                -> x[field] \in wanted

ChipPasses(x) ==
    CASE search.chip = "new"        -> x.introduced \in LatestDeployment(x.app)
      [] search.chip = "increasing" -> Rising(x.id)
      [] OTHER                      -> TRUE

\* rows, by the chosen column; the events whose last occurrence is before the cutoff,
\* that of the time the range was chosen, are left out.
SortValue(x) ==
    CASE search.sort = "first_seen" -> x.first [] search.sort = "hit_count" -> x.hits [] OTHER -> x.last

Listing ==
    StableSort(
        Where(Found, LAMBDA x : /\ In(env, x)
                                /\ \A field \in Fields : Passes(x, field)
                                /\ x.last >= cutoff
                                /\ ChipPasses(x)),
        LAMBDA x, y : IF search.dir = "asc" THEN SortValue(x) < SortValue(y)
                                            ELSE SortValue(x) > SortValue(y))

Visible == {x.id : x \in ToSet(Listing)}

\* activeFilterCount, which brings up the Reset buttons.  (Mutated form: it forgets the
\* servers.)
ActiveFiltersButServers ==
    Cardinality(UNION {{<<f, v>> : v \in search[f]} : f \in Fields \ {"server"}})
        + IF search.chip = "" THEN 0 ELSE 1

ActiveFilters ==
    Cardinality(UNION {{<<f, v>> : v \in search[f]} : f \in Fields}) + IF search.chip = "" THEN 0 ELSE 1

AllSelected == Visible # {} /\ Visible \subseteq selected
-----------------------------------------------------------------------------
(* Applications and deployments.                                           *)

\* computeAppHealth()
AppHealth(events) ==
    LET active(severity) == Len(Where(events, LAMBDA x : x.status = "active" /\ x.severity = severity))
    IN  IF active("critical") >= 1 \/ active("error") >= 5 THEN "at_risk"
        ELSE IF active("error") >= 1 THEN "degraded" ELSE "healthy"

EventsOf(app) == Where(Found, LAMBDA x : x.app = app)

\* A card of the applications page.
Card(a) ==
    LET all == EventsOf(a.id)
        mine == Where(all, LAMBDA x : x.status = "active")
        servers == {m \in Machines : m.app = a.id}
        bucket(i) == Total(all, LAMBDA x : IF x.id \in DOMAIN series THEN series[x.id].buckets[i] ELSE 0)
    IN  [app |-> a, health |-> AppHealth(all), active |-> Len(mine),
         hits |-> Total(mine, LAMBDA x : x.hits),
         servers |-> Cardinality(servers),
         offline |-> Cardinality({m \in servers : m.status # "active"}),
         rising |-> IsIncreasing(<<bucket(1), bucket(2)>>),
         worst |-> Take(StableSort(mine, LAMBDA x, y : \/ Rank(x) < Rank(y)
                                                       \/ Rank(x) = Rank(y) /\ x.last > y.last), 1)]

\* The cards are of the environment that is chosen on the page, if one is; their order
\* is left out.
Cards == {Card(a) : a \in AppsIn(IF cards = "all" THEN env ELSE cards)}

\* computeDeltas(): a deployment against the one before it of its application.
Introduced(d) == Where(Found, LAMBDA x : x.introduced = d.id)

Delta(d) ==
    LET earlier == {e \in Releases : e.app = d.app /\ e.started < d.started}
        prev == {e \in earlier : \A f \in earlier : f.started <= e.started}
        before == IF prev = {} THEN <<>> ELSE Introduced(CHOOSE e \in prev : TRUE)
        hits(events) == Total(events, LAMBDA x : x.hits)
        resolved == Len(Where(before, LAMBDA x : x.status = "resolved"))
        change == hits(Introduced(d)) - hits(before)
    IN  [deployment |-> d, new |-> Len(Introduced(d)), resolved |-> resolved, change |-> change,
         badge |-> IF Introduced(d) # <<>> /\ change >= 0 THEN "regression"
                   ELSE IF resolved > Len(Introduced(d)) \/ 10 * change < -Max({100, hits(before)})
                        THEN "improved" ELSE "stable"]

DeploymentRows == {Delta(d) : d \in {d \in Releases : In(env, d)}}

\* ApplicationDetailPage: its view, or none when the data has no such application.
ApplicationViews ==
    {[app |-> a, events |-> EventsOf(a.id), health |-> AppHealth(EventsOf(a.id)),
      new |-> Len(Where(EventsOf(a.id), LAMBDA x : x.first >= now - 60 * Hours[range])),
      rows |-> Take(StableSort(Where(EventsOf(a.id), LAMBDA x : x.status = "active"),
                               LAMBDA x, y : x.last > y.last), 25),
      servers |-> {m \in Machines : m.app = a.id},
      deltas |-> {Delta(d) : d \in {d \in Releases : d.app = a.id}}] : a \in {a \in Apps : a.id = target}}

\* DeploymentDetailPage: the deployment against the one before, its servers, and the
\* events it introduced.  The servers are those of its application, if it has that.
DeploymentViews ==
    {[delta |-> Delta(d), servers |-> {m \in Machines : \E a \in Apps : a.id = d.app /\ m.app = a.id},
      introduced |-> ToSet(Introduced(d)), clean |-> Introduced(d) = <<>>] :
        d \in {d \in Releases : d.id = target}}
-----------------------------------------------------------------------------
(* Getting about.                                                          *)

\* The bounds on what the reader does: some things are the last that is done.
Does(what) ==
    /\ what \in habits /\ ops < MaxOps /\ ops' = ops + 1
    /\ UNCHANGED <<collector, quiet, now, habits>>

DoesLast(what) ==
    /\ what \in habits /\ ops < MaxOps /\ ops' = MaxOps
    /\ UNCHANGED <<collector, quiet, now, habits>>

Queries(p) ==
    CASE p = "event" -> {} [] p \in WithSeries -> {"data", "series"} [] OTHER -> {"data"}

CutoffAt(p, r) == IF p # "events" \/ r = "custom" THEN 0 ELSE now - 60 * Hours[r]

\* A page mounts: its queries start, and its own state is fresh.  Bound: what they held
\* at an earlier visit, which is kept for five minutes, is gone.
Mounted(p, id, filters) ==
    /\ page' = p /\ target' = id
    /\ data' = NoData /\ series' = <<>> /\ pending' = Queries(p)
    /\ search' = filters /\ selected' = {}
    /\ cards' = "all"
    /\ cutoff' = CutoffAt(p, range)

Visits(p, id, filters) ==
    /\ Mounted(p, id, filters)
    /\ Asks({DataKey})

\* The navigation of the shell, and the links between the pages.
Go(p) ==
    /\ Does("go") /\ page \notin {p, "event"}
    /\ Visits(p, "", Unfiltered)
    /\ UNCHANGED <<env, range, eventPage>>

BackToEvents ==
    /\ LeaveEvent
    /\ Visits("events", "", Unfiltered)
    /\ UNCHANGED <<collector, quiet, now, habits, env, range, ops>>

OpenTarget(p, id) ==
    /\ Does("follow")
    /\ Visits(p, id, Unfiltered)
    /\ UNCHANGED <<env, range, eventPage>>

\* "View all" and the application links set a filter of the events page.
ViewEvents(filters) ==
    /\ Does("follow")
    /\ Visits("events", "", filters)
    /\ UNCHANGED <<env, range, eventPage>>

Follows ==
    \/ /\ page = "dashboard" /\ ~Loading
       /\ \/ ViewEvents([Unfiltered EXCEPT !.chip = "new"])
          \/ ViewEvents([Unfiltered EXCEPT !.sort = "hit_count"])
          \/ \E a \in AppsIn(env) : ViewEvents([Unfiltered EXCEPT !.app = {a.id}])
    \/ page = "applications" /\ \E c \in Cards : OpenTarget("application", c.app.id)
    \/ page = "deployments" /\ \E r \in DeploymentRows : OpenTarget("deployment", r.deployment.id)
    \/ /\ page = "application"
       /\ \E v \in ApplicationViews :
             \/ ViewEvents([Unfiltered EXCEPT !.app = {v.app.id}])
             \/ \E d \in v.deltas : OpenTarget("deployment", d.deployment.id)
    \/ /\ page = "deployment"
       /\ \E v \in DeploymentViews : \E a \in Apps :
             a.id = v.delta.deployment.app /\ ViewEvents([Unfiltered EXCEPT !.app = {a.id}])

\* The events of the page, and those of a URL that was kept.
Linked ==
    CASE page = "dashboard"   -> ToSet(TopEvents) \cup ToSet(NewAndIncreasing)
      [] page = "events"      -> ToSet(Listing)
      [] page = "application" -> UNION {ToSet(v.rows) : v \in ApplicationViews}
      [] page = "deployment"  -> UNION {v.introduced : v \in DeploymentViews}
      [] OTHER                -> {}

ReadEvent ==
    /\ DoesLast("read")
    /\ \E x \in Linked :
          \/ OpenEvent(x.id, None, None)
          \/ page = "events" /\ OpenEvent(x.id, 1, 3)
    /\ Mounted("event", "", Unfiltered)
    /\ UNCHANGED <<env, range>>

\* The selects of the header.  The series are those of the new environment and range;
\* the memoized cutoff moves with the range alone.
SetContext(e, r) ==
    /\ DoesLast("context")
    /\ <<e, r>> # <<env, range>> /\ (e = env \/ r = range)
    /\ env' = e /\ range' = r
    /\ cutoff' = IF r = range THEN cutoff ELSE CutoffAt(page, r)
    /\ series' = <<>>
    /\ pending' = pending \cup (Queries(page) \cap {"series"})
    /\ UNCHANGED <<page, target, search, selected, cards, data, requests, eventPage>>
-----------------------------------------------------------------------------
(* The reader, on the page of events and on that of applications.          *)

Narrow(filters) ==
    /\ page = "events"
    /\ search' = filters
    /\ UNCHANGED <<page, target, env, range, cutoff, selected, cards, data, series, pending, requests, eventPage>>

\* FilterCheck, toggleCsv()
ToggleFilter ==
    \E field \in Fields : \E v \in Offered(field) :
        DoesLast("filter") /\ Narrow([search EXCEPT ![field] = IF v \in @ THEN @ \ {v} ELSE @ \cup {v}])

SetChip == \E c \in {"new", "increasing", "unresolved"} :
               Does("filter") /\ Narrow([search EXCEPT !.chip = IF @ = c THEN "" ELSE c])

\* SortHeader: the column on view turns round, another one starts at the largest.
SortBy ==
    \E f \in {"last_seen", "first_seen", "hit_count"} :
        DoesLast("filter") /\ Narrow([search EXCEPT !.sort = f,
                                         !.dir = IF search.sort = f /\ @ = "desc" THEN "asc" ELSE "desc"])

ResetFilters ==
    /\ ActiveFilters > 0 \/ Listing = <<>>
    /\ Narrow(Unfiltered) /\ UNCHANGED <<collector, quiet, now, habits, ops>>

Select(ids) ==
    /\ page = "events" /\ Does("select")
    /\ selected' = ids
    /\ UNCHANGED <<page, target, env, range, cutoff, search, cards, data, series, pending, requests, eventPage>>

ToggleAll == Select(IF AllSelected THEN {} ELSE Visible)
ToggleOne == \E x \in Visible : Select(IF x \in selected THEN selected \ {x} ELSE selected \cup {x})

\* The bulk actions: each of them only clears the selection.
BulkAction == selected # {} /\ Select({})

SetCards ==
    /\ page = "applications" /\ DoesLast("cards")
    /\ cards' \in (Environments \cup {"all"}) \ {cards}
    /\ UNCHANGED <<page, target, env, range, cutoff, search, selected, data, series, pending, requests, eventPage>>
-----------------------------------------------------------------------------
(* The queries.                                                            *)

\* fetchAll() throws when a table cannot be read, and the page keeps what it had; the
\* pages of applications and deployments take a table that failed for an empty one.
Throws == page \in {"dashboard", "events"}

DataAnswered ==
    /\ "data" \in pending
    /\ \E read \in SUBSET TablesOf[page] :
          IF Throws /\ read # TablesOf[page] THEN UNCHANGED data
          ELSE \E of \in [read -> Readable(asked[DataKey])] : data' = Answer(read, of)
    /\ pending' = pending \ {"data"}
    /\ Settles(DataKey)
    /\ UNCHANGED <<collector, quiet, now, habits, eventPage, page, target, env, range, cutoff, search, selected,
                   cards, series, ops>>

\* The collector is asked for the series itself; the request may be one that an earlier
\* visit left under way.
SeriesAnswered ==
    /\ "series" \in pending
    /\ pending' = pending \ {"series"}
    /\ \/ \E n \in DOMAIN states :
             series' = EventSeries(states[n], env, IF page = "applications" THEN 24 ELSE Hours[range], now)
       \/ UNCHANGED series
    /\ UNCHANGED <<collector, quiet, now, habits, requests, eventPage, page, target, env, range, cutoff, search,
                   selected, cards, data, ops>>

\* use-live-updates: the cache is emptied and every query is invalidated.
LiveMessage ==
    /\ ~quiet /\ quiet' = TRUE
    /\ IF page = "event"
       THEN /\ RefetchEvent
            /\ UNCHANGED <<event, occ, frame, known, snaps, listed, overtaken, detail, expanded, opened, pending>>
       ELSE /\ pending' = Queries(page)
            /\ Refreshed({DataKey}, IF data.ok THEN {DataKey} ELSE {})
            /\ UNCHANGED eventPage
    /\ UNCHANGED <<collector, now, habits, page, target, env, range, cutoff, search, selected, cards, data, series,
                   ops>>

\* The module's cache, and requests that fail and are tried again.
Underneath ==
    /\ "cache" \in habits /\ gone = 0  \* bound: not once rows have gone
    /\ Fill \/ Lapse \/ ((page = "event" \/ Throws) /\ Retry)
    /\ UNCHANGED <<collector, quiet, now, habits, eventPage, pageState>>

\* The collector, and time.
Outside ==
    /\ \/ (Arrive \/ ("gone" \in habits /\ Expire)) /\ UNCHANGED now
       \/ /\ "clock" \in habits
          /\ pending = {}  \* bound: the clock stands still while a query runs
          /\ \E t \in Later : t > now /\ now' = t
          /\ UNCHANGED <<collector, quiet>>
    /\ UNCHANGED <<habits, requests, eventPage, pageState>>

\* The steps of EventDetail.
OnEvent ==
    /\ page = "event"
    /\ \/ EventAnswered \/ SnapshotsAnswered
       \/ \E k \in DOMAIN FramesOf : DetailAnswered(k)
       \/ StepNewer \/ StepOlder \/ ResetFrame
       \/ "look" \in habits /\ (SelectFrame \/ ToggleGroup \/ ToggleVariable)
    /\ UNCHANGED <<collector, quiet, now, habits, pageState>>

Init ==
    /\ EventInit
    /\ now = Min(Later) /\ env = "production" /\ range = "24h"
    /\ \E first \in FirstPages : page = first[1] /\ target = first[2] /\ habits = first[3]
    /\ cutoff = CutoffAt(page, "24h") /\ search = Unfiltered /\ selected = {}
    /\ cards = "all"
    /\ data = NoData /\ series = <<>> /\ pending = Queries(page) /\ ops = 0
    /\ asked = [k \in Cached |-> IF k = DataKey THEN Request(Nothing) ELSE Nothing]

Next ==
    \/ \E p \in {"dashboard", "events", "applications", "deployments"} : Go(p)
    \/ Follows \/ ReadEvent \/ BackToEvents
    \/ \E e \in Environments, r \in Ranges : SetContext(e, r)
    \/ ToggleFilter \/ SetChip \/ SortBy \/ ResetFilters
    \/ ToggleAll \/ ToggleOne \/ BulkAction \/ SetCards
    \/ DataAnswered \/ SeriesAnswered \/ LiveMessage \/ Underneath \/ Outside \/ OnEvent

\* An effect runs after the render that calls for it.
Spec == Init /\ [][Next]_vars /\ WF_vars(ResetFrame /\ OnEvent)
-----------------------------------------------------------------------------
(* Properties                                                              *)

TypeOK ==
    /\ page \in Pages \cup {"event"} /\ (page = "event" <=> event # "")
    /\ env \in Environments /\ range \in Ranges
    /\ page # "events" => selected = {} /\ search = Unfiltered
    /\ pending \subseteq Queries(page)
    /\ "data" \in pending <=> asked[DataKey] # Nothing

\* Whatever the agents call their environments, no event is in two of those of the
\* header's select, where it would be counted twice, and each is in one, where it can be
\* found: unless the applications could not be read, or were read without a row that
\* the events were read with (in an older state, or a newer one that has lost it).
EachEventInOneEnvironment ==
    \A x \in ToSet(Found) :
        LET of == {e \in Environments : In(e, x)}
        IN  Cardinality(of) <= 1 /\ (data.whole => of # {})

\* The list leaves no event of the environment and of the time range out unless the
\* page offers to reset its filters.  (The state keeps its types on the way.)
NothingHiddenSilently ==
    /\ TypeOK
    /\ (page = "events" /\ ActiveFilters = 0) =>
         Visible = {x.id : x \in {x \in ToSet(Found) : In(env, x) /\ x.last >= cutoff}}

\* The cards of the dashboard agree: the reliability score stays on its scale and falls
\* short of 100 exactly when a regression is listed (one of 120 events or more is rounded
\* away), every regression is listed while there is room, and the lights of the applications account for every event counted.
ScoreIsOfRegressions ==
    page = "dashboard" =>
        LET view == Dashboard
        IN  /\ view.score \in 0..100
            /\ view.events < 120 => (view.score = 100 <=> view.regressions = <<>>)
            /\ Len(view.regressions) = Min({8, Cardinality(ToSet(NewEvents) \cup ToSet(Increasing))})
            /\ view.events = SumFunction([a \in AppsIn(env) |-> view.apps[a].count])
=============================================================================
