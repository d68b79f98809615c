# jvmScout: TLA+ models, checks and proofs

jvmScout watches exceptions in running JVMs.  A native agent (C++, JVMTI)
captures each throw inside the application's own threads, samples it, and ships
it in batches to a collector (Python, FastAPI), which stores it, announces it on
a WebSocket and raises alerts.  A dashboard (TypeScript, React) derives its pages
from the collector's raw rows and edits the configuration.  This directory holds
TLA+ models of the parts of that system whose correctness depends on the order in
which things happen or on how derived data hangs together, the TLC configurations
that check them, and proofs that TLAPS checks.

## Inventory

### The agent, inside the application's JVM

| Part | State it keeps | Operations | Who calls them |
|---|---|---|---|
| Exception callback (`exception_handler.cpp`) | per-thread reentrance flag; locals | one capture per throw | every application thread, at every throw |
| VM lifecycle (`agent_main.cpp`) | `started`, the context | load or attach, `vm_init`, `vm_death`, unload | the JVM |
| Sampler (`sampling.cpp`) | per stripe: LRU list, map of windows and counters | `decide` | the callback |
| Count aggregator (`count_aggregator.cpp`) | pending summary per fingerprint, overflow counter, last flush | `record`, `drain` | the callback, `vm_death` |
| Source cache (`source_cache.cpp`) | class bytes, set of shipped classes | `store`, `take_unshipped` | class-load hook, the callback |
| Event queue (`async_queue.cpp`) | deque, `running_`, `dropped_`, drain deadline, one worker thread | `start`, `enqueue`, `stop`, the worker's loop | all of the above |
| Transports (`platform/`) | a connection handle | `send`: ok, retryable or permanent | the queue's worker |
| Method cache, metrics cache | read-mostly maps, a timestamped snapshot | `lookup`, `collect_jvm_metrics_cached` | the callback |
| Bytecode instrumentation (`bci_*.cpp`, `bci-classfile/`) | a shadow stack per thread | enter, record a store, exit; read at a throw | instrumented methods, the callback |

### The collector, one asyncio event loop over a database

| Part | State it keeps | Operations |
|---|---|---|
| Token authentication (`security.py`) | token rows; cached active set with its age | authenticate, mint, edit, revoke, delete, reset |
| Rate limiter (`security.py`) | per key a deque of times | `allow`, prune |
| Ingest (`api/routes.py`, `storage.py`) | exception, instance and source-class rows | store a batch, register, upsert bytecode |
| Alert engine (`alerts.py`) | bounded queue, worker, rule cache, `last_triggered_at` on the rule's row | schedule, evaluate, deliver, record |
| Live fan-out (`ConnectionManager`) | connected clients | connect, broadcast, disconnect |
| Redaction (`redaction.py`) | cached compiled rules | redact |
| Retention (`storage.py`) | all rows | purge, delete everything |

### The dashboard, one event loop in a browser tab (`frontend/src`)

| Part | State it keeps | Operations |
|---|---|---|
| Data client (`integrations/collector/client.ts`) | module-level cache of all exceptions with its age, the API key in localStorage | paged fetch, invalidate, derive events, occurrences, applications, deployments and servers |
| Query builder (`integrations/collector/adapter.ts`) | none | filter, order, `single`; insert, update, delete, upsert on configuration tables |
| Live updates (`lib/use-live-updates.tsx`) | per mount: closed, socket, reconnect and debounce timers | open, refresh (debounced), clean up |
| Session (`lib/auth.tsx`, `routes/login.tsx`, `routes/_authenticated.tsx`) | user, ready, the form | boot probe, login, logout, guard |
| Shell and context (`components/AppShell.tsx`, `lib/app-context.tsx`) | environment, time range | navigate, set |
| Reading pages (`routes/_authenticated/`: dashboard, events, applications, deployments) | a query each, URL filters, ticked events | filter, sort, select, follow links |
| Event page (`events.$id.tsx`) | three queries; occurrence and frame in the URL; open groups, unfolded values | step, select, fold |
| Settings and alert rules pages (`settings.tsx`, `alerts.tsx`) | the configuration queries, forms, dialogs, timers | mint and revoke tokens, connect integrations, edit redaction, team and rules, delete all data |

### How they interact, and what is hard about it

* *Shared memory.*  Any number of throwing threads meet in the sampler, the
  aggregator, the source cache and the queue.  Each object has its own lock, so
  each is consistent, but a throw passes through several and another thread, or
  the VM's death, can come between any two.
* *One worker, one `stop()`.*  The queue's worker reads `running_` several times
  per iteration while `stop()` may flip it at any moment; retries, backoff, the
  requeue of a failed batch and the drain deadline all depend on what it read.
* *Awaits.*  In the collector and in the browser a task runs undisturbed until it
  awaits.  Caches are filled across an await, a configuration row is read, modified
  and written back across two, a login is checked after its key was stored.
* *Messages between processes.*  A POST may fail, be rejected, or be answered
  too late.  The agent retries; the collector does not recognise a duplicate.  A
  mutation of the dashboard may be committed and its answer lost.
* *Announcements.*  A WebSocket message makes a page fetch everything again while
  other fetches are under way, the reader is stepping through a list by position,
  and rows come and go between two pages of one read.
* *Time.*  Windows, cool-downs, TTLs, a drain budget; clocks read outside the
  lock under which the reading is used; zero used as "never".

What makes the parts correct: no captured event disappears without being
counted and none is sent in the wrong order; the host JVM's exit is never held
up; a throw is counted exactly once whichever tier it is sampled at; a
throw site's cost is bounded; a revoked token stops working and a valid one is
never refused beyond the cache's TTL; a new exception class is announced once;
a rate-based alert does not storm and a disabled one is quiet; what is announced
gets on the screen; nobody is signed in with an unchecked key; a settings page
shows what is stored and a form sends back what it was not asked to change; no
event is in two environments or hidden unannounced, and none that was read with its
application falls between them; the panes of an event page are of one occurrence.

`PROJECT.json` lists every part under `components` with what is modelled of it,
and under `hazards` the places in the code these properties are about.

## Modules

| Module | Models | Level |
|---|---|---|
| `DeliveryLedger` | what the event queue promises: events leave in order from the front, by delivery or write-off; refusal only when full | abstract specification |
| `AsyncQueue` | `async_queue.cpp`, one action per step of the worker between two points where another thread can be noticed | implementation of the ledger |
| `AsyncQueueAttempts` | `AsyncQueue` with a count of POSTs after `stop()`, and fairness | extension for liveness |
| `WorkerClock` | the same worker on a clock, with the condition variable's lost notifications | timed view |
| `Capture`, `MCCapture` | the callback on several threads, lifecycle, aggregator, source cache, over the ledger | composition |
| `Sampler`, `MCSampler` | one stripe of the sampler | component |
| `TokenAuth` | token cache, token rows, admin requests | component |
| `AlertEngine` | ingest of batches, evaluation queue, worker, rule cache, edits of the rule | composition |
| `LiveCache` | paged reads, the module's cache, the screen's query and the debounced refresh, against a table that grows and shrinks | composition |
| `LiveSocket` | the life of the socket of `useLiveUpdates`, per mount | component |
| `AuthSession` | session, login page, guard and shell, over `LiveSocket` | composition |
| `ConfigStore` | configuration tables, react-query's copies, mutations under way | component |
| `SettingsTabs`, `AlertRules`, `MCAlertRules` | the pages that change the configuration, over `ConfigStore` | composition |
| `Derive` | the derivations of `client.ts`, and the collector's series | operators on sequences of rows |
| `EventDetail` | the page of one event and its three queries | component, over `Derive` |
| `Browse`, `MCBrowse` | the other reading pages, navigation, the header's context, over `EventDetail` | composition |
| `AsyncQueueProofs`, `DeliveryLedgerProofs`, `CaptureProofs`, `AlertEngineProofs` | theorems about the module each is named after | proofs |
| `TimedProofs` | theorems about `TokenAuth`, `WorkerClock` and `Sampler`, which promise something within a time | proofs |
| `DashboardProofs` | theorems about `AuthSession` with `LiveSocket`, about `LiveCache`, and about `AlertRules` with `SettingsTabs` and `ConfigStore` | proofs |
| `BrowseProofs` | theorems about `Browse`, and so about `EventDetail` and `Derive` | proofs |
| `FiniteFacts` | smallest counterexamples, recursion on a number, sums over finite sets; used by `CaptureProofs` and `BrowseProofs` | lemmas |

### AsyncQueue

`queue`, `running`, `dropped` are the class's fields; `pc`, `batch`, `stopping`
and `attempt` are the locals of `run()` and `send_with_retry()`; `offered`,
`delivered`, `lost` and the like are history.  Events are numbered in the order
in which `enqueue()` takes the lock.  `Enqueue` and `Stop` are the calls of other
threads; `CollectBatch`, `CollectNothing`, `CheckDeadline`, the `Send...`
actions, `DecideRetry`, `EndBackoff`, `GiveUp` and `LoopEnd` are the worker's
steps, split exactly where the code reads `running_` again, because that is
where `stop()` can change the outcome.  The drain deadline is `budget`
(unset, open or spent), which may be spent at any time after `stop()`.  A batch is
a sequence of events; its JSON is not modelled.

`WorkerClock` keeps only the number of queued events and adds what the first
model abstracts away: how long a POST, a backoff and a wait last, and the moments
between testing the predicate, blocking on the condition variable and being
notified.  It answers "how late", the first model "what is lost".

### Capture

The queue appears as the ledger it is proved to implement, `content` says what
each offered event is.  Each thread's callback is a small program counter with
its locals: decide, record or capture, ship source, enqueue, drain, flush.  The
sampler's verdict is any tier (its rule is `Sampler`'s business) except that
the first hit of a site is FULL.  Filters and the reentrance guard turn a throw
away without a trace, so only throws that pass appear.  Lifecycle: load, enable,
register, disable, forced drain, stop, join.  `CaptureFails` is the callback's
catch-all handler, at any point where it has something in hand.  The sampler's
capacity is taken to be large enough, so totals per site only grow.  A stack has one
class to ship, or none, where the code goes through all its app frames
(`exception_handler.cpp:328`).

### Sampler

One stripe, since stripes share nothing.  `decide()` is two actions because it
reads the clock before taking the lock.  `MaxDelay <= Resample` is an assumption
about the environment: no thread waits 300 seconds for a lock held for
microseconds.  Without it a very late decision could be FULL once more.

### TokenAuth and AlertEngine

An action is what a task does between two awaits, or the database's own read or
commit during one.  A configuration document is abstracted to what the
properties tell apart: whether a token is revoked; whether a rule is enabled and
when it last fired.  An edit of any other field writes those back as it read
them, which is what `update_config()` does.  In `AlertEngine` there is one rule in
scope for every event, of one of two triggers; it is edited, not deleted.
Delivery and the recording of it may fail.

### LiveCache

The browser runs one handler at a time, so an action is one handler; a request is
read by the collector (`PageRead`) and answered (`NextPage`, `Complete`) in separate
steps; `list_exceptions()` reads the page and the total in two statements
(`PageRead`, `TotalRead`), so the table may change between them.  A row is its
number in the order in which rows are stored, and `Listing` has the newest first:
the place of a row is its rank, the number of stored rows that are not older.  The
rows of one batch become visible one at a time, in the order of their ids, which is
what a single writer (SQLite) guarantees; on PostgreSQL two batches may commit in the
other order.  `excCache` is the module's cache
(`_excCache` with its age abstracted to fresh or not, `Expire` being its TTL),
`screen` the react-query observer of the page on view.  `Insert` broadcasts,
`Purge` (retention: a row and all that are older) does not; the reset of all data drops the table.
`TimerFires` invalidates cache and queries in the order of the code.  React-query
is modelled as far as the code depends on it: an invalidation starts a new fetch
and abandons, without stopping, the one under way, unless that is the first load.

### LiveSocket and AuthSession

Each mount of `useLiveUpdates` has a record of its own with the variables of the
effect's closure; the callbacks and timers of one that was cleaned up can run
beside those of the next.  `AuthSession` mounts and unmounts it in `Render`, as the
guard shows and hides the shell.  `key` is the localStorage entry, shared with
another tab (`OtherTab`); `probe` and `sent` are the keys that verifications under
way were sent with.  What the collector accepts is fixed at the start; an
answer is yes, no or an error.  `crossed` records that a key was changed behind a
session, a boot probe or another attempt: then the code promises little (see
below), and the properties say so.  A localStorage that refuses the key, which the
code swallows (`client.ts:23-38`), is left out.

### ConfigStore, SettingsTabs, AlertRules

`ConfigStore` has the collector's tables (`rows`), react-query's copy of each (`seen`,
`loaded`, `failed`) and the requests.  A mutation is sent, committed, answered; a fetch
(`fetch`) is asked for, read by the collector, answered.  Each step can go wrong, and any
others can come between two of them: a fetch that has read before a mutation commits is
`overtaken`.  What becomes of it is react-query's rule.  An invalidation gives up a fetch
of a query with data for a new one, but leaves a first load alone; one of a query off view
only marks it; and a page that mounts joins the fetch that is under way instead of starting
another.  `missed` records the tables with a commit that nothing makes the query read.
`SettingsTabs` and `AlertRules` have what each tab keeps (`ui`), lost when it is
left, and what it shows of the rows.  A text field is usable or not.  The two counts of
the admin tab are derived from the monitoring data, through the cache that `LiveCache`
models, and left out.  A `Connect` waits 400 ms before it acts: the model lets the timeout
go by the query's data of that time, the code by the last render of the tab, which is the
same until the tab is left.
`AlertRules` keeps the conversions between row and form (`FromRow`, `Payload`)
field by field, because what a save blanks is the point of one property.  `Trim` is
`String.trim()` on the names of events that are entered: a save stores the trimmed name
and describes the condition with the one that was entered, as `alerts.tsx` does.
`Spread` is how the collector applies a patch, key by key over the stored document;
`Send` uses it to fill in a request.

### Derive, EventDetail, Browse

`Derive` translates the derivations of `client.ts` into operators on sequences of
rows, and the collector's `event_series`.  A row keeps its fingerprint, application,
instance, environment, class of exception, hit count and time (one, for both its
`timestamp` and its `received_at`).  `Where` is the
`filter()` and `StableSort` the `sort()` of JavaScript arrays; sums are `Total`.  They are
written out, by a recursive function and by counting positions, because the operators of
the library that do the same (`SelectSeq`, `SortSeq`, the folds of sequences) are
recursive operators or unknown to the provers.

`EventDetail` is the event page: `occ` and `frame` are the URL's parameters, `snaps`
and `detail` the data of its queries, `fetching` and `errors` their state; what is on
view (`Screen`, `Frames`, `Trace`, `VariablesShown`) is worked out from them as the
page renders.

A request for a derived table is read by the collector somewhere between its start and
its answer, or not at all, when the module's cache of exception rows serves it.  So that
this costs one step and not three, `states` keeps every state the collector was in, and a
request (`asked`) is the oldest one it may still be answered with: the one it started in,
or the one that the cache had rows of.  Its answer is any of these or later ones
(`Readable`).  A request under way may fill the cache with what it has read (`Fill`), and
it does so too when its page was left or an invalidation gave it up: `strays` has the
oldest state that such a one may have read.  `late` says that a live message came since
the request was made.  The abstraction errs on the side of more behaviours: of strays
neither the query nor the end is kept, so one may fill the cache or be joined for ever; a
request that the cache serves may also be answered with newer rows; series and details may
be answered with any state at all, as their requests may date from an earlier visit.  On
the other side, a row number names one row for ever (SQLite gives numbers again after
a reset, and a cached detail may then briefly be the old row's), and a frame's index is
its place in the list, where the code takes `frameIndex ?? i` (`client.ts:409`).

`Browse` adds the other pages.  `data` is the answer of the page's query and `series` that
of its series query.  The tables of a page (`TablesOf`) are requested at once: each is
derived from a state of its own, and each may fail.  Dashboard and events page
then keep what they had (`Throws`), the others take the table for an empty one.
`Listing`, `Dashboard`, `Cards`, `DeploymentRows`
and the views of the detail pages are what the pages show.  Following a link needs
the link to be there, so the reader moves along what is shown.

`BulkAction` only clears the selection, as the code does: the buttons that resolve
and hide events change nothing at the collector.

## What the runs check

Passing runs:

| Run | Shows | Bounds |
|---|---|---|
| `AsyncQueueAttempts_live` | nothing forgotten, duplicated or reordered; losses are counted; `stop()` drains and returns even if every answer is a retryable failure; no event is posted more than twice after it; an outage loses nothing while there is room; the queue implements the ledger; if the collector recovers, events offered before it are settled | 5 events, queue of 3, batches of 2, one retry |
| `WorkerClock_bounds` | `stop()` ends within the budget plus one POST, lost notifications included; a full batch is collected without waiting out the interval | 3 retries as in the code, a POST longer than the budget |
| `MCCapture_counts` | every sampled throw is in exactly one place | 1 thread, 2 sites, aggregator with 1 entry, 4 throws |
| `MCCapture_death` | the same with 2 threads and a failing callback; one upload per class; a quiet death loses nothing uncounted | 1 site, 3 throws, queue of 1 |
| `MCSampler` | list and map agree through evictions; FULL captures per window bounded although threads decide with times out of order | 2 threads, 3 sites with room for 2, 5 hits each, time to 5 |
| `TokenAuth_bounds` | an answer is at most the TTL behind the database, in both directions; deleted stays deleted | 1 token, 2 admin requests, 2 authentications, time to 5 |
| `AlertEngine_rules` | a new class is announced at most once; cool-down kept unless overwritten; a disabled rule is quiet | 2 ingests with batches of 2, queue of 1, 1 editor, 3 rows, time to 5 |
| `LiveCache_screen` | paging over a moving table skips nothing and starts every group with its newest row; what is announced gets on the screen | pages of 1, cap of 4, 2 calls at once, 3 rows and 1 to come |
| `AuthSession_login` | signed in only with the stored and accepted key; signing out lasts; one socket, with the user's key, and never none for good; a submitted form is answered | 1 key and none, 2 logins, 1 reload, 2 mounts of the shell |
| `Settings_pages` | a page at rest shows what is stored, unless a fetch failed or a mutation was missed; one row per integration, unless Connect was clicked on rows in doubt; data is deleted no more often than DELETE was typed, but for one more after an answer that was lost; an untouched save changes nothing but the condition, described anew | 2 mutations at once; 3 mutations or visits; 2 edits of the form, before the first of them; an event name with blanks around it |
| `Browse_pages` | no event is in two environments, and one that was read with its application is in one; nothing hidden unannounced; the dashboard's numbers agree; the panes of an event are of one occurrence, the newest unless another was chosen or the list came late; a missing frame leaves the URL | 3 applications, one not announced, one in an environment the dashboard does not know; 2 events, 1 occurrence to come; 2 things the reader does, 2 ranges and 2 times on the pages; the cache in use and rows that go once around the event page |

The bounds are small but each makes its interesting case happen: a queue that
is full when a batch is put back (queue 3, batch 2), a batch that begins before
and ends after `stop()`, an aggregator with no room, more sites than the stripe
holds, two admin requests on one row, a cool-down shorter than the run, a row that
arrives or is purged between two pages, an abandoned fetch that ends last, a second
mount of the socket while the first is closing, a mutation answered on another tab or
overtaking a fetch, tables of a page read on two sides of an arrival, an occurrence that arrives under a chosen position, a row without a fingerprint.
For the safety properties the proofs remove these bounds: they hold for every number of
threads, requests, rows, mounts and steps, and every size of queue, batch, page and cap.

Bounds of `Browse_pages` that are not numbers: `habits` says what a behaviour is about,
since the questions are apart.  In some the reader moves among the pages and time passes;
in the others an event is opened from the list and looked at, over the module's cache,
and rows go (the cache is not used any more once they have).  Some things
(`DoesLast`: a filter, a sort, the header's selects, opening an event) are the last
that is done, apart from resetting the filters, what the event page itself offers,
and going back from it.
What a query held at an earlier visit, which react-query keeps for five minutes,
is taken to be gone.  The clock stands still while the query of a page is under way.

`CHECK_DEADLOCK FALSE` is set everywhere because every model may really come to
rest: the worker exits and no thread throws any more, or the bounded clock, the
bounded number of events or what the user may do is used up.

One run finds a comment of the repository contradicted by the code (the line is
quoted under `findings`): `TokenAuth_lost`, in which an overlapping edit of the same
row loses a revocation.

### Disagreements seen while modelling, without a run

* A batch that is rejected for good while stopping is counted (`async_queue.cpp:141`)
  and then dropped together with the queue, which counts it again: `dropped()` exceeds
  the number of events lost (`async_queue.h:58`).  `LossesCounted` is therefore
  "at least".
* `count_aggregator.cpp:33` says "Keep the freshest snapshot"; the code keeps the one
  that arrives last, and two threads may arrive in the other order.
* `alerts.py:238` calls a fingerprint new on its first row, but `alerts.py:124`
  evaluates after the whole batch is stored: a class whose first batch has two rows
  is never announced.
* `storage.py:135` says that the collector's `production` mirrors the dashboard's
  default.  The dashboard calls every unknown name production, the collector only
  untagged rows and `production` itself: the events of an environment `qa` are on
  the production pages, and in no series that they add up.
* `deriveEvents` adds up `hit_count` over rows (`client.ts:264`), although the agent's
  number is a running total per site.  The collector's series add up `occurrences`
  (`storage.py:428`), which is what a row stands for: the two totals differ.
* `settings.tsx`: Cancel in the dialog that deletes all data keeps the typed
  `DELETE`, Escape clears it.  A success clears it too, but an answer that is lost after
  the collector deleted everything leaves the word, and one more click deletes again what
  has come in since.
* `alerts.tsx:407` stores the event name of a rule trimmed, `alerts.tsx:424` describes its
  condition with the name as it was entered.  A rule saved with blanks around the name has
  a condition with blanks, which changes when it is opened and saved untouched.
* `settings.tsx:376` inserts an integration when the rows it has hold none.  If the answer
  to the insert is lost, nothing fetches the rows again, and the next Connect inserts a
  second one; so does a Connect after a first load that failed.
* A mutation answered during a first load that had read before it is not shown until the
  next fetch: react-query leaves a first load to finish.  The same first load makes an
  event page miss an occurrence whose message it received.
* `client.ts:252` says that rows arrive in descending order.  A row stored between two
  pages moves the listing down, and the second page begins with the last row of the first:
  the list holds it twice, and `deriveEvents` adds its `hit_count` twice.  What the
  comment is there for, that the first row of a group is its newest, holds
  (`NewestFirst`).
* `deployments.$id.tsx` and the chip "new" of the events page go by
  `introduced_by_deployment_id`, which `deriveEvents` always leaves empty: every
  release reads as clean.

### Where the properties say less than the comments

Several properties are stated in the form the code satisfies, which is weaker
than the comment beside it.  The difference is worth knowing:

* `DrainComplete` speaks of events offered before `stop()`.  `enqueue()` also
  accepts later ones (it never reads `running_`), and those may be left in the
  queue, neither sent nor counted.
* `AtMostTwoPostsAfterStop`: `async_queue.h:33` promises one attempt per batch
  while stopping; a retry loop begun before `stop()` adds one.
* `StopBounded` is the budget plus one POST, where `async_queue.h:31` says
  "hard ceiling": the deadline is compared only before a POST begins.  The bound
  holds although `stop()`'s notification can be missed by a worker about to sleep.
* `QuietDeathLosesNothing` needs a VM that dies with no callback under way.  One
  that has passed the `started` check may record its count after the forced drain.
* `FullBudget` is per window, and the window tumbles; `sampling.h:18` calls it
  sliding.  A span across the end of a window can hold two budgets.
* `AnswersBounded` bounds by the TTL what `routes.py:406` and
  `routes.py:469` call immediate: a cache fill under way during a reset
  overwrites the emptied cache with the rows it read before.  In addition, while
  `time.monotonic()` is at most the TTL an emptied cache (`_at = 0.0`) counts as
  fresh.  The bound still holds then, because nothing is older than the TTL yet;
  `AnswersAreBounded` proves it for every time the clock may start at.
* `CooldownUnlessOverwritten` and `DisabledIsQuiet` allow for an edit of a rule and
  the engine's record of a delivery overwriting each other, since both write the
  whole document back.
* `AnnouncedIsShown` is of rows whose message is received by a screen that has
  data.  Rows broadcast while the socket is down are not announced again; neither
  `onclose` nor the next `open()` refreshes anything.
* `NewestFirst` excepts a reset of all data between two pages of one read, and rows
  stored faster than they are read: `torn` is set when a page is read after more rows
  have been stored since the first page than the call has received.  A page can then
  consist of new rows, which come after older ones.
* `SignedInAsAccepted`, `LogoutSticks` and `SocketKeyIsUsers` except what is done
  behind a session, a probe or another attempt (`crossed`): a login that is refused
  removes the stored key under the session that was there, a late probe signs in with
  a key stored since.
* `RestShowsStored` excepts a query whose last fetch failed and a table with a mutation
  that was `missed`: its answer was lost, or came while a fetch that had read before
  it was under way that nothing restarts, a first load or one off view.
* `OneRowPerIntegration` excepts a Connect on rows that are in doubt, since the choice
  between update and insert is made on the last fetch: another connect waits for its
  timeout or is under way (`crossed`), the rows are being fetched (`early`), or the last
  fetch failed or a mutation was missed (`blind`).  Each of the three is needed: without
  it TLC finds two rows.
* `WipesAreTyped` counts what the collector deleted, answered or not, and allows one more
  for each deletion whose answer was lost to the dialog that waited for it (see above).
* `UntouchedSaveChangesNothing` allows the condition to be described anew, of the name as
  it is stored.
* `EachEventInOneEnvironment` says that an event is in no environment only if the
  applications could not be read, or were read without a row that the events were read
  with: the tables of a page are requested independently.
* `ShowsNewest` excepts a list that came `overtaken`: with a first load that a live message
  had overtaken, or from a cache that such a request had filled.
* `ScoreIsOfRegressions` relates the score to the list of regressions for fewer than
  120 events; beyond that the penalty of one can be rounded away.

Each property of a passing run also has a mutated form of the code, defined
beside the definition it mutates, under which TLC finds the property violated.

### Fairness

* `AttemptsSpec` assumes weak fairness of the worker (its thread is scheduled, a POST
  ends within the transport's timeout, a timed wait ends) and of the deadline being
  reached; nothing is assumed about the threads that enqueue or call `stop()`.
  `EarlyEventsSettle` has a hypothesis of its own, `CollectorRecovers`: a batch that is
  posted again and again is at last answered with something other than a retryable
  failure.  That is an assumption about the collector, so it is part of the property
  and not of the specification.
* `LiveCache`: a call goes on (its pages are read, answered and asked for) unless a
  request of it fails, and the debounce timer fires.
* `AuthSession`: requests are answered or fail, React runs its effects, a socket that
  closes has closed and reconnect timers fire.  Nothing is assumed of the user.
* `Browse`: React runs the effect that drops a missing frame.

The other specifications state safety only.

## What is proved

TLAPS checks every theorem below for all values of the constants that the named
assumptions allow; `PROJECT.json` lists them under `theorems` with the property
each one states.

**The event queue** (`ConstantsAssumption`: room for at least one event, batches of at
least one, any number of retries and of events).

* `RefinesLedger`: `AsyncQueue` implements `DeliveryLedger`.
* `LedgerConserves`: in the ledger every offered event is in exactly one of
  pending, delivered and lost, and the pending ones are in order.
* `ForgetsNothing`, `DrainIsComplete`, `CountsLosses`: safety invariants that the run
  `AsyncQueueAttempts_live` checks.
* `OutageIsHarmless`: before `stop()`, an event is thrown away only on a permanent
  rejection or because the queue is full.
* `PostsAreFew` (`AsyncQueueAttempts`): once `stop()` has cleared `running_`, an event
  is handed to a POST at most twice.
* `QueueStaysBounded` and `TypeCorrect`: theorems that no run repeats.

The invariants are not inductive by themselves: `NothingForgotten` at a requeue
depends on the batch holding events older than all the queued ones, and the bound on
the deque depends on the batch's size while it is out.  `Shape`, in
`AsyncQueueProofs`, relates the worker's program counter to its locals (when a batch
is empty, what the attempt counter can be, what follows from `stopping`).
`TypeAndShape` proves it inductive together with `TypeOK`.  The ledger's pending
sequence is mapped to the batch followed by the queue, and each step of the queue is
shown to be a ledger step or a stutter (`StepRefines`); a batch's fate, and the
overflow of a requeue, are cuts of that sequence at some point, which the lemmas on
sequences (`SplitAt`, `CutFront`, `FrontAndRest`) describe.  Conservation is then
proved once, of the ledger, and carried back through the refinement;
`DrainIsComplete` and `CountsLosses` are further inductive steps on top.
`PostsAreFew` counts the second chances: a batch whose retry loop `stop()` wakes from
its backoff may be posted once more and put back, and the iteration after that has read
`running_` as false, so that it never puts back again.

**The clock of the queue's worker** (`ClockAssumption`: batches of at least one; the
longest backoff and the flush interval are no longer than the drain budget).

* `StopIsBounded`: `stop()` returns within the drain budget and one HTTP timeout.
* `FullBatchIsNoticed`: the worker does not sleep on a full batch.

The bound is on a sum over the whole drain.  `Used` says how much of it each place of
the worker may already have used: a sleep that `stop()` finds under way ends within the
budget, a POST begins within it, and nothing after the last POST takes time.

**The capture pipeline** (`CaptureAssumption`: finitely many threads, bounds that are
numbers, a class or none for every throw site).

* `ThrowsAreConserved`: every throw the sampler has counted is in exactly one place.
* `UploadsAreUnique`: no class is uploaded twice.
* `QuietDeathIsClean`: after a VM death that no callback overlaps, every throw is
  acknowledged, counted as dropped or as overflow, or lost to an exception in a callback.
* `FeedsLedger`: seen from the queue, the pipeline does nothing but what the ledger
  allows; the three above use it to know where every offered event is.

The counts are sums over threads and over the events of the queue.  They are folds, about
which the library has no theorem, so the first part of `CaptureProofs` proves what is
needed: an element can be taken out of a sum, put in, or changed.  Each is an induction
over the subsets of a finite set, done with a smallest counterexample.  The invariant then
has four parts.  `Balance` is the equation itself; a step that moves a count shows that
both sides change alike.  `Marked` says that a class some callback is shipping or has
shipped is marked in the source cache, and no two callbacks have the same one.  `Phases` says what
each phase of the VM's life leaves behind: after the forced drain of a quiet death the
aggregator is empty and no callback holds anything, and after the join nothing waits.

**The sampler** (`SamplerAssumption`: a window, and the longest wait for the lock, are no
longer than the interval between resamples; the clock runs; `SamplerSpec` is its specification).

* `BudgetHolds`: a site gives at most its budget of full captures per window, and one
  for the resample.

The clock is read before the lock is taken, so stamps arrive out of order.  `Stamps`
bounds the disorder: the first hit of a window stamps its start, and later ones are at
most the longest wait older.  So a resample is not stamped before the window it happens
in, and the next one belongs to a later window.

* `ListMatchesMap`: the recency list of a stripe is the set of its tracked sites, each
  once, and no longer than the capacity.

Every change of the list takes one element out and puts one in front that was not in it
(`TakeOut`, `PushFront`), which is why an eviction removes from the map exactly the site
that it takes off the list.

**The token cache** (`TokenAssumption`: the TTL and the clock's start and bound are
numbers).

* `AnswersAreBounded`: an answer is at most the TTL behind the rows.
* `DeletionIsFinal`: no overlapping edit brings a deleted row back.

An answer is as good as what it was taken from, and several loads and resets may
finish in any order.  `AsOf(known, t)` says that `known` is wrong only about tokens
that changed at `t` or later.  It holds of the cache with the time it is stamped with,
and of the rows an authentication has read with the time it asked for them; since the
stamp is the time of asking and not of filling, a load that finishes late cannot make
the cache look younger than it is.

**The alert rule** (`AlertAssumption`: bounds are numbers, the cool-down positive,
"none" is not a fingerprint).

* `DisabledStaysQuiet`: a disabled rule is delivered only by an evaluation that began
  at most the TTL after it was disabled.
* `AnnouncedOnce`: a fingerprint is announced as new by at most one evaluation.
* `CooldownIsKept`: two deliveries are a cool-down apart, as long as each could be
  recorded and no overlapping edit overwrote the record.

`Recent` bounds, at every point of an evaluation, how far the row can have moved since
the rule was read: not at all but for changes after the time of asking while it is
being loaded, and the TTL later once it came from the cache.  `Recorded` says that the
row, the cache and the rule under evaluation all know the time of the last delivery,
except between a delivery and the commit of its record, when only the worker does;
there is one worker, so nothing is evaluated meanwhile.  `Once` is the invariant of
`AnnouncedOnce`: while a fingerprint has a single row there is a single event of it
anywhere between the insert and the end of its evaluation, and once it has been
announced none is left on the way that could find the count at one.

**The session and its socket** (`AuthAssumption`: "none" is not a key).

* `OnlyAccepted`, `SignedOutStays`, `SocketsOfUser`, `NeverTwoSockets`,
  `SocketComesBack`: the five safety properties of `AuthSession_login`.

They are proved by one invariant, because they lean on each other.  `Checked` says that
at most one check of a key is under way and that it is the stored one, which is why the
user who is let in is the stored key's.  `Hooks` says that exactly the shell on view has
a live hook and that a hook that was cleaned up has nothing left that could open a
socket.  With both, the socket that is open was opened with the key of the user on
view.

**The list of exceptions** (`LiveAssumption`: a page size and a cap that are positive,
and a table that is finite at the start; `CacheSpec` is its specification).

* `PagesSkipNothing`: a call returns everything that was stored when it began and still
  is, unless the cap cuts it.
* `GroupsStartNewest`: in what it returns, the first of several rows is the newest of
  them, but for the exceptions named above.

Rows are found by their rank.  Storing a row moves every older one down by one place and a
purge moves none, so a row that a call set out to read has been received or is still ahead
of its offset (`Covers`).  A short page, or a total that is no more than what was
received, says that nothing is ahead (`Totals`), although the total is counted later than
the page was read.  For the order, everything newer than a received row that was there
from the start was received before it (`Ahead`); a page can hold a row that is newer than
that only when more rows came than were read.

**The pages that change the configuration** (`StoreAssumption`: the tables are those of
`adapter.ts` that a page uses, a row is found by an id that was given once; `RulesAssumption`: the rules
there are at first have a value for their trigger and scope and none for the others, as
this page stores them, and there is at most one row for the integration; `PagesSpec` is the specification).

* `PagesRestShowsStored`: a page at rest shows what is stored, unless the last fetch failed
  or a mutation was missed.
* `PagesOneRowPerIntegration`: an integration has one row, unless a Connect was clicked on
  rows in doubt.
* `PagesWipesAreTyped`: DELETE was typed at least once for each reset that was committed,
  not counting again one whose answer was lost.
* `PagesUntouchedSave`: a rule that is saved untouched is stored as it was, but for its
  condition, described anew, for every idempotent `Trim`.

They hold for any number of mutations under way and of rows, so they are not about two
requests but about any overlap.  Each has a part of the invariant of its own.  `Fresh`:
what a fetch has read is what is stored unless it was overtaken, and then the mutation is
still to be answered or was missed; the data of a query on view is what is stored, or the
query is being fetched, or its last answer was an error, or a mutation of the table was
missed or is committed and not answered.  `OneCard`: while no Connect was clicked in
doubt, an insertion under way is the only one and finds no row, and while a
connect waits for its timeout nothing is under way and the page's data is the table; the
row that is inserted or patched keeps its type, so that the page finds it again.
`EachTyped`: the resets that were committed, one for each that was sent from a tab since
left (`Behind`) and one for the word in the field or a request that will use it up
(`Owed`) are together no more than the typings and the answers that were lost:
`Cancel`, which keeps the text, spends nothing.  `RulesKept`: what is stored, what is sent
and what the form holds read back as they were written.  It needs that a saved form is
complete (`CanSave`), since a scope without its application would come back as "all", and
that a stored name is trimmed already
(`RoundTrip`, and `StoredReads` for the rules there are at first).  A patch of one switch
changes nothing else (`SwitchKept`) and a payload replaces the whole of a rule
(`SpreadAll`), which is why an untouched save leaves everything but the condition.

**The pages that read** (`RowsAssumption`: rows are numbered from 1 and each has its
frames, the event of a row without a fingerprint has a name; `BrowseAssumption`: what the
instances report has its types, there is a time to begin with, and the pages that a URL
may open at first are pages).

* `BrowseInvariant`: the invariant `IInv` below, of which the others are consequences.
* `EventsHaveOneEnvironment`, `HidingIsOffered`, `CardsAgree`, `PanesAreOfOneOccurrence`,
  `SettledPageIsNewest`: the five safety invariants of `Browse_pages`, for
  every list of rows and of instances, whatever arrives and goes, every frame of every row,
  every state that a request may have read, every table that fails and every order of
  answers.

Most of the work is about data and not about steps: what `Derive` computes from
rows that nobody has bounded.  The first half of `BrowseProofs` states what each operator
returns.  `Where` keeps the elements that pass, each once.  `StableSort` by a number
returns what it was given, with a largest element first.  An event list names each event
once; an application is in one of the three environments and named once, so that no event
is in two; and every event has its application in a list that was derived from at least
the same rows.  The rows into which a stack
trace is folded, flattened, are its frames from the first to the last.  A series counts
numbers.  Such a fact is normally an induction over a list; here it follows a recursive
function to the smallest position at which the fact would fail (`SmallestNumber`,
`NatRecursion` of `FiniteFacts`), which needs no induction principle.

What then has to be carried from state to state is little.  `Reading` says that the answer
a page holds is `Sound` (events and applications named once, and if it is `whole`, each
event with its application) and its series `Counted`: `Sound` is kept because every table
of an answer is derived whole from one state, never patched.  With that
`CardsAgree` is arithmetic about `Dashboard` of any sound data: the penalty of new and of
rising events is rounded and clamped, the list of regressions is their union cut at eight,
and the events of the period are the sum of what each application counts (`SumOfParts`).
`PageTypes` says that a detail which the page holds is the one of its key; it is why the
frames on view are of the row that is looked up by position in the newest `snaps`, however the
position came to mean another row.  `Unfolded` says that what is unfolded was on view, and
so belongs to that row: a variable row's key contains occurrence and frame, and the panes
forget the rest when they leave the screen.  `Requested` says that a
request, a stray and the cache hold a state that the collector was in, and once every
change is announced the newest one unless they are `late`; `Fetched`, that a query is being
fetched exactly while it has a request.
`UpToDate` says that the list of occurrences
is the one derived from the collector's rows, unless a message, a fetch or an error is
outstanding or the list came late; `SettledPageIsNewest` is the head
of a list sorted by time.

## Only model-checked

Every safety property that a run checks is also proved.  TLC alone checks liveness
(`EarlyEventsSettle`, the termination of `stop()`, `AnnouncedIsShown`, the answer to a
submitted form, the missing frame that leaves the URL), which is outside what TLAPS
proves; and `TokenAuth_lost`, which is a counterexample.

## Not modelled, and why

* The stack walker and object inspector, formatting, serialisation, the filters and
  fingerprints, HTTP itself, the decompiler process, start-up, metrics: no state beyond a
  call, or input and output only.
* Schema migrations, generated types, the legacy Supabase schema, sample and test
  applications, the vendored components, theme and routing of the dashboard.
* The shadow stack of instrumented methods.  The interesting part would be its depth
  cap (`__JvmtiShadow.java:35`) against the frames that the walker asks for.
* The method cache and the metrics cache: a flush when full, and a snapshot under
  `try_lock`; each is read-mostly and nothing depends on its order with the rest.
* The rate limiter: a reference definition of "at most n in any minute" for the deque,
  and keys that are pruned (`security.py:243`) while others are counted.
* The live fan-out: clients that fail or hang during a broadcast (`routes.py:82`).
  `LiveCache` and `LiveSocket` take a message as received or not.
* Redaction: its rule cache (`routes.py:102`) has the shape of the token cache's; what a
  rule does is a regular expression.
* Retention at the collector (`storage.py:713`) against registrations and ingest.
  `LiveCache` has its deletion of rows as a reader of pages sees it.
* Registration of instances and uploads of source classes, which select and then insert;
  a POST whose answer is lost and that the agent repeats.  These two are listed under
  `hazards` without a property.
* Parts of modelled pages: free-text search, the order by name, charts, the order of
  cards, copy buttons, the JSON view, the history of alerts.

What would add most next: the queue composed with ingest under lost answers, so that
"at least once, in order" is stated from a throw to a stored row; the rate limiter; the
fan-out; retention against ingest; and one abstract specification of a cache of bounded
staleness that the token, rule and redaction caches all implement.
