------------------------------ MODULE LiveCache ------------------------------
(***************************************************************************)
(* How a screen of the dashboard gets the list of exceptions and keeps it  *)
(* up to date: the paged reads behind a module-level cache                 *)
(* (integrations/collector/client.ts), the debounced refresh on live       *)
(* messages (lib/use-live-updates.tsx), and the reset of all data from the *)
(* settings page.  LiveSocket has the life of the socket itself.           *)
(*                                                                         *)
(* The browser runs one event handler at a time; an action is one of them. *)
(* A request is read by the collector and its answer handled by the client *)
(* in separate steps, so that anything may happen in between.  react-query *)
(* is external: it is modelled as far as this code depends on it.  Of the  *)
(* collector there is its table (storage.py), the rows it broadcasts and   *)
(* GET /exceptions, which reads a page and the size of the table in two    *)
(* statements.  A row is its number in the order in which rows are stored, *)
(* which is that of the ids (SQLite begins them again after a reset).      *)
(***************************************************************************)
EXTENDS Naturals, FiniteSets, SequencesExt

CONSTANTS
    Calls,      \* fetchAllExceptions() calls under way at a time
    PageLimit,  \* limit
    Cap,        \* cap
    FirstIds,   \* rows stored before the dashboard is opened
    MaxId       \* bound: rows ever stored

ASSUME LiveAssumption ==
    /\ {PageLimit, Cap, MaxId} \subseteq Nat \ {0}
    /\ FirstIds \in 0 .. MaxId

VARIABLES
    stored,     \* the rows in the collector's table
    lastId,     \* the last row stored
    inbox,      \* rows broadcast on the live socket, not yet received
    debounce,   \* debounceTimer is running
    excCache,   \* _excCache
    call,       \* per call of fetchAllExceptions(): its progress and locals
    screen,     \* the react-query observer of the screen on view
    wipe,       \* AdminTab's reset mutation
    due         \* history: rows announced to a screen that has its first data

cacheVars == <<stored, lastId, inbox, debounce, excCache, call, screen, wipe, due>>
table == <<stored, lastId>>
live == <<inbox, debounce>>

\* A cache that has expired is as good as none.
NoCache == [fresh |-> FALSE, rows |-> <<>>]

\* head and torn are history: the last row stored when the first page was read, and
\* whether since then all data was deleted, or by some later page more rows were
\* stored than the call had received.
IdleCall == [at |-> "idle", out |-> <<>>, page |-> <<>>, total |-> 0, head |-> 0, torn |-> FALSE]

CacheInit ==
    /\ stored = 1 .. FirstIds /\ lastId = FirstIds
    /\ inbox = {} /\ debounce = FALSE
    /\ excCache = NoCache
    /\ call = [c \in Calls |-> IdleCall]
    /\ screen = [on |-> FALSE, loaded |-> FALSE, failed |-> FALSE, call |-> "none", rows |-> <<>>]
    /\ wipe = "idle"
    /\ due = {}
-----------------------------------------------------------------------------
(* The collector's table.                                                  *)

\* list_exceptions() has the newest row first: the place of a row is the number of
\* rows that are not older than it.
Rank(id) == Cardinality({other \in stored : other >= id})

Listing == [place \in 1 .. Cardinality(stored) |-> CHOOSE id \in stored : Rank(id) = place]

\* A row is stored and broadcast on the live socket.
Insert ==
    /\ lastId < MaxId
    /\ lastId' = lastId + 1
    /\ stored' = stored \cup {lastId'}
    /\ inbox' = inbox \cup {lastId'}
    /\ UNCHANGED <<debounce, excCache, call, screen, wipe, due>>

\* purge_old_records() deletes a row and all that are older.
Purge ==
    /\ \E old \in stored : stored' = {id \in stored : id > old}
    /\ UNCHANGED <<lastId, live, excCache, call, screen, wipe, due>>
-----------------------------------------------------------------------------
(* fetchAllExceptions()                                                    *)

\* The TTL of the cache runs out.
Expire ==
    /\ excCache.fresh
    /\ excCache' = NoCache
    /\ UNCHANGED <<table, live, call, screen, wipe, due>>

\* Where the next page begins: the rows received so far.  (Mutated form: one row
\* further, as for a list that counts from one.)
OffsetFromOne(out) == IF out = <<>> THEN 0 ELSE Len(out) + 1

Offset(out) == Len(out)

\* The collector reads a page ...
PageRead(c) ==
    LET offset == Offset(call[c].out)
        head   == IF call[c].out = <<>> THEN lastId ELSE call[c].head
    IN  /\ call[c].at = "asked"
        /\ call' = [call EXCEPT ![c] =
                      [@ EXCEPT !.at = "listed",
                         !.page = SubSeq(Listing, offset + 1, Min({offset + PageLimit, Len(Listing)})),
                         !.head = head,
                         !.torn = call[c].torn \/ lastId > head + offset]]
        /\ UNCHANGED <<table, live, excCache, screen, wipe, due>>

\* ... and the size of the table.
TotalRead(c) ==
    /\ call[c].at = "listed"
    /\ call' = [call EXCEPT ![c] = [@ EXCEPT !.at = "read", !.total = Cardinality(stored)]]
    /\ UNCHANGED <<table, live, excCache, screen, wipe, due>>

\* The break of the paging loop.
LastPage(page, out, total) ==
    \/ Len(page) < PageLimit
    \/ Len(out) >= Cap
    \/ Len(out) >= total

\* What the loop appends a page to.  (Mutated form: it is put in front.)
Prepended(out, page) == page \o out

Appended(out, page) == out \o page

\* The screen's query settles with a result.
Settled(rows) == [screen EXCEPT !.loaded = TRUE, !.failed = FALSE, !.call = "none", !.rows = rows]

\* A page has arrived and there is another: ask for it.
NextPage(c) ==
    LET out == Appended(call[c].out, call[c].page) IN
      /\ call[c].at = "read"
      /\ ~LastPage(call[c].page, out, call[c].total)
      /\ call' = [call EXCEPT ![c] =
                    [@ EXCEPT !.at = "asked", !.out = out, !.page = <<>>, !.total = 0]]
      /\ UNCHANGED <<table, live, excCache, screen, wipe, due>>

\* The last page has arrived: fill the cache and return.  The cache is overwritten
\* whatever has happened to it since the call began.
Complete(c) ==
    LET out == Appended(call[c].out, call[c].page) IN
      /\ call[c].at = "read"
      /\ LastPage(call[c].page, out, call[c].total)
      /\ excCache' = [fresh |-> TRUE, rows |-> out]
      /\ call' = [call EXCEPT ![c] = IdleCall]
      /\ screen' = IF screen.call = c THEN Settled(out) ELSE screen
      /\ UNCHANGED <<table, live, wipe, due>>

\* A request fails, and so do react-query's retries: the cache keeps its value.
CallFails(c) ==
    /\ call[c].at = "asked"
    /\ call' = [call EXCEPT ![c] = IdleCall]
    /\ screen' = IF screen.call = c THEN [screen EXCEPT !.failed = TRUE, !.call = "none"]
                 ELSE screen
    /\ UNCHANGED <<table, live, excCache, wipe, due>>
-----------------------------------------------------------------------------
(* The screen's query (react-query, with its default options).             *)

FreeCall ==
    LET idle == {c \in Calls : call[c].at = "idle"}
    IN  CHOOSE c \in Calls : idle # {} => c \in idle

\* The query function runs: a fresh cache answers at once, and otherwise the call
\* asks for the first page.
Fetch(cache) ==
    IF cache.fresh
    THEN screen' = [Settled(cache.rows) EXCEPT !.on = TRUE] /\ UNCHANGED call
    ELSE LET c == FreeCall IN
            /\ call[c].at = "idle"
            /\ call' = [call EXCEPT ![c] = [IdleCall EXCEPT !.at = "asked"]]
            /\ screen' = [screen EXCEPT !.on = TRUE, !.call = c]

\* A screen opens; what it has is stale at once, so it fetches, unless the same
\* query is already fetching.
OpenScreen ==
    /\ ~screen.on
    /\ IF screen.call = "none" THEN Fetch(excCache)
       ELSE screen' = [screen EXCEPT !.on = TRUE] /\ UNCHANGED call
    /\ UNCHANGED <<table, live, excCache, wipe, due>>

\* A screen closes; its fetch goes on, and its data stays for its next visit.
LeaveScreen ==
    /\ screen.on
    /\ screen' = [screen EXCEPT !.on = FALSE]
    /\ due' = {}
    /\ UNCHANGED <<table, live, excCache, call, wipe>>

\* qc.invalidateQueries(): the query of an open screen is fetched again.  A fetch
\* under way is abandoned, not stopped, and only when the screen has data already:
\* the first load is left to finish.
Refetch(cache) ==
    IF screen.on /\ (screen.loaded \/ screen.call = "none") THEN Fetch(cache)
    ELSE UNCHANGED <<call, screen>>

\* invalidateCache(), then qc.invalidateQueries().  (Mutated form: the cache is
\* dropped after the queries have been told.)
RefreshThenDrop == excCache' = NoCache /\ Refetch(excCache)

Refresh == excCache' = NoCache /\ Refetch(NoCache)
-----------------------------------------------------------------------------
(* useLiveUpdates()                                                        *)

\* scheduleRefresh() on a message of a kind that matters.
Receive ==
    /\ \E id \in inbox :
          /\ inbox' = inbox \ {id}
          /\ due' = IF screen.on /\ screen.loaded THEN due \cup {id} ELSE due
    /\ debounce' = TRUE
    /\ UNCHANGED <<table, excCache, call, screen, wipe>>

\* The debounce timer fires.
TimerFires ==
    /\ debounce
    /\ debounce' = FALSE
    /\ Refresh
    /\ UNCHANGED <<table, inbox, wipe, due>>

\* The socket is lost, with everything broadcast until it is open again.  Neither
\* onclose nor the next open() refreshes anything.
SocketLost ==
    /\ inbox # {}
    /\ inbox' = {}
    /\ UNCHANGED <<table, debounce, excCache, call, screen, wipe, due>>
-----------------------------------------------------------------------------
(* AdminTab: resetAllData(), then drop what the dashboard holds.           *)

\* The collector deletes the rows (a request that fails changes nothing) ...
Wipe ==
    /\ wipe = "idle"
    /\ wipe' = "done"
    /\ stored' = {}
    /\ call' = [c \in Calls |-> IF call[c].at = "idle" THEN call[c]
                                ELSE [call[c] EXCEPT !.torn = TRUE]]
    /\ UNCHANGED <<lastId, live, excCache, screen, due>>

\* ... and the mutation's onSuccess invalidates everything.
WipeAnswered ==
    /\ wipe = "done"
    /\ wipe' = "idle"
    /\ Refresh
    /\ UNCHANGED <<table, live, due>>
-----------------------------------------------------------------------------
Progress(c) == PageRead(c) \/ TotalRead(c) \/ NextPage(c) \/ Complete(c)

CallStep(c) == Progress(c) \/ CallFails(c)

CacheNext ==
    \/ Insert \/ Purge \/ Expire
    \/ \E c \in Calls : CallStep(c)
    \/ OpenScreen \/ LeaveScreen
    \/ Receive \/ TimerFires \/ SocketLost
    \/ Wipe \/ WipeAnswered

\* Requests are answered or fail, and the timer fires.  Nothing is assumed of the
\* user, of the collector's traffic, or of the connection.
CacheFairness ==
    /\ \A c \in Calls : WF_cacheVars(Progress(c))
    /\ WF_cacheVars(TimerFires)

CacheSpec == CacheInit /\ [][CacheNext]_cacheVars /\ CacheFairness
-----------------------------------------------------------------------------
(* Properties                                                              *)

\* Paging through a table that grows at its head and shrinks at its tail skips
\* nothing: whatever was stored when the first page was read, and still is, is in the
\* result, unless the cap cut it.
NothingSkipped ==
    [][\A c \in Calls : Complete(c) =>
          \/ Len(excCache'.rows) >= Cap
          \/ {id \in stored : id <= call[c].head} \subseteq ToSet(excCache'.rows)]_cacheVars

\* deriveEvents() takes the first row of a group for its latest occurrence, and it is:
\* a row that comes after an older one has been read before.  That the rows are in
\* descending order, as its comment has it, is not so: when rows are stored between two
\* pages, the second begins with rows of the first.  Two things break the property
\* itself, a reset of all data between two pages, and more rows stored since the first
\* page than have been read.
NewestFirst ==
    [][\A c \in Calls : Complete(c) /\ ~call[c].torn =>
          LET rows == excCache'.rows IN
            \A i, j \in DOMAIN rows :
               i < j /\ rows[i] < rows[j] => \E k \in 1 .. i : rows[k] = rows[j]]_cacheVars

\* A row announced to a screen that has its first data is on that screen
\* eventually, even if an older read is under way and fills the cache late;
\* unless the row is gone, the read fails or is cut at the cap, or the screen is
\* left.
AnnouncedIsShown ==
    \A id \in FirstIds + 1 .. MaxId :
        id \in due ~> \/ id \in ToSet(screen.rows) \/ id \notin stored
                      \/ screen.failed \/ ~screen.on \/ Len(screen.rows) >= Cap
=============================================================================
