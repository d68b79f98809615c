------------------------------ MODULE EventDetail ------------------------------
(***************************************************************************)
(* The page of one event (routes/_authenticated/events.$id.tsx): which of  *)
(* its occurrences is on view, the frame that is selected, and the panes   *)
(* with the frames, the variables and the source of that frame.            *)
(*                                                                         *)
(* The occurrence and the frame are in the URL; the occurrence is a        *)
(* position in a list, newest first, that a live message makes the page    *)
(* fetch again.  Three queries feed the page: the event, its occurrences,  *)
(* and the detail of the occurrence on view.  react-query and the router   *)
(* are external.                                                           *)
(*                                                                         *)
(* The first two read derived tables, through the module's cache of        *)
(* exception rows (integrations/collector/client.ts).  A request is read   *)
(* by the collector at some time between its start and its answer: it may  *)
(* be answered with any state the collector was in since its start, or     *)
(* since the one that the cache had then.  It may fill the cache with what *)
(* it has read, and goes on to do so when no query waits for it any more   *)
(* (a stray).  A row number is taken to name one row for ever (SQLite uses *)
(* them again after a reset), and a frame index to be the frame's place.   *)
(***************************************************************************)
EXTENDS Derive

CONSTANTS
    FirstRows,  \* the collector's rows at first
    Arrivals,   \* bound: rows that may still arrive, in this order
    MaxGone,    \* bound: times that rows go
    FramesOf    \* row id -> its frames: a sequence of [user, source, vars]

\* What a row may be.
Rows == [id : DOMAIN FramesOf, fp : STRING, app : STRING, inst : STRING, env : STRING,
         caught : BOOLEAN, error : BOOLEAN, hits : Nat, n : Nat, at : Nat]

\* Row numbers start at 1, and the event of a row without a fingerprint has a name.
ASSUME RowsAssumption ==
    /\ FirstRows \in Seq(Rows) /\ Arrivals \in Seq(Rows) /\ MaxGone \in Nat
    /\ \A id \in DOMAIN FramesOf :
          /\ id \in Nat \ {0} /\ EventId([id |-> id, fp |-> ""]) # ""
          /\ FramesOf[id] \in Seq({f \in ToSet(FramesOf[id]) : f.user \in BOOLEAN})

VARIABLES
    states,     \* external: the collector's rows, newest first: at first, and after each change
    arrived,    \* external: rows of Arrivals that have
    gone,       \* history: times that rows went
    quiet,      \* no row has come or gone since the last live message
    cache,      \* _excCache: the state it has the rows of
    asked,      \* per query that reads tables: the oldest state its request may be answered with
    strays,     \* the same of the requests that no query waits for, per late
    event,      \* the event the page is of ("": another page is on view)
    occ,        \* URL: the position of the occurrence, or None
    frame,      \* URL: the index of the frame, or None
    known,      \* the event query has data
    snaps,      \* data of the occurrences query, newest first
    listed,     \* the occurrences query has data
    overtaken,  \* history: snaps came late
    detail,     \* per key: the row whose detail the query holds (0: none)
    fetching,   \* keys of the queries being fetched
    errors,     \* keys of the queries whose last fetch failed
    expanded,   \* StackTracePane: groups of library frames that are open
    opened      \* VariableRowView: <<row, frame, variable>> that are unfolded

collector == <<states, arrived, gone>>
requests == <<cache, asked, strays>>
eventPage == <<event, occ, frame, known, snaps, listed, overtaken, detail, fetching, errors, expanded, opened>>

None == -1
EventKey == -2
SnapshotsKey == -3
DataKey == -4  \* of the query of another page (Browse)
Cached == {EventKey, SnapshotsKey, DataKey}

rows == states[Len(states)]
-----------------------------------------------------------------------------
(* What the page works out while it renders.                               *)

\* Math.min(Math.max(search.occ ?? 0, 0), Math.max(snapshots.length - 1, 0)), from 1.
OccIndex == IF occ = None \/ snaps = <<>> THEN 1 ELSE Min({occ + 1, Len(snaps)})

Current == IF snaps = <<>> THEN None ELSE snaps[OccIndex].id

\* The key of the detail query.  (Mutated form: the position, not the occurrence.)
PositionKey == IF snaps = <<>> THEN None ELSE OccIndex

DetailKey == Current

\* The row whose detail is on view (0: none), and its frames.
Shown == IF snaps = <<>> THEN 0 ELSE detail[DetailKey]
FramesShown == [id \in DOMAIN FramesOf \cup {0} |-> IF id = 0 THEN <<>> ELSE FramesOf[id]]
Frames == FramesShown[Shown]

\* Frame indexes are positions, from 1.
DefaultFrame ==
    [id \in DOMAIN FramesShown |->
        LET user == {i \in DOMAIN FramesShown[id] : FramesShown[id][i].user}
        IN  IF user # {} THEN Min(user) ELSE 1]

SelectedFrame ==
    CASE frame = None          -> DefaultFrame[Shown]
      [] frame \in DOMAIN Frames -> frame
      [] OTHER                 -> 1

HasData(k) == CASE k = EventKey -> known [] k = SnapshotsKey -> listed [] OTHER -> detail[k] # 0
IsLoading(k) == k # None /\ k \in fetching /\ ~HasData(k)

\* What the page is: a skeleton, an error, or the header with what is below it.
Screen ==
    IF event = "" THEN "elsewhere"
    ELSE IF IsLoading(EventKey) THEN "loading"
    ELSE IF EventKey \in errors \/ ~known THEN "couldn't load event"
    ELSE IF IsLoading(SnapshotsKey) THEN "loading occurrences"
    ELSE IF snaps = <<>> THEN "no snapshot data captured"
    ELSE "panes"

\* EventHeader: the buttons that step through the occurrences.
CanStepNewer == Screen = "panes" /\ OccIndex # 1
CanStepOlder == Screen = "panes" /\ OccIndex < Len(snaps)

\* StackTracePane: user frames stand alone, and so does a single library frame; more
\* of them in a row are one group.
TraceRows(fs) ==
    LET flush(acc) ==
            IF acc.buffer = <<>> THEN acc.out ELSE Append(acc.out, acc.buffer)
        after[n \in 0..Len(fs)] ==
            IF n = 0 THEN [out |-> <<>>, buffer |-> <<>>]
            ELSE IF fs[n].user THEN [out |-> Append(flush(after[n - 1]), <<n>>), buffer |-> <<>>]
            ELSE [after[n - 1] EXCEPT !.buffer = Append(@, n)]
    IN  flush(after[Len(fs)])

TraceOf == [id \in DOMAIN FramesShown |-> TraceRows(FramesShown[id])]
Trace == TraceOf[Shown]

\* The frames that can be clicked: those of a closed group cannot.
Clickable ==
    UNION {ToSet(group) : group \in
              {g \in ToSet(Trace) : Len(g) = 1 \/ g[1] \in expanded}}

\* SourcePane: the snippet with its failing line, or why there is none.
SourceShown ==
    IF IsLoading(DetailKey) THEN "loading"
    ELSE IF Frames = <<>> THEN "select a frame"
    ELSE IF Frames[SelectedFrame].source THEN "source" ELSE "no source available"

\* VariablesPane: the variables of the selected frame.
VariablesShown ==
    IF Screen = "panes" /\ Frames # <<>>
    THEN {Shown} \X {SelectedFrame} \X Frames[SelectedFrame].vars
    ELSE {}

\* State that lives in components which may have gone from the screen.
Remounted(groups, rowsOpen) ==
    /\ expanded' = IF Screen' = "panes" THEN groups ELSE {}
    /\ opened' = rowsOpen \cap VariablesShown'
-----------------------------------------------------------------------------
(* Requests for tables, and the cache.                                     *)

\* What a request or the cache has: a state (0: none).  late is history: a live message
\* has come since the request was made, or since that was which filled the cache.
Nothing == [state |-> 0, late |-> FALSE]

\* A request that is made now.
Request(cached) == IF cached = Nothing THEN [state |-> Len(states), late |-> FALSE] ELSE cached

\* The states a request may be answered with.
Readable(q) == q.state..Len(states)

\* The requests under way that are late, or those that are not, of the given queries and
\* of none: the oldest state they may have read.
Oldest(keys, lates) ==
    LET under == ({asked[k].state : k \in {k \in keys : asked[k].late \in lates}}
                      \cup {strays[late] : late \in lates}) \ {0}
    IN  IF under = {} THEN 0 ELSE Min(under)

\* Another page comes on view: the requests of this one go on without it, and each of
\* its own queries makes one, or joins one that it left under way on an earlier visit.
\* (Which query a stray was of, and whether it is still under way, is not kept.)
Asks(keys) ==
    /\ strays' = [late \in BOOLEAN |-> Oldest(Cached, {late})]
    /\ \E joined \in [keys -> {Request(cache)} \cup {[state |-> strays[late], late |-> late] :
                                      late \in {late \in BOOLEAN : strays[late] # 0}}] :
          asked' = [k \in Cached |-> IF k \in keys THEN joined[k] ELSE Nothing]
    /\ UNCHANGED cache

\* scheduleRefresh(): the cache is emptied and every query on view is fetched again.
\* react-query gives a request under way up if the query has data, and leaves it alone
\* if it has none.  (Mutated form: the cache is kept.)
RefreshedTo(keys, with, cached) ==
    /\ cache' = cached
    /\ asked' = [k \in Cached |->
                    IF k \in keys \ with /\ asked[k] # Nothing THEN [asked[k] EXCEPT !.late = TRUE]
                    ELSE IF k \in keys THEN Request(cached) ELSE Nothing]
    /\ strays' = [late \in BOOLEAN |-> IF late THEN Oldest(with, BOOLEAN) ELSE 0]

RefreshedKeepingCache(keys, with) == RefreshedTo(keys, with, cache)

Refreshed(keys, with) == RefreshedTo(keys, with, Nothing)

\* fetchAllExceptions() of a request under way fills the cache with what it has read.
Fill ==
    /\ \E late \in BOOLEAN :
          /\ Oldest(Cached, {late}) # 0
          /\ \E n \in Oldest(Cached, {late})..Len(states) : cache' = [state |-> n, late |-> late]
    /\ UNCHANGED <<asked, strays>>

\* A request fails and react-query tries again.
Retry ==
    /\ \E k \in Cached : asked[k] # Nothing /\ asked' = [asked EXCEPT ![k] = Request(cache)]
    /\ UNCHANGED <<cache, strays>>

\* TTL_MS
Lapse == cache # Nothing /\ cache' = Nothing /\ UNCHANGED <<asked, strays>>

\* The request of a query is answered or has failed.
Settles(k) ==
    /\ asked' = [asked EXCEPT ![k] = Nothing]
    /\ UNCHANGED <<cache, strays>>
-----------------------------------------------------------------------------
(* The queries.                                                            *)

\* Fetching starts; the error of a query without data is forgotten.
Restarted(errs, keys) == {k \in errs : k \notin keys \/ HasData(k)}

Start(keys) ==
    /\ fetching' = fetching \cup keys
    /\ errors' = Restarted(errors, keys)

\* The detail query follows its key.
Follow == IF DetailKey' \in {DetailKey, None} THEN {} ELSE {DetailKey'}

\* A link to an event, or a URL that was kept.
OpenEvent(id, o, f) ==
    /\ event = ""
    /\ event' = id /\ occ' = o /\ frame' = f
    /\ fetching' = {EventKey, SnapshotsKey}
    /\ Asks({EventKey, SnapshotsKey})
    /\ UNCHANGED <<known, snaps, listed, overtaken, detail, errors, expanded, opened>>

\* Leaving the page.  Bound: what its queries hold, which is kept for five minutes, is
\* gone at the next visit.
LeaveEvent ==
    /\ event # ""
    /\ event' = "" /\ occ' = None /\ frame' = None
    /\ known' = FALSE /\ listed' = FALSE /\ overtaken' = FALSE /\ snaps' = <<>>
    /\ detail' = [k \in DOMAIN detail |-> 0]
    /\ fetching' = {} /\ errors' = {} /\ expanded' = {} /\ opened' = {}

\* useEvent: single() is an error when the table has no row of the event.
EventAnswered ==
    /\ EventKey \in fetching
    /\ \/ /\ \E n \in Readable(asked[EventKey]) : \E i \in DOMAIN states[n] : EventId(states[n][i]) = event
          /\ known' = TRUE /\ errors' = errors \ {EventKey}
       \/ known' = known /\ errors' = errors \cup {EventKey}
    /\ fetching' = fetching \ {EventKey}
    /\ Settles(EventKey)
    /\ UNCHANGED <<event, occ, frame, snaps, listed, overtaken, detail>>
    /\ Remounted(expanded, opened)

\* useSnapshots: the occurrences, newest first.
SnapshotsAnswered ==
    /\ SnapshotsKey \in fetching
    /\ UNCHANGED <<event, occ, frame, known, detail>>
    /\ \/ /\ \E n \in Readable(asked[SnapshotsKey]) : snaps' = Snapshots(states[n], event)
          /\ listed' = TRUE /\ overtaken' = asked[SnapshotsKey].late
          /\ errors' = Restarted(errors \ {SnapshotsKey}, Follow)
       \/ /\ UNCHANGED <<snaps, listed, overtaken>>
          /\ errors' = errors \cup {SnapshotsKey}
    /\ fetching' = (fetching \ {SnapshotsKey}) \cup Follow
    /\ Settles(SnapshotsKey)
    /\ Remounted(expanded, opened)

\* useSnapshotDetail: the frames, the variables and the log lines of one occurrence, of
\* which the collector is asked: in any of the states it has been in, as the request may
\* be one that an earlier visit left under way.
DetailAnswered(k) ==
    /\ k \in fetching
    /\ \/ /\ \E n \in DOMAIN states : \E i \in DOMAIN states[n] : states[n][i].id = k
          /\ detail' = [detail EXCEPT ![k] = k] /\ errors' = errors \ {k}
       \/ UNCHANGED detail /\ errors' = errors \cup {k}
    /\ fetching' = fetching \ {k}
    /\ UNCHANGED <<event, occ, frame, known, snaps, listed, overtaken, requests>>
    /\ Remounted(expanded, opened)

\* A live message: every query on view is fetched again.
RefetchEvent ==
    /\ Start({EventKey, SnapshotsKey} \cup IF DetailKey = None THEN {} ELSE {DetailKey})
    /\ Refreshed({EventKey, SnapshotsKey}, {k \in {EventKey, SnapshotsKey} : HasData(k)})
-----------------------------------------------------------------------------
(* The reader.                                                             *)

\* setOcc(): the other occurrence, and its own default frame.
Step(to) ==
    /\ occ' = to /\ frame' = None
    /\ UNCHANGED <<event, known, snaps, listed, overtaken, detail, requests>>
    /\ fetching' = fetching \cup Follow /\ errors' = Restarted(errors, Follow)
    /\ Remounted(expanded, opened)

StepNewer == CanStepNewer /\ Step(OccIndex - 2)
StepOlder == CanStepOlder /\ Step(OccIndex)

\* setFrame()
ShowFrame(f) ==
    /\ frame' = f
    /\ UNCHANGED <<event, occ, known, snaps, listed, overtaken, detail, fetching, errors, requests>>
    /\ Remounted(expanded, opened)

SelectFrame == Screen = "panes" /\ \E f \in Clickable : ShowFrame(f)

\* The useEffect that drops a frame which is not there.  (Mutated form: only on an
\* occurrence that was chosen.)
BadFrame == Frames # <<>> /\ frame # None /\ frame \notin DOMAIN Frames

ResetFrameOfChosen == BadFrame /\ occ # None /\ ShowFrame(None)

ResetFrame == BadFrame /\ ShowFrame(None)

\* A group of library frames opens or closes; it is known by its first frame.
ToggleGroup ==
    /\ UNCHANGED <<event, occ, frame, known, snaps, listed, overtaken, detail, fetching, errors, requests>>
    /\ Screen = "panes"
    /\ \E g \in ToSet(Trace) :
          /\ Len(g) > 1
          /\ LET key == g[1] IN
                Remounted(IF key \in expanded THEN expanded \ {key} ELSE expanded \cup {key}, opened)

\* A long value or an object unfolds.
ToggleVariable ==
    /\ UNCHANGED <<event, occ, frame, known, snaps, listed, overtaken, detail, fetching, errors, requests>>
    /\ \E v \in VariablesShown :
          Remounted(expanded, IF v \in opened THEN opened \ {v} ELSE opened \cup {v})
-----------------------------------------------------------------------------
(* The collector and the live message.                                     *)

Arrive ==
    /\ arrived < Len(Arrivals)
    /\ arrived' = arrived + 1
    /\ states' = Append(states, <<Arrivals[arrived + 1]>> \o rows)
    /\ quiet' = FALSE
    /\ UNCHANGED gone

\* Retention drops the oldest row, or a reset drops them all; nothing announces it.
Expire ==
    /\ rows # <<>> /\ gone < MaxGone
    /\ gone' = gone + 1
    /\ \E left \in {<<>>, SubSeq(rows, 1, Len(rows) - 1)} : states' = Append(states, left)
    /\ quiet' = FALSE
    /\ UNCHANGED arrived

EventInit ==
    /\ states = <<FirstRows>> /\ arrived = 0 /\ gone = 0 /\ quiet = TRUE
    /\ event = "" /\ occ = None /\ frame = None
    /\ known = FALSE /\ listed = FALSE /\ overtaken = FALSE /\ snaps = <<>>
    /\ cache = Nothing /\ strays = [late \in BOOLEAN |-> 0]
    /\ detail = [k \in DOMAIN FramesOf |-> 0]
    /\ fetching = {} /\ errors = {} /\ expanded = {} /\ opened = {}
-----------------------------------------------------------------------------
(* Properties of the page                                                  *)

EventTypeOK ==
    /\ occ >= None /\ frame >= None
    /\ fetching \cup errors \subseteq {EventKey, SnapshotsKey} \cup DOMAIN FramesOf
    /\ Screen # "panes" => expanded = {}
    /\ event = "" => fetching = {} /\ snaps = <<>>
    /\ \A k \in {EventKey, SnapshotsKey} : k \in fetching <=> asked[k] # Nothing

\* The three panes and the header are of one occurrence: whatever is refetched,
\* stepped through or unfolded, frames and unfolded variables are those of the
\* occurrence whose host and time the header gives, and every frame is in one row.
PanesAgree ==
    /\ EventTypeOK
    /\ (Screen = "panes" /\ Shown # 0) =>
        /\ Shown = snaps[OccIndex].id
        /\ FlattenSeq(Trace) = [i \in DOMAIN Frames |-> i]
        /\ opened \subseteq {<<snaps[OccIndex].id, SelectedFrame, v>> : v \in Frames[SelectedFrame].vars}

\* Once everything is fetched and announced, a page on which no occurrence was chosen
\* shows the newest one there is, unless its occurrences came late: a live message had
\* overtaken the first load that they are of, which is not started again, or the request
\* that filled the cache they were taken from.
ShowsNewest ==
    (Screen = "panes" /\ occ = None /\ quiet /\ fetching = {} /\ errors = {} /\ ~overtaken) =>
        \A i \in DOMAIN rows : EventId(rows[i]) = event =>
            \E j \in DOMAIN rows : rows[j].id = Current /\ rows[j].at >= rows[i].at

\* A frame that the occurrence on view does not have does not stay in the URL.
FrameSettles == BadFrame ~> ~BadFrame
=============================================================================
