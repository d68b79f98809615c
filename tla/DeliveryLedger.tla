--------------------------- MODULE DeliveryLedger ---------------------------
(***************************************************************************)
(* What the agent's event queue promises to the threads that call          *)
(* enqueue() and to whoever reads dropped(): events are numbered in the    *)
(* order they are offered, the pending ones leave strictly from the front, *)
(* and every event that leaves is either delivered or written off.         *)
(* AsyncQueue is shown to implement this module.                           *)
(***************************************************************************)
EXTENDS Naturals, Sequences, Functions

CONSTANTS
    RefuseAt,   \* fewer than this many pending events: an offer is accepted
    Capacity    \* never more than this many events pending

VARIABLES
    offered,    \* number of events offered so far; event ids are 1..offered
    pending,    \* accepted and not yet settled, oldest first
    delivered,  \* settled: a collector acknowledged them
    lost        \* settled: refused at the door or written off later

vars == <<offered, pending, delivered, lost>>

Oldest(n) == SubSeq(pending, 1, n)
Rest(n)   == SubSeq(pending, n + 1, Len(pending))

Init ==
    /\ offered = 0
    /\ pending = <<>>
    /\ delivered = {}
    /\ lost = {}

Accept ==
    /\ Len(pending) < Capacity
    /\ offered' = offered + 1
    /\ pending' = Append(pending, offered + 1)
    /\ UNCHANGED <<delivered, lost>>

Refuse ==
    /\ Len(pending) >= RefuseAt
    /\ offered' = offered + 1
    /\ lost' = lost \cup {offered + 1}
    /\ UNCHANGED <<pending, delivered>>

\* The n oldest pending events are acknowledged together.
Deliver(n) ==
    /\ delivered' = delivered \cup Range(Oldest(n))
    /\ pending' = Rest(n)
    /\ UNCHANGED <<offered, lost>>

\* The n oldest pending events are written off together.
WriteOff(n) ==
    /\ lost' = lost \cup Range(Oldest(n))
    /\ pending' = Rest(n)
    /\ UNCHANGED <<offered, delivered>>

Next ==
    \/ Accept
    \/ Refuse
    \/ \E n \in 1 .. Len(pending) : Deliver(n) \/ WriteOff(n)

Spec == Init /\ [][Next]_vars
-----------------------------------------------------------------------------
\* Each offered event is in exactly one place, and the pending ones keep the
\* order in which they were accepted.
Conserved ==
    /\ \A i, j \in 1 .. Len(pending) : i < j => pending[i] < pending[j]
    /\ delivered \cap lost = {}
    /\ (delivered \cup lost) \cap Range(pending) = {}
    /\ (delivered \cup lost) \cup Range(pending) = 1 .. offered
=============================================================================
