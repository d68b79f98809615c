------------------------------- MODULE Sampler -------------------------------
(***************************************************************************)
(* The agent's adaptive sampler (agent/src/sampling.cpp): which tier each  *)
(* throw is captured at, and the LRU that bounds how many throw sites are  *)
(* remembered.  Fingerprints hash to independent stripes; this is one.     *)
(*                                                                         *)
(* decide() reads the clock before it takes the stripe's lock, so the time *)
(* a decision works with may be older than that of the decision before it. *)
(*                                                                         *)
(* The time unit is arbitrary.  Zero means "not set" in the code's time    *)
(* fields; the clock never shows it, and is bounded here by LastMs.        *)
(***************************************************************************)
EXTENDS Naturals, Sequences, FiniteSets, Functions, SequencesExt

CONSTANTS
    Threads, Fingerprints,
    Capacity,        \* per_stripe_max_
    FullPerWindow,   \* kFullPerWindow
    Reduced,         \* kFullPerWindow * 5: hits in a window before COUNT_ONLY
    Window,          \* kWindowMs
    Resample,        \* kResampleMs
    MaxDelay,        \* environment: how long decide() may wait for the lock
    LastMs,          \* bound: the clock
    MaxHits          \* bound: decisions per fingerprint

ASSUME SamplerAssumption ==
    /\ {Capacity, Reduced, Window, Resample, MaxDelay, LastMs, MaxHits} \subseteq Nat
    /\ FullPerWindow \in Nat \ {0}
    /\ Capacity > 0 /\ Window > 0 /\ LastMs > 0
    /\ FullPerWindow <= Reduced
    /\ Window <= Resample      \* 60 s and 300 s
    /\ MaxDelay <= Resample    \* a lock held for microseconds is not waited for 300 s

VARIABLES
    nowMs,   \* steady_clock
    call,    \* per thread: decide()'s argument and the time it has read
    lru,     \* Stripe::lru, most recently used first
    states,  \* Stripe::states
    fulls    \* history: FULL verdicts of a tracked site in its current window

samplerVars == <<nowMs, call, lru, states, fulls>>

Tracked == DOMAIN states

NewState == [total |-> 0, hits |-> 0, start |-> 0, lastFull |-> 0]

NoCall == [fp |-> "none", time |-> 0]

SamplerInit ==
    /\ nowMs = 1
    /\ call = [t \in Threads |-> NoCall]
    /\ lru = <<>>
    /\ states = <<>>
    /\ fulls = [f \in Fingerprints |-> 0]

SamplerTick ==
    /\ nowMs < LastMs
    /\ \A t \in Threads : call[t] = NoCall \/ nowMs < call[t].time + MaxDelay
    /\ nowMs' = nowMs + 1
    /\ UNCHANGED <<call, lru, states, fulls>>

\* decide() begins: now_ms(), and the fingerprint's stripe is looked up.
ReadClock(t, f) ==
    /\ call[t] = NoCall
    /\ call' = [call EXCEPT ![t] = [fp |-> f, time |-> nowMs]]
    /\ UNCHANGED <<nowMs, lru, states, fulls>>
-----------------------------------------------------------------------------
\* The least recently used entry makes room for a site that is not tracked.
Victims(f) ==
    IF f \notin Tracked /\ Cardinality(Tracked) >= Capacity /\ lru # <<>>
    THEN {Last(lru)} ELSE {}

\* State::lru_it: a tracked site's place in the list.
Place(f) == CHOOSE i \in DOMAIN lru : lru[i] = f

\* What stays in the list when f is taken to its front: pop_back() of the victim,
\* or splice() of f's own node.
Others(f) ==
    IF f \in Tracked THEN RemoveAt(lru, Place(f))
    ELSE IF Victims(f) # {} THEN Front(lru) ELSE lru

\* The site goes to the front of the list.  (Mutated form: a site that is
\* tracked already is not taken out of its old place.)
PromoteTwice(f) == <<f>> \o (IF Victims(f) # {} THEN Front(lru) ELSE lru)

Promote(f) == <<f>> \o Others(f)

Entry(f) == IF f \in Tracked THEN states[f] ELSE NewState

\* Roll the window when it has lasted, and count the hit.  t may be older than
\* the window's start: the difference is signed.
Rolls(s, t) == s.start = 0 \/ t >= s.start + Window

HitAt(s, t) ==
    IF Rolls(s, t)
    THEN [s EXCEPT !.total = @ + 1, !.start = t, !.hits = 1]
    ELSE [s EXCEPT !.total = @ + 1, !.hits = @ + 1]

Due(s, t) == s.lastFull = 0 \/ t >= s.lastFull + Resample

Tier(s, t) ==
    CASE Due(s, t) \/ s.hits <= FullPerWindow -> "FULL"
      [] ~Due(s, t) /\ s.hits > FullPerWindow /\ s.hits <= Reduced -> "REDUCED"
      [] OTHER -> "COUNT_ONLY"

\* The time of the last FULL.  (Mutated form: the resample does not set it.)
StampedInBudget(s, t) ==
    IF s.hits <= FullPerWindow THEN [s EXCEPT !.lastFull = t] ELSE s

Stamped(s, t) == IF Tier(s, t) = "FULL" THEN [s EXCEPT !.lastFull = t] ELSE s

\* What decide() finds once it has counted the hit, and the tier it returns.
Counted(t) == HitAt(Entry(call[t].fp), call[t].time)
Verdict(t) == Tier(Counted(t), call[t].time)

\* decide(), under the stripe's lock.
Decide(t) ==
    LET f      == call[t].fp
        rolled == Rolls(Entry(f), call[t].time)
    IN  /\ call[t] # NoCall
        /\ Counted(t).total <= MaxHits
        /\ lru' = Promote(f)
        /\ states' = [g \in (Tracked \ Victims(f)) \cup {f} |->
                        IF g = f THEN Stamped(Counted(t), call[t].time) ELSE states[g]]
        /\ fulls' = [g \in Fingerprints |->
                       IF g \in Victims(f) THEN 0
                       ELSE IF g # f THEN fulls[g]
                       ELSE (IF rolled THEN 0 ELSE fulls[f])
                            + (IF Verdict(t) = "FULL" THEN 1 ELSE 0)]
        /\ call' = [call EXCEPT ![t] = NoCall]
        /\ UNCHANGED nowMs

SamplerNext ==
    \/ SamplerTick
    \/ \E t \in Threads : Decide(t) \/ \E f \in Fingerprints : ReadClock(t, f)

SamplerSpec == SamplerInit /\ [][SamplerNext]_samplerVars
-----------------------------------------------------------------------------
(* Properties                                                              *)

SamplerTypeOK ==
    /\ nowMs \in 1 .. LastMs
    /\ \A t \in Threads : call[t] = NoCall \/ call[t].time \in 1 .. nowMs
    /\ Tracked \subseteq Fingerprints
    /\ \A f \in Tracked :
         /\ states[f].total \in 1 .. MaxHits
         /\ states[f].hits \in 1 .. states[f].total
         /\ states[f].start \in 1 .. LastMs
         /\ states[f].lastFull \in 1 .. LastMs

\* The map and the LRU list always hold the same sites, each once, and never
\* more than the capacity, whatever order the threads take the lock in; what the map
\* holds of a site is well formed.
LruMatchesMap ==
    /\ SamplerTypeOK
    /\ Range(lru) = Tracked
    /\ Len(lru) = Cardinality(Tracked)
    /\ Len(lru) <= Capacity

\* A hot throw site is captured in full at most kFullPerWindow times in a
\* window, plus one resample, even when decisions work with times that are out
\* of order.
FullBudget == \A f \in Tracked : fulls[f] <= FullPerWindow + 1
=============================================================================
