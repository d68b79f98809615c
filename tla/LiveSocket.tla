------------------------------ MODULE LiveSocket ------------------------------
(***************************************************************************)
(* The life of the live socket: the effect of useLiveUpdates()             *)
(* (lib/use-live-updates.tsx) and connectLiveSocket()                      *)
(* (integrations/collector/client.ts).  AuthSession mounts and unmounts    *)
(* it; LiveCache has what a message makes the screens do.                  *)
(*                                                                         *)
(* Each mount of the hook has a closure of its own, and the callbacks of   *)
(* an old closure can still run beside those of the next.                  *)
(***************************************************************************)
EXTENDS Naturals

CONSTANT Shells     \* successive mounts of the hook

VARIABLE shell      \* per mount: closed, ws, reconnectTimer and debounceTimer

\* at: not mounted yet, mounted, or cleaned up (closed).  wsKey is the key in the
\* URL of the socket.
NoShell == [at |-> "none", ws |-> "none", wsKey |-> "none", reconnect |-> FALSE, debounce |-> FALSE]

\* connectLiveSocket() constructs a socket with the stored key, or fails to, and
\* open() is tried again later.
Opened(h, ok, key) ==
    IF ok THEN [h EXCEPT !.ws = "up", !.wsKey = key, !.reconnect = FALSE]
    ELSE [h EXCEPT !.ws = "none", !.wsKey = "none", !.reconnect = TRUE]

\* The effect runs.
Mounted(ok, key) == Opened([NoShell EXCEPT !.at = "live"], ok, key)

\* The cleanup of the effect: no timers, and the socket starts to close.  (Mutated
\* forms: the reconnect timer is forgotten; the socket is.)
CleanupButSocket(h) == [h EXCEPT !.at = "closed", !.reconnect = FALSE, !.debounce = FALSE]

CleanupButReconnect(h) ==
    [h EXCEPT !.at = "closed", !.debounce = FALSE, !.ws = IF @ = "none" THEN @ ELSE "closing"]

Cleanup(h) ==
    [h EXCEPT !.at = "closed", !.reconnect = FALSE, !.debounce = FALSE,
              !.ws = IF @ = "none" THEN @ ELSE "closing"]

\* The reconnect timer fires: open() again, unless the effect was cleaned up.
Reconnect(s, key) ==
    /\ shell[s].reconnect
    /\ \E ok \in BOOLEAN :
          shell' = [shell EXCEPT ![s] = IF @.at = "live" THEN Opened(@, ok, key)
                                        ELSE [@ EXCEPT !.reconnect = FALSE]]

\* A message of a kind that matters: scheduleRefresh() starts the debounce timer
\* unless it runs.
Message(s) ==
    /\ shell[s].ws = "up"
    /\ shell' = [shell EXCEPT ![s].debounce = TRUE]

\* The debounce timer fires (LiveCache!TimerFires has what it does).
Debounced(s) ==
    /\ shell[s].debounce
    /\ shell' = [shell EXCEPT ![s].debounce = FALSE]

\* onerror closes the socket; so does the collector, or a connection that is lost.
SocketError(s) ==
    /\ shell[s].ws = "up"
    /\ shell' = [shell EXCEPT ![s].ws = "closing"]

\* onclose: come back in a while, unless the effect was cleaned up.  (Mutated
\* form: never come back.)
ReconnectNever(h) == [h EXCEPT !.ws = "none", !.wsKey = "none"]

OnClose(h) == [h EXCEPT !.ws = "none", !.wsKey = "none", !.reconnect = (h.at = "live")]

SocketClosed(s) ==
    /\ shell[s].ws = "closing"
    /\ shell' = [shell EXCEPT ![s] = OnClose(@)]

SocketStep(s, key) ==
    \/ Reconnect(s, key) \/ Message(s) \/ Debounced(s) \/ SocketError(s) \/ SocketClosed(s)

=============================================================================
