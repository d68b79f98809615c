----------------------------- MODULE AuthSession -----------------------------
(***************************************************************************)
(* Signing in to the dashboard and out of it: the auth context             *)
(* (lib/auth.tsx) with the key in localStorage and its check against the   *)
(* collector (integrations/collector/client.ts), the login page            *)
(* (routes/login.tsx), the guard of every other page                       *)
(* (routes/_authenticated.tsx) and the shell that opens the live socket    *)
(* (components/AppShell.tsx).                                              *)
(*                                                                         *)
(* A request carries the key that is stored when it is sent; its answer is *)
(* handled in a later step, in which the stored key may be another one.    *)
(* "open" stands for no key at all.                                        *)
(***************************************************************************)
EXTENDS LiveSocket, FiniteSets

CONSTANTS
    Keys,       \* keys a user may type
    MaxLogins,  \* bound: forms submitted
    MaxReloads  \* bound: reloads of the page

\* What localStorage may hold.
Stored == Keys \cup {"open"}

ASSUME AuthAssumption == "none" \notin Stored /\ {MaxLogins, MaxReloads} \subseteq Nat

Attempts == 1 .. MaxLogins

VARIABLES
    accepted,   \* external: the keys the collector accepts
    key,        \* localStorage: the stored key
    user,       \* AuthProvider: the key of the signed-in user, or "none"
    ready,      \* AuthProvider
    probe,      \* the boot probe: the key it was sent with, or "none" when over
    place,      \* the route: "login", or "app" for every page under the guard
    form,       \* LoginPage: its attempt under way (0: not submitting), and error
    sent,       \* login(): per attempt under way, the key to be checked
    logins,     \* history: forms submitted
    reloads,    \* history: reloads of the page
    signedOut,  \* history: signed out, and no form submitted since
    crossed     \* history: the key was changed behind a session, a boot probe or
                \* another attempt

auth == <<key, user, ready>>
page == <<place, form, sent>>
history == <<logins, reloads, signedOut, crossed>>
vars == <<accepted, auth, probe, page, history, shell>>

NoForm == [attempt |-> 0, error |-> FALSE]
NothingSent == [i \in Attempts |-> "none"]

\* The page is loaded: the provider probes the collector with the stored key.
Init ==
    /\ accepted \in SUBSET Stored
    /\ key \in Stored
    /\ user = "none" /\ ready = FALSE
    /\ probe = key
    /\ place \in {"login", "app"}
    /\ form = NoForm /\ sent = NothingSent
    /\ shell = [s \in Shells |-> NoShell]
    /\ logins = 0 /\ reloads = 0
    /\ signedOut = FALSE /\ crossed = FALSE
-----------------------------------------------------------------------------
(* What is on view, and the effects of its coming and going.               *)

\* AuthedLayout shows the shell, and in it the page, or a blank screen.
Shown(where, isReady, who) == where = "app" /\ isReady /\ who # "none"

OnView == Shown(place, ready, user)

\* React mounts and unmounts AppShell as it comes into view and leaves it.
Render ==
    IF OnView = Shown(place', ready', user') THEN UNCHANGED shell
    ELSE IF OnView
    THEN shell' = [s \in Shells |-> IF shell[s].at = "live" THEN Cleanup(shell[s]) ELSE shell[s]]
    ELSE \E s \in Shells, ok \in BOOLEAN :
            /\ shell[s].at # "live" /\ shell[s].ws = "none"
            /\ shell' = [shell EXCEPT ![s] = Mounted(ok, key')]

\* AuthedLayout's effect sends a visitor without a user to the login page.
GuardRedirects ==
    /\ place = "app" /\ ready /\ user = "none"
    /\ place' = "login"
    /\ UNCHANGED <<accepted, auth, probe, form, sent, history>>
    /\ Render

\* The user moves through the browser's history.  A login under way goes on without
\* its form.
Navigate ==
    /\ place' = IF place = "app" THEN "login" ELSE "app"
    /\ form' = NoForm
    /\ UNCHANGED <<accepted, auth, probe, sent, history>>
    /\ Render

\* The page is loaded again, and everything but the stored key starts afresh.
Reload ==
    /\ reloads < MaxReloads
    /\ reloads' = reloads + 1
    /\ user' = "none" /\ ready' = FALSE
    /\ probe' = key
    /\ form' = NoForm /\ sent' = NothingSent
    /\ shell' = [s \in Shells |-> NoShell]
    /\ UNCHANGED <<accepted, key, place, logins, signedOut, crossed>>
-----------------------------------------------------------------------------
(* verifyApiKey(): accepted, refused with 401, or no usable answer.        *)

Outcomes(k) == {IF k \in accepted THEN "yes" ELSE "no", "error"}

\* The boot probe is answered.  Whatever the answer, the provider is ready.
ReadyAfter(outcome) == TRUE

ProbeAnswered ==
    /\ probe # "none"
    /\ \E outcome \in Outcomes(probe) :
          /\ user' = IF outcome = "yes" THEN key ELSE user
          /\ ready' = ReadyAfter(outcome)
    /\ probe' = "none"
    /\ UNCHANGED <<accepted, key, page, history>>
    /\ Render

\* LoginPage's button is disabled while its attempt is under way.
CanSubmit == place = "login" /\ form.attempt = 0

\* onSubmit() and login(): the key is stored first and checked afterwards.  (That
\* localStorage may refuse it, which is swallowed, is left out.)
Submit(k) ==
    /\ CanSubmit
    /\ logins < MaxLogins
    /\ logins' = logins + 1
    /\ key' = k
    /\ form' = [attempt |-> logins', error |-> FALSE]
    /\ sent' = [sent EXCEPT ![logins'] = k]
    /\ signedOut' = FALSE
    /\ crossed' = (crossed \/ user # "none" \/ probe # "none" \/ sent # NothingSent)
    /\ UNCHANGED <<accepted, user, ready, probe, place, reloads, shell>>

\* The check is answered.  A key that is refused is removed; one that could not be
\* checked stays.  (Mutated form: the user is signed in unless refused.)
UserUnlessRefused(outcome, k) == IF outcome = "no" THEN user ELSE k

UserAfter(outcome, k) == IF outcome = "yes" THEN k ELSE user

\* onSubmit() resumes: to the dashboard, or the error on the form that sent it, which
\* can be submitted again.  (Mutated form: it stays disabled.)
StuckForm == [form EXCEPT !.error = TRUE]

AnsweredForm == [attempt |-> 0, error |-> TRUE]

LoginAnswered(i) ==
    /\ sent[i] # "none"
    /\ \E outcome \in Outcomes(sent[i]) :
          /\ key' = IF outcome = "no" THEN "open" ELSE key
          /\ user' = UserAfter(outcome, sent[i])
          /\ form' = IF outcome = "yes" THEN NoForm
                     ELSE IF form.attempt = i THEN AnsweredForm ELSE form
          /\ place' = IF outcome = "yes" THEN "app" ELSE place
    /\ sent' = [sent EXCEPT ![i] = "none"]
    /\ UNCHANGED <<accepted, ready, probe, history>>
    /\ Render

\* AppShell's menu: logout(), then to the login page.  (Mutated form: the key is
\* left in the browser.)
KeyAfterLogoutKept == key

KeyAfterLogout == "open"

Logout ==
    /\ OnView
    /\ key' = KeyAfterLogout
    /\ user' = "none"
    /\ place' = "login"
    /\ signedOut' = TRUE
    /\ UNCHANGED <<accepted, ready, probe, form, sent, logins, reloads, crossed>>
    /\ Render

\* Another tab of the same browser stores or removes a key.
OtherTab ==
    /\ ~crossed
    /\ key' \in Stored \ {key}
    /\ crossed' = TRUE
    /\ UNCHANGED <<accepted, user, ready, probe, page, logins, reloads, signedOut, shell>>

\* The live socket of the shell.
Socket ==
    /\ \E s \in Shells : SocketStep(s, key)
    /\ UNCHANGED <<accepted, auth, probe, page, history>>
-----------------------------------------------------------------------------
Next ==
    \/ ProbeAnswered \/ GuardRedirects \/ Navigate \/ Reload
    \/ \E k \in Stored : Submit(k)
    \/ \E i \in Attempts : LoginAnswered(i)
    \/ Logout \/ OtherTab
    \/ Socket

\* Requests are answered or fail, React runs its effects, timers fire and a
\* closing socket closes.  Nothing is assumed of the user.
Fairness ==
    /\ WF_vars(ProbeAnswered) /\ WF_vars(GuardRedirects)
    /\ \A i \in Attempts : WF_vars(LoginAnswered(i))
    /\ \A s \in Shells : /\ WF_vars(Socket /\ SocketClosed(s))
                         /\ WF_vars(Socket /\ Reconnect(s, key))

Spec == Init /\ [][Next]_vars /\ Fairness
-----------------------------------------------------------------------------
(* Properties                                                              *)

TypeOK ==
    /\ accepted \subseteq Stored /\ key \in Stored
    /\ user \in Stored \cup {"none"} /\ probe \in Stored \cup {"none"}
    /\ ready = (probe = "none")
    /\ sent \in [Attempts -> Stored \cup {"none"}]
    /\ form.attempt # 0 => place = "login" /\ sent[form.attempt] # "none"
    /\ OnView <=> \E s \in Shells : shell[s].at = "live"

\* The dashboard is never used with a key that was not checked: whatever the order
\* of boot probes, failed attempts, outages, reloads and sign-outs, the user who is
\* signed in is the one of the stored key, and the collector accepted it.  Only
\* submitting the form behind a session, a boot probe or another attempt, or
\* another tab, can part them.  (The state keeps its types on the way.)
SignedInAsAccepted ==
    /\ TypeOK
    /\ user # "none" /\ ~crossed => key = user /\ user \in accepted

\* Signing out lasts: until a form is submitted, no reload signs anybody in again,
\* except on a collector that is open to all.
LogoutSticks == signedOut /\ ~crossed => user \in {"none", "open"}

\* An open socket carries the key of the user who is signed in, across sign-outs,
\* new sign-ins and reconnections.
SocketKeyIsUsers == \A s \in Shells : shell[s].ws = "up" /\ ~crossed => shell[s].wsKey = user

\* Whatever the order of errors, closes, timers, sign-outs and sign-ins, one socket
\* is in use, and a hook that was cleaned up has no timer left.
OneSocket ==
    /\ \A s, t \in Shells : shell[s].ws = "up" /\ shell[t].ws = "up" => s = t
    /\ \A s \in Shells : shell[s].at = "closed" =>
          shell[s].ws # "up" /\ ~shell[s].reconnect /\ ~shell[s].debounce

\* A mounted shell always has a socket or a timer that will open one.
NeverStranded ==
    \A s \in Shells : shell[s].at = "live" => shell[s].ws # "none" \/ shell[s].reconnect

\* A submitted form is answered, and can be submitted again.
SubmitEnds == form.attempt # 0 ~> form.attempt = 0
=============================================================================
