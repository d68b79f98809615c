--------------------------- MODULE DashboardProofs ---------------------------
(***************************************************************************)
(* The session and its live socket (Spec, of AuthSession), for every set   *)
(* of keys, every number of mounts, of logins and of reloads: nobody is    *)
(* signed in with a key that was not accepted, signing out lasts, and one  *)
(* socket is in use, with the user's key, and never none for good.  In the *)
(* second part the list of exceptions (CacheSpec, of LiveCache), in the    *)
(* third the pages that change the configuration (PagesSpec, of AlertRules *)
(* with SettingsTabs).                                                     *)
(*                                                                         *)
(* The invariants lean on each other.  That the signed-in user is the one  *)
(* of the stored key needs that no check is under way beside a session or  *)
(* a probe (Checked); that a socket has the user's key needs that only a   *)
(* shell on view has one (Hooks), and that the user does not change under  *)
(* a shell that stays on view.                                             *)
(*                                                                         *)
(* The pages that change the configuration, for any number of mutations    *)
(* under way, of rows, and of fields that are edited: a page at rest shows *)
(* what is stored, unless a fetch failed or a mutation was missed; an      *)
(* integration has one row unless a Connect was clicked on rows in doubt;  *)
(* every reset that was committed was typed for, but one more for each     *)
(* whose answer was lost; and a rule that is saved untouched stays as it   *)
(* was, but for a condition described anew of the trimmed name.            *)
(*                                                                         *)
(* None of these four is inductive, and each has a part of the invariant   *)
(* of its own.                                                             *)
(*   Fresh: the data of a query is what is stored unless something says    *)
(*     otherwise: a fetch, an error, a commit that is not answered yet, or *)
(*     one that was missed; and a fetch that was not overtaken has read    *)
(*     what is stored.                                                     *)
(*   OneCard: while no Connect was clicked on rows in doubt, an insertion  *)
(*     under way is the only one and finds no row, and a connect that      *)
(*     waits for its timeout has the data up to date.                      *)
(*   EachTyped: a reset under way, heard of or not, used up a typing, or   *)
(*     the one left over by a reset that was not heard of.                 *)
(*   RulesKept: what is stored, sent or in the form of a rule reads back   *)
(*     as it was written (RoundTrip, SwitchKept, SpreadAll).               *)
(***************************************************************************)
EXTENDS AuthSession, LiveCache, AlertRules, FiniteSetTheorems, SequenceTheorems, TLAPS

Shell == [at : {"none", "live", "closed"}, ws : {"none", "up", "closing"},
          wsKey : Stored \cup {"none"}, reconnect : BOOLEAN, debounce : BOOLEAN]

\* What each variable holds, TypeOK without the part about the shells.
Types ==
    /\ accepted \subseteq Stored /\ key \in Stored
    /\ user \in Stored \cup {"none"} /\ probe \in Stored \cup {"none"}
    /\ ready = (probe = "none")
    /\ place \in {"login", "app"}
    /\ sent \in [Attempts -> Stored \cup {"none"}]
    /\ form \in [attempt : 0 .. MaxLogins, error : BOOLEAN]
    /\ form.attempt # 0 => place = "login" /\ sent[form.attempt] # "none"
    /\ logins \in 0 .. MaxLogins
    /\ signedOut \in BOOLEAN /\ crossed \in BOOLEAN
    /\ shell \in [Shells -> Shell]

\* A hook that is not mounted has nothing that could open a socket or refresh; one
\* that is, is the only one, and has a socket or a timer.
Hooks ==
    /\ \A s \in Shells : shell[s].at # "live" =>
          shell[s].ws # "up" /\ ~shell[s].reconnect /\ ~shell[s].debounce
    /\ \A s, t \in Shells : shell[s].at = "live" /\ shell[t].at = "live" => s = t
    /\ OnView <=> \E s \in Shells : shell[s].at = "live"
    /\ NeverStranded

\* Until a key is changed behind a session, the stored key is the one that is
\* checked or was: by the probe, by one attempt, or before the user was let in.
Checked ==
    ~crossed =>
        /\ user # "none" => key = user /\ user \in accepted /\ probe = "none"
        /\ probe # "none" => probe = key
        /\ user # "none" \/ probe # "none" \/ signedOut => \A i \in Attempts : sent[i] = "none"
        /\ \A i, j \in Attempts : sent[i] # "none" /\ sent[j] # "none" => i = j
        /\ \A i \in Attempts : sent[i] # "none" => sent[i] = key
        /\ signedOut => key = "open"

IInv == Types /\ Hooks /\ Checked /\ SocketKeyIsUsers
-----------------------------------------------------------------------------
(* The socket.                                                             *)

LEMMA NoneIsNoKey == "none" \notin Stored /\ "open" \in Stored /\ MaxLogins \in Nat
BY AuthAssumption DEF Stored

\* Mounting the hook, or trying again, gives it a socket with the stored key or a timer.
LEMMA OpenedShell ==
  ASSUME NEW h \in Shell, NEW ok \in BOOLEAN, NEW k \in Stored
  PROVE  /\ Opened(h, ok, k) \in Shell
         /\ Opened(h, ok, k).at = h.at /\ Opened(h, ok, k).debounce = h.debounce
         /\ Opened(h, ok, k).ws # "none" \/ Opened(h, ok, k).reconnect
         /\ Opened(h, ok, k).ws = "up" => Opened(h, ok, k).wsKey = k
BY DEF Opened, Shell

LEMMA MountedShell ==
  ASSUME NEW ok \in BOOLEAN, NEW k \in Stored
  PROVE  /\ Mounted(ok, k) \in Shell /\ Mounted(ok, k).at = "live"
         /\ Mounted(ok, k).ws # "none" \/ Mounted(ok, k).reconnect
         /\ Mounted(ok, k).ws = "up" => Mounted(ok, k).wsKey = k
<1> DEFINE h == [NoShell EXCEPT !.at = "live"]
<1>1. h \in Shell /\ h.at = "live"
  BY DEF NoShell, Shell
<1> HIDE DEF h
<1>2. Mounted(ok, k) = Opened(h, ok, k)
  BY DEF Mounted, h
<1> QED
  BY <1>1, <1>2, OpenedShell

\* Cleaning up leaves no timer and no socket in use.
LEMMA CleanedShell ==
  ASSUME NEW h \in Shell
  PROVE  /\ Cleanup(h) \in Shell /\ Cleanup(h).at = "closed"
         /\ Cleanup(h).ws # "up" /\ ~Cleanup(h).reconnect /\ ~Cleanup(h).debounce
BY DEF Cleanup, Shell

\* A step of the socket keeps the hooks as they are: none comes or goes, and a socket
\* that opens has the stored key.
LEMMA SocketStepKeeps ==
  ASSUME Types, Hooks, NEW s \in Shells, SocketStep(s, key)
  PROVE  /\ shell' \in [Shells -> Shell]
         /\ \A t \in Shells : shell'[t].at = shell[t].at
         /\ \A t \in Shells : shell'[t].at # "live" =>
               shell'[t].ws # "up" /\ ~shell'[t].reconnect /\ ~shell'[t].debounce
         /\ NeverStranded'
         /\ \A t \in Shells : shell'[t].ws = "up" =>
               shell'[t].wsKey = key \/ (shell[t].ws = "up" /\ shell'[t].wsKey = shell[t].wsKey)
<1> DEFINE Good(h, g) ==
        /\ g \in Shell /\ g.at = h.at
        /\ g.at # "live" => g.ws # "up" /\ ~g.reconnect /\ ~g.debounce
        /\ g.at = "live" => g.ws # "none" \/ g.reconnect
        /\ g.ws = "up" => g.wsKey = key \/ (h.ws = "up" /\ g.wsKey = h.wsKey)
<1>1. /\ key \in Stored /\ shell \in [Shells -> Shell] /\ shell[s] \in Shell
      /\ shell[s].at # "live" => shell[s].ws # "up" /\ ~shell[s].reconnect /\ ~shell[s].debounce
      /\ shell[s].at = "live" => shell[s].ws # "none" \/ shell[s].reconnect
  BY DEF Types, Hooks, NeverStranded
<1>2. \A t \in Shells : Good(shell[t], shell[t])
  BY DEF Types, Hooks, NeverStranded
<1>3. \E g : shell' = [shell EXCEPT ![s] = g] /\ Good(shell[s], g)
  <2>1. CASE Reconnect(s, key)
    <3>1. PICK ok \in BOOLEAN :
             shell' = [shell EXCEPT ![s] = IF shell[s].at = "live" THEN Opened(shell[s], ok, key)
                                           ELSE [shell[s] EXCEPT !.reconnect = FALSE]]
      BY <2>1 DEF Reconnect
    <3>2. CASE shell[s].at = "live"
      <4>1. Good(shell[s], Opened(shell[s], ok, key))
        BY <3>2, <1>1, OpenedShell
      <4> QED
        BY <3>1, <3>2, <4>1
    <3>3. CASE shell[s].at # "live"
      <4>1. Good(shell[s], [shell[s] EXCEPT !.reconnect = FALSE])
        BY <3>3, <1>1 DEF Shell
      <4> QED
        BY <3>1, <3>3, <4>1
    <3> QED
      BY <3>2, <3>3
  <2>2. CASE Message(s)
    <3>1. Good(shell[s], [shell[s] EXCEPT !.debounce = TRUE])
      BY <2>2, <1>1 DEF Message, Shell
    <3> QED
      BY <2>2, <3>1 DEF Message
  <2>3. CASE Debounced(s)
    <3>1. Good(shell[s], [shell[s] EXCEPT !.debounce = FALSE])
      BY <1>1 DEF Shell
    <3> QED
      BY <2>3, <3>1 DEF Debounced
  <2>4. CASE SocketError(s)
    <3>1. Good(shell[s], [shell[s] EXCEPT !.ws = "closing"])
      BY <1>1 DEF Shell
    <3> QED
      BY <2>4, <3>1 DEF SocketError
  <2>5. CASE SocketClosed(s)
    <3>1. Good(shell[s], OnClose(shell[s]))
      BY <1>1 DEF OnClose, Shell
    <3> QED
      BY <2>5, <3>1 DEF SocketClosed
  <2> QED
    BY <2>1, <2>2, <2>3, <2>4, <2>5 DEF SocketStep
<1>4. \A t \in Shells : Good(shell[t], shell'[t])
  BY <1>1, <1>2, <1>3
<1>5. shell' \in [Shells -> Shell]
  BY <1>1, <1>3
<1> QED
  BY <1>4, <1>5 DEF NeverStranded
-----------------------------------------------------------------------------
(* The page.                                                               *)

\* Whatever comes into view or leaves it: hooks as they should be, and a socket that
\* is in use is new, with the stored key, or that of the shell that stays on view.
LEMMA RenderKeeps ==
  ASSUME Types, Hooks, Render, key' \in Stored
  PROVE  /\ shell' \in [Shells -> Shell]
         /\ Hooks'
         /\ \A s \in Shells : shell'[s].ws = "up" =>
               /\ OnView'
               /\ \/ shell'[s].wsKey = key'
                  \/ OnView /\ shell[s].ws = "up" /\ shell'[s].wsKey = shell[s].wsKey
<1>1. /\ shell \in [Shells -> Shell] /\ \A s \in Shells : shell[s] \in Shell
      /\ OnView' <=> Shown(place', ready', user')
      /\ OnView \in BOOLEAN /\ OnView' \in BOOLEAN
  BY DEF Types, OnView, Shown
<1>2. CASE OnView <=> OnView'
  <2>1. shell' = shell
    BY <1>1, <1>2 DEF Render, OnView, Shown
  <2>2. Hooks'
    BY <1>2, <2>1 DEF Hooks, NeverStranded
  <2> QED
    BY <1>1, <1>2, <2>1, <2>2 DEF Hooks
<1>3. CASE OnView /\ ~OnView'
  <2>1. shell' = [s \in Shells |-> IF shell[s].at = "live" THEN Cleanup(shell[s]) ELSE shell[s]]
    BY <1>1, <1>3 DEF Render, OnView, Shown
  <2>2. \A s \in Shells :
           /\ shell'[s] \in Shell /\ shell'[s].at # "live"
           /\ shell'[s].ws # "up" /\ ~shell'[s].reconnect /\ ~shell'[s].debounce
    BY <1>1, <2>1, CleanedShell DEF Hooks
  <2>3. shell' \in [Shells -> Shell]
    BY <2>1, <2>2
  <2> QED
    BY <1>3, <2>2, <2>3 DEF Hooks, NeverStranded
<1>4. CASE ~OnView /\ OnView'
  <2>1. PICK s \in Shells, ok \in BOOLEAN : shell' = [shell EXCEPT ![s] = Mounted(ok, key')]
    BY <1>1, <1>4 DEF Render, OnView, Shown
  <2>2. /\ shell' \in [Shells -> Shell]
        /\ shell'[s] = Mounted(ok, key')
        /\ \A t \in Shells : t # s => shell'[t] = shell[t] /\ shell[t].at # "live"
    BY <1>1, <1>4, <2>1, MountedShell DEF Hooks
  <2>3. /\ shell'[s].at = "live"
        /\ shell'[s].ws # "none" \/ shell'[s].reconnect
        /\ shell'[s].ws = "up" => shell'[s].wsKey = key'
    BY <2>2, MountedShell
  <2>4. \A t \in Shells : shell'[t].at # "live" =>
           shell'[t].ws # "up" /\ ~shell'[t].reconnect /\ ~shell'[t].debounce
    BY <2>2, <2>3 DEF Hooks
  <2>5. \A t \in Shells : t # s => shell'[t].at # "live" /\ shell'[t].ws # "up"
    BY <2>2 DEF Hooks
  <2>6. Hooks'
    BY <1>4, <2>2, <2>3, <2>4, <2>5 DEF Hooks, NeverStranded
  <2> QED
    BY <1>4, <2>2, <2>3, <2>5, <2>6
<1> QED
  BY <1>1, <1>2, <1>3, <1>4
-----------------------------------------------------------------------------
(* The session.                                                            *)

\* An action that renders keeps IInv, if it keeps Types and Checked, and the user of a
\* shell that stays on view.
LEMMA RenderedIInv ==
  ASSUME IInv, Render, Types', Checked',
         ~crossed' => ~crossed /\ (OnView /\ OnView' => user' = user)
  PROVE  IInv'
<1>1. Hooks' /\ key' \in Stored
  BY RenderKeeps DEF IInv, Types
<1>2. SocketKeyIsUsers'
  <2> SUFFICES ASSUME NEW s \in Shells, shell'[s].ws = "up", ~crossed'
               PROVE  shell'[s].wsKey = user'
    BY DEF SocketKeyIsUsers
  <2>1. /\ OnView'
        /\ \/ shell'[s].wsKey = key'
           \/ OnView /\ shell[s].ws = "up" /\ shell'[s].wsKey = shell[s].wsKey
    BY RenderKeeps DEF IInv, Types
  <2>2. key' = user'
    BY <2>1 DEF OnView, Shown, Checked
  <2> QED
    BY <2>1, <2>2 DEF IInv, SocketKeyIsUsers
<1> QED
  BY <1>1, <1>2 DEF IInv

\* An action that leaves the shells alone keeps IInv, if it keeps Types, Checked and
\* what is on view.
LEMMA UnrenderedIInv ==
  ASSUME IInv, shell' = shell, Types', Checked', OnView' <=> OnView,
         ~crossed' => ~crossed /\ user' = user
  PROVE  IInv'
BY DEF IInv, Hooks, NeverStranded, SocketKeyIsUsers

LEMMA InitIInv == Init => IInv
<1> SUFFICES ASSUME Init PROVE IInv
  OBVIOUS
<1>1. Types
  <2>1. probe # "none" /\ ready = FALSE /\ ready = (probe = "none")
    BY NoneIsNoKey DEF Init
  <2>2. shell \in [Shells -> Shell]
    BY DEF Init, NoShell, Shell
  <2>3. form.attempt = 0 /\ form \in [attempt : 0 .. MaxLogins, error : BOOLEAN]
    BY NoneIsNoKey DEF Init, NoForm
  <2> QED
    BY <2>1, <2>2, <2>3, NoneIsNoKey DEF Init, Types, NothingSent
<1>2. Hooks /\ SocketKeyIsUsers
  BY DEF Init, Hooks, NeverStranded, SocketKeyIsUsers, NoShell, OnView, Shown
<1>3. Checked
  BY DEF Init, Checked, NothingSent
<1> QED
  BY <1>1, <1>2, <1>3 DEF IInv

LEMMA ProbeIInv == ASSUME IInv, ProbeAnswered PROVE IInv'
<1>1. Types'
  <2>1. PICK outcome \in Outcomes(probe) :
           /\ user' = IF outcome = "yes" THEN key ELSE user
           /\ ready' = ReadyAfter(outcome)
    BY DEF ProbeAnswered
  <2>2. user' \in Stored \cup {"none"} /\ ready' = TRUE /\ probe' = "none"
    BY <2>1 DEF ProbeAnswered, ReadyAfter, IInv, Types
  <2>3. shell' \in [Shells -> Shell]
    BY RenderKeeps DEF ProbeAnswered, IInv, Types
  <2> QED
    BY <2>2, <2>3 DEF ProbeAnswered, IInv, Types, page, history
<1>2. Checked'
  <2>1. probe # "none" /\ probe' = "none" /\ sent' = sent /\ key' = key /\ accepted' = accepted
        /\ signedOut' = signedOut /\ crossed' = crossed
    BY DEF ProbeAnswered, page, history
  <2>2. user' = user \/ (user' = key /\ probe \in accepted)
    BY DEF ProbeAnswered, Outcomes
  <2> QED
    BY <2>1, <2>2 DEF IInv, Checked
<1>3. ~OnView /\ crossed' = crossed
  BY DEF ProbeAnswered, IInv, Types, OnView, Shown, history
<1> QED
  BY <1>1, <1>2, <1>3, RenderedIInv DEF ProbeAnswered

LEMMA GuardIInv == ASSUME IInv, GuardRedirects PROVE IInv'
<1>1. shell' \in [Shells -> Shell]
  BY RenderKeeps DEF GuardRedirects, auth, IInv, Types
<1>2. Types' /\ Checked'
  BY <1>1 DEF GuardRedirects, IInv, Types, Checked, auth, history
<1>3. user' = user /\ crossed' = crossed
  BY DEF GuardRedirects, auth, history
<1> QED
  BY <1>2, <1>3, RenderedIInv DEF GuardRedirects

LEMMA NavigateIInv == ASSUME IInv, Navigate PROVE IInv'
<1>1. shell' \in [Shells -> Shell]
  BY RenderKeeps DEF Navigate, auth, IInv, Types
<1>2. form' \in [attempt : 0 .. MaxLogins, error : BOOLEAN] /\ form'.attempt = 0
  BY NoneIsNoKey DEF Navigate, NoForm
<1>3. place' \in {"login", "app"}
  BY DEF Navigate
<1>4. Types' /\ Checked'
  BY <1>1, <1>2, <1>3 DEF Navigate, IInv, Types, Checked, auth, history
<1>5. user' = user /\ crossed' = crossed
  BY DEF Navigate, auth, history
<1> QED
  BY <1>4, <1>5, RenderedIInv DEF Navigate

LEMMA ReloadIInv == ASSUME IInv, Reload PROVE IInv'
<1>1. shell' = [s \in Shells |-> NoShell]
  BY DEF Reload
<1>2. shell' \in [Shells -> Shell] /\ \A s \in Shells : shell'[s] = NoShell
  BY <1>1 DEF NoShell, Shell
<1>3. /\ user' = "none" /\ ready' = FALSE /\ probe' = key /\ key' = key
      /\ key \in Stored /\ key # "none"
  BY NoneIsNoKey DEF Reload, IInv, Types
<1>4. /\ form' \in [attempt : 0 .. MaxLogins, error : BOOLEAN] /\ form'.attempt = 0
      /\ sent' \in [Attempts -> Stored \cup {"none"}] /\ \A i \in Attempts : sent'[i] = "none"
  BY NoneIsNoKey DEF Reload, NoForm, NothingSent
<1>5. ready' = (probe' = "none")
  BY <1>3
<1>6. Types'
  BY <1>2, <1>3, <1>4, <1>5 DEF Reload, IInv, Types
<1>7. Checked'
  BY <1>3, <1>4 DEF Reload, IInv, Checked
<1>8. Hooks' /\ SocketKeyIsUsers'
  BY <1>2, <1>3 DEF Hooks, NeverStranded, SocketKeyIsUsers, NoShell, OnView, Shown
<1> QED
  BY <1>6, <1>7, <1>8 DEF IInv

LEMMA SubmitIInv == ASSUME IInv, NEW k \in Stored, Submit(k) PROVE IInv'
<1>1. logins' \in Attempts /\ logins' \in 0 .. MaxLogins /\ logins' # 0
  BY NoneIsNoKey DEF Submit, IInv, Types, Attempts
<1>2. /\ sent' \in [Attempts -> Stored \cup {"none"}] /\ sent'[logins'] = k
      /\ \A i \in Attempts : i # logins' => sent'[i] = sent[i]
      /\ k # "none"
  BY <1>1, NoneIsNoKey DEF Submit, IInv, Types
<1>3. /\ form' \in [attempt : 0 .. MaxLogins, error : BOOLEAN] /\ form'.attempt = logins'
  BY <1>1 DEF Submit
<1>4. crossed' \in BOOLEAN
      /\ (~crossed' => ~crossed /\ user = "none" /\ probe = "none" /\ \A i \in Attempts : sent[i] = "none")
  BY DEF Submit, IInv, Types, NothingSent
<1>5. Types'
  BY <1>1, <1>2, <1>3, <1>4 DEF Submit, CanSubmit, IInv, Types
<1>6. Checked'
  BY <1>1, <1>2, <1>4 DEF Submit, Checked
<1>7. shell' = shell /\ user' = user /\ (OnView' <=> OnView)
  BY DEF Submit, OnView, Shown
<1> QED
  BY <1>4, <1>5, <1>6, <1>7, UnrenderedIInv

LEMMA LoginIInv == ASSUME IInv, NEW i \in Attempts, LoginAnswered(i) PROVE IInv'
<1>1. PICK outcome \in Outcomes(sent[i]) :
         /\ key' = IF outcome = "no" THEN "open" ELSE key
         /\ user' = UserAfter(outcome, sent[i])
         /\ form' = IF outcome = "yes" THEN NoForm
                    ELSE IF form.attempt = i THEN AnsweredForm ELSE form
         /\ place' = IF outcome = "yes" THEN "app" ELSE place
  BY DEF LoginAnswered
<1>2. /\ sent[i] # "none" /\ sent[i] \in Stored
      /\ sent' \in [Attempts -> Stored \cup {"none"}] /\ sent'[i] = "none"
      /\ \A j \in Attempts : j # i => sent'[j] = sent[j]
      /\ accepted' = accepted /\ ready' = ready /\ probe' = probe /\ logins' = logins
      /\ signedOut' = signedOut /\ crossed' = crossed
  BY DEF LoginAnswered, IInv, Types, history
<1>3. key' \in Stored /\ user' \in Stored \cup {"none"} /\ place' \in {"login", "app"}
  BY <1>1, <1>2, NoneIsNoKey DEF UserAfter, IInv, Types
<1>4. /\ form' \in [attempt : 0 .. MaxLogins, error : BOOLEAN]
      /\ form'.attempt # 0 => form' = form /\ form.attempt # i /\ place' = place
  BY <1>1, NoneIsNoKey DEF NoForm, AnsweredForm, IInv, Types
<1>5. form'.attempt # 0 => form'.attempt \in Attempts
  BY <1>4, NoneIsNoKey DEF Attempts
<1>6. shell' \in [Shells -> Shell]
  BY <1>3, RenderKeeps DEF LoginAnswered, IInv
<1>7. Types'
  BY <1>2, <1>3, <1>4, <1>5, <1>6 DEF IInv, Types
<1>8. Checked'
  <2> SUFFICES ASSUME ~crossed' PROVE Checked'
    BY DEF Checked
  <2>1. /\ user = "none" /\ probe = "none" /\ ~signedOut /\ sent[i] = key
        /\ \A j \in Attempts : sent'[j] = "none"
    BY <1>2 DEF IInv, Checked
  <2>2. user' # "none" => outcome = "yes" /\ user' = key /\ key' = key /\ key \in accepted
    BY <1>1, <2>1 DEF UserAfter, Outcomes
  <2> QED
    BY <1>2, <2>1, <2>2 DEF Checked
<1>9. ~crossed' => ~crossed /\ ~OnView
  BY <1>2 DEF IInv, Checked, OnView, Shown
<1> QED
  BY <1>7, <1>8, <1>9, RenderedIInv DEF LoginAnswered

LEMMA LogoutIInv == ASSUME IInv, Logout PROVE IInv'
<1>1. key' = "open" /\ user' = "none" /\ place' = "login" /\ signedOut' = TRUE
  BY DEF Logout, KeyAfterLogout
<1>2. user # "none" /\ probe = "none" /\ place = "app"
  BY DEF Logout, OnView, Shown, IInv, Types
<1>3. shell' \in [Shells -> Shell]
  BY <1>1, NoneIsNoKey, RenderKeeps DEF Logout, IInv
<1>4. Types'
  BY <1>1, <1>2, <1>3, NoneIsNoKey DEF Logout, IInv, Types
<1>5. Checked'
  BY <1>1, <1>2 DEF Logout, IInv, Checked
<1>6. ~OnView' /\ crossed' = crossed
  BY <1>1 DEF Logout, OnView, Shown
<1> QED
  BY <1>4, <1>5, <1>6, RenderedIInv DEF Logout

LEMMA OtherTabIInv == ASSUME IInv, OtherTab PROVE IInv'
<1>1. Types' /\ Checked'
  BY DEF OtherTab, IInv, Types, Checked, page
<1>2. shell' = shell /\ crossed' = TRUE /\ (OnView' <=> OnView)
  BY DEF OtherTab, OnView, Shown, page
<1> QED
  BY <1>1, <1>2, UnrenderedIInv

LEMMA SocketIInv == ASSUME IInv, Socket PROVE IInv'
<1>1. PICK s \in Shells : SocketStep(s, key)
  BY DEF Socket
<1>2. /\ shell' \in [Shells -> Shell]
      /\ \A t \in Shells : shell'[t].at = shell[t].at
      /\ \A t \in Shells : shell'[t].at # "live" =>
            shell'[t].ws # "up" /\ ~shell'[t].reconnect /\ ~shell'[t].debounce
      /\ NeverStranded'
      /\ \A t \in Shells : shell'[t].ws = "up" =>
            shell'[t].wsKey = key \/ (shell[t].ws = "up" /\ shell'[t].wsKey = shell[t].wsKey)
  BY <1>1, SocketStepKeeps DEF IInv
<1>3. OnView' <=> OnView
  BY DEF Socket, OnView, Shown, auth, page
<1>4. Hooks'
  BY <1>2, <1>3 DEF IInv, Hooks
<1>5. Types' /\ Checked'
  BY <1>2 DEF Socket, IInv, Types, Checked, auth, page, history
<1>6. SocketKeyIsUsers'
  <2> SUFFICES ASSUME NEW t \in Shells, shell'[t].ws = "up", ~crossed'
               PROVE  shell'[t].wsKey = user'
    BY DEF SocketKeyIsUsers
  <2>1. OnView /\ user # "none"
    BY <1>2 DEF IInv, Hooks, OnView, Shown
  <2>2. key = user /\ user' = user /\ ~crossed
    BY <2>1 DEF IInv, Checked, Socket, auth, history
  <2> QED
    BY <1>2, <2>2 DEF IInv, SocketKeyIsUsers
<1> QED
  BY <1>4, <1>5, <1>6 DEF IInv
-----------------------------------------------------------------------------
LEMMA NextIInv == IInv /\ [Next]_vars => IInv'
<1> SUFFICES ASSUME IInv, [Next]_vars PROVE IInv'
  OBVIOUS
<1>1. CASE UNCHANGED vars
  <2>1. Types' /\ Checked' /\ shell' = shell /\ user' = user /\ crossed' = crossed
    BY <1>1 DEF IInv, Types, Checked, vars, auth, page, history
  <2>2. OnView' <=> OnView
    BY <1>1 DEF OnView, Shown, vars, auth, page
  <2> QED
    BY <2>1, <2>2, UnrenderedIInv
<1> QED
  BY <1>1, ProbeIInv, GuardIInv, NavigateIInv, ReloadIInv, SubmitIInv, LoginIInv, LogoutIInv,
     OtherTabIInv, SocketIInv DEF Next

LEMMA SessionInvariant == Spec => []IInv
<1>1. Spec => Init /\ [][Next]_vars
  BY DEF Spec
<1> QED
  BY <1>1, InitIInv, NextIInv, PTL
-----------------------------------------------------------------------------
\* Whoever is signed in is so with the stored key, which the collector accepted.
THEOREM OnlyAccepted == Spec => []SignedInAsAccepted
<1>1. IInv => SignedInAsAccepted
  BY DEF IInv, SignedInAsAccepted, TypeOK, Types, Checked, Hooks
<1> QED
  BY <1>1, SessionInvariant, PTL

\* After signing out nobody is signed in again without a form, but on an open collector.
THEOREM SignedOutStays == Spec => []LogoutSticks
<1>1. IInv => LogoutSticks
  BY DEF IInv, LogoutSticks, Checked
<1> QED
  BY <1>1, SessionInvariant, PTL

\* The socket of auth.tsx's user carries that user's key.
THEOREM SocketsOfUser == Spec => []SocketKeyIsUsers
<1>1. IInv => SocketKeyIsUsers
  BY DEF IInv
<1> QED
  BY <1>1, SessionInvariant, PTL

\* However mounts, closes and timers interleave, one socket is in use, and what was
\* cleaned up is over.
THEOREM NeverTwoSockets == Spec => []OneSocket
<1>1. IInv => OneSocket
  BY DEF IInv, OneSocket, Hooks
<1> QED
  BY <1>1, SessionInvariant, PTL

\* A mounted shell has a socket, or a timer that will try to open one.
THEOREM SocketComesBack == Spec => []NeverStranded
<1>1. IInv => NeverStranded
  BY DEF IInv, Hooks
<1> QED
  BY <1>1, SessionInvariant, PTL
-----------------------------------------------------------------------------
(***************************************************************************)
(* The list of exceptions (LiveCache): paging through a table that grows   *)
(* at its head and shrinks at its tail skips nothing, and begins every     *)
(* group with its newest row, for every page size, cap and number of calls *)
(* and however many rows come and go.                                      *)
(*                                                                         *)
(* A row is found by its rank, the number of rows that are not older than  *)
(* it.  The rows that a call set out to read never gain in rank by what is *)
(* stored or purged: each has been received or its rank is still ahead     *)
(* (Covers), and when the answer says that the end is reached, none is     *)
(* (Totals).  Of the rows that are newer than one that was received, every *)
(* one that was there from the start was received before it (Ahead).       *)
(***************************************************************************)

(* A table and its listing.                                                *)

\* The rows that are not older than x, and their number, x's place in the listing.
NotOlder(S, x) == {y \in S : y >= x}
RankIn(S, x) == Cardinality(NotOlder(S, x))

ListingOf(S) == [p \in 1 .. Cardinality(S) |-> CHOOSE x \in S : RankIn(S, x) = p]

PageOf(S, offset) ==
    SubSeq(ListingOf(S), offset + 1, Min({offset + PageLimit, Len(ListingOf(S))}))

\* LiveCache lists its own table.
LEMMA ListingIsOfTable == Listing = ListingOf(stored)
BY DEF Listing, Rank, ListingOf, RankIn, NotOlder, Cardinality, Cardinality

\* Newer rows have smaller ranks.
LEMMA RankOrder ==
  ASSUME NEW S \in SUBSET Nat, IsFiniteSet(S)
  PROVE  /\ Cardinality(S) \in Nat
         /\ \A x \in S : RankIn(S, x) \in 1 .. Cardinality(S)
         /\ \A x, y \in S : x < y => RankIn(S, y) < RankIn(S, x)
<1>1. \A x : NotOlder(S, x) \in SUBSET S /\ IsFiniteSet(NotOlder(S, x))
  BY FS_Subset DEF NotOlder
<1>2. \A x : RankIn(S, x) \in Nat /\ RankIn(S, x) <= Cardinality(S)
  BY <1>1, FS_Subset, FS_CardinalityType DEF RankIn
<1>3. ASSUME NEW x \in S PROVE RankIn(S, x) # 0
  <2>1. x \in NotOlder(S, x)
    BY DEF NotOlder
  <2> DEFINE T == NotOlder(S, x)
  <2>2. IsFiniteSet(T) /\ T # {}
    BY <1>1, <2>1
  <2> HIDE DEF T
  <2>3. Cardinality(T) # 0
    BY <2>2, FS_EmptySet
  <2> QED
    BY <2>3 DEF RankIn, T
<1>4. ASSUME NEW x \in S, NEW y \in S, x < y PROVE RankIn(S, y) < RankIn(S, x)
  <2>1. NotOlder(S, y) \in SUBSET NotOlder(S, x)
    <3>1. \A z \in S : z >= y => z >= x
      BY <1>4
    <3> QED
      BY <3>1 DEF NotOlder
  <2>2. NotOlder(S, y) # NotOlder(S, x)
    BY <1>4 DEF NotOlder
  <2>3. RankIn(S, y) <= RankIn(S, x) /\ RankIn(S, y) # RankIn(S, x)
    BY <1>1, <2>1, <2>2, FS_Subset DEF RankIn
  <2> QED
    BY <1>2, <2>3
<1>5. Cardinality(S) \in Nat
  BY FS_CardinalityType
<1> QED
  BY <1>2, <1>3, <1>4, <1>5

\* Every place of the listing is taken, by one row.
LEMMA RankOnto ==
  ASSUME NEW S \in SUBSET Nat, IsFiniteSet(S)
  PROVE  /\ \A x, y \in S : RankIn(S, x) = RankIn(S, y) => x = y
         /\ \A p \in 1 .. Cardinality(S) : \E x \in S : RankIn(S, x) = p
<1> DEFINE n    == Cardinality(S)
           rank == [x \in S |-> RankIn(S, x)]
<1>1. n \in Nat /\ \A x \in S : RankIn(S, x) \in 1 .. n
  BY RankOrder
<1>2. \A x, y \in S : RankIn(S, x) = RankIn(S, y) => x = y
  <2> SUFFICES ASSUME NEW x \in S, NEW y \in S, x # y PROVE RankIn(S, x) # RankIn(S, y)
    OBVIOUS
  <2>1. x < y \/ y < x
    OBVIOUS
  <2>2. RankIn(S, y) < RankIn(S, x) \/ RankIn(S, x) < RankIn(S, y)
    BY <2>1, RankOrder
  <2> QED
    BY <1>1, <2>2
<1>3. rank \in Injection(S, 1 .. n)
  BY <1>1, <1>2 DEF Injection, IsInjective
<1>4. IsFiniteSet(1 .. n) /\ Cardinality(1 .. n) = n
  BY <1>1, FS_Interval
<1> HIDE DEF rank
<1>5. rank \in Surjection(S, 1 .. n)
  BY <1>3, <1>4, FS_Injection
<1>6. \A p \in 1 .. n : \E x \in S : rank[x] = p
  BY <1>5 DEF Surjection
<1> QED
  BY <1>2, <1>6 DEF rank

\* What is at each place of the listing.
LEMMA ListingFacts ==
  ASSUME NEW S \in SUBSET Nat, IsFiniteSet(S)
  PROVE  /\ ListingOf(S) \in Seq(S) /\ Len(ListingOf(S)) = Cardinality(S)
         /\ \A p \in 1 .. Cardinality(S) :
               ListingOf(S)[p] \in S /\ RankIn(S, ListingOf(S)[p]) = p
         /\ \A x \in S : ListingOf(S)[RankIn(S, x)] = x
<1>1. Cardinality(S) \in Nat
  BY RankOrder
<1>2. \A p \in 1 .. Cardinality(S) :
         ListingOf(S)[p] \in S /\ RankIn(S, ListingOf(S)[p]) = p
  BY RankOnto DEF ListingOf
<1>3. ListingOf(S) \in Seq(S) /\ Len(ListingOf(S)) = Cardinality(S)
  <2>1. ListingOf(S) \in [1 .. Cardinality(S) -> S]
    BY <1>2 DEF ListingOf
  <2> QED
    BY <1>1, <2>1
<1>4. \A x \in S : ListingOf(S)[RankIn(S, x)] = x
  <2> SUFFICES ASSUME NEW x \in S PROVE ListingOf(S)[RankIn(S, x)] = x
    OBVIOUS
  <2>1. RankIn(S, x) \in 1 .. Cardinality(S)
    BY RankOrder
  <2>2. ListingOf(S)[RankIn(S, x)] \in S /\ RankIn(S, ListingOf(S)[RankIn(S, x)]) = RankIn(S, x)
    BY <1>2, <2>1
  <2>3. \A y \in S : RankIn(S, y) = RankIn(S, x) => y = x
    BY RankOnto
  <2> QED
    BY <2>2, <2>3
<1> QED
  BY <1>2, <1>3, <1>4

\* A page has the rows whose ranks follow the offset, in that order, and is short
\* only at the end of the listing.
LEMMA PageFacts ==
  ASSUME NEW S \in SUBSET Nat, IsFiniteSet(S), NEW offset \in Nat, PageLimit \in Nat
  PROVE  /\ PageOf(S, offset) \in Seq(S)
         /\ \A i \in 1 .. Len(PageOf(S, offset)) : RankIn(S, PageOf(S, offset)[i]) = offset + i
         /\ \A x \in S : RankIn(S, x) > offset /\ RankIn(S, x) <= offset + Len(PageOf(S, offset))
                            => PageOf(S, offset)[RankIn(S, x) - offset] = x
         /\ Len(PageOf(S, offset)) < PageLimit => offset + Len(PageOf(S, offset)) >= Cardinality(S)
<1> DEFINE l    == ListingOf(S)
           n    == Cardinality(S)
           last == Min({offset + PageLimit, n})
           more == PageOf(S, offset)
<1>1. /\ n \in Nat /\ l \in Seq(S) /\ Len(l) = n
      /\ \A p \in 1 .. n : l[p] \in S /\ RankIn(S, l[p]) = p
      /\ \A x \in S : l[RankIn(S, x)] = x
  BY RankOrder, ListingFacts
<1>2. last \in {offset + PageLimit, n} /\ last <= offset + PageLimit /\ last <= n
  BY <1>1 DEF Min
<1>3. more = SubSeq(l, offset + 1, last)
  BY <1>1 DEF PageOf
<1> HIDE DEF l, n, last, more
<1>4. /\ more \in Seq(S) /\ Len(more) = IF offset + 1 <= last THEN last - offset ELSE 0
      /\ \A i \in 1 .. Len(more) : more[i] = l[offset + i]
  <2>1. last \in Nat /\ \A i \in offset + 1 .. last : l[i] \in S
    BY <1>1, <1>2
  <2>2. /\ more \in Seq(S)
        /\ Len(more) = IF offset + 1 <= last THEN last - (offset + 1) + 1 ELSE 0
        /\ \A i \in 1 .. last - (offset + 1) + 1 : more[i] = l[offset + 1 + i - 1]
    BY <1>3, <2>1, SubSeqProperties
  <2> QED
    BY <2>1, <2>2
<1>5. ASSUME NEW i \in 1 .. Len(more) PROVE RankIn(S, more[i]) = offset + i
  <2>1. offset + i \in 1 .. n
    BY <1>1, <1>2, <1>4
  <2> QED
    BY <1>1, <1>4, <2>1
<1>6. ASSUME NEW x \in S, RankIn(S, x) > offset, RankIn(S, x) <= offset + Len(more)
      PROVE  more[RankIn(S, x) - offset] = x
  <2>1. RankIn(S, x) \in Nat
    BY RankOrder
  <2>2. RankIn(S, x) - offset \in 1 .. Len(more) /\ offset + (RankIn(S, x) - offset) = RankIn(S, x)
    BY <1>4, <1>6, <2>1
  <2> QED
    BY <1>1, <1>4, <2>2
<1>7. Len(more) < PageLimit => offset + Len(more) >= n
  BY <1>1, <1>2, <1>4
<1> QED
  BY <1>4, <1>5, <1>6, <1>7 DEF more, n
-----------------------------------------------------------------------------
(* What a call has read of a table S.                                      *)

Call == [at : {"idle", "asked", "listed", "read"}, out : Seq(Nat), page : Seq(Nat),
         total : Nat, head : Nat, torn : BOOLEAN]

\* What the call has received, the page at hand included.
Rows(r) == r.out \o r.page

In(s, x) == \E i \in 1 .. Len(s) : s[i] = x

\* What was stored when the first page was read has been received, or is further
\* down the listing.
Covers(S, r) == \A x \in S : x <= r.head => In(Rows(r), x) \/ RankIn(S, x) > Len(Rows(r))

\* What the length of the page and the total of its answer say.
Totals(S, r) ==
    /\ r.at \in {"listed", "read"} /\ Len(r.page) < PageLimit =>
          \A x \in S : x <= r.head => In(Rows(r), x)
    /\ r.at = "read" =>
          \A x \in S : x <= r.head => In(Rows(r), x) \/ r.total > Len(Rows(r))

\* All that is newer than a row of s, and not than h, comes before that row.
Ahead(S, s, h) ==
    \A i \in 1 .. Len(s), y \in S : y <= h /\ y > s[i] => \E k \in 1 .. i : s[k] = y

FirstIsNewest(s) ==
    \A i, j \in 1 .. Len(s) : i < j /\ s[i] < s[j] => \E k \in 1 .. i : s[k] = s[j]

ReadWell(S, r) ==
    /\ r.at \notin {"listed", "read"} => r.page = <<>>
    /\ Covers(S, r)
    /\ Totals(S, r)
    /\ Ahead(S, Rows(r), r.head)
    /\ ~r.torn => FirstIsNewest(Rows(r))

\* The fields of a call.
LEMMA CallFields ==
  ASSUME NEW r \in Call
  PROVE  /\ r.at \in {"idle", "asked", "listed", "read"} /\ r.out \in Seq(Nat) /\ r.page \in Seq(Nat)
         /\ r.total \in Nat /\ r.head \in Nat /\ r.torn \in BOOLEAN
         /\ Rows(r) \in Seq(Nat) /\ Len(Rows(r)) = Len(r.out) + Len(r.page)
<1>1. r.out \in Seq(Nat) /\ r.page \in Seq(Nat)
  BY DEF Call
<1>2. Rows(r) \in Seq(Nat) /\ Len(Rows(r)) = Len(r.out) + Len(r.page)
  BY <1>1, ConcatProperties DEF Rows
<1> QED
  BY <1>1, <1>2 DEF Call

\* A call that has received nothing.
LEMMA NothingRead ==
  ASSUME NEW S \in SUBSET Nat, 0 \notin S, NEW r \in Call,
         r.at \notin {"listed", "read"}, r.out = <<>>, r.page = <<>>, r.head = 0
  PROVE  ReadWell(S, r)
<1>1. Rows(r) = <<>> /\ Len(Rows(r)) = 0
  BY DEF Rows
<1>2. \A x \in S : ~(x <= r.head)
  OBVIOUS
<1>3. Covers(S, r)
  BY <1>1, <1>2 DEF Covers
<1>4. Totals(S, r)
  BY <1>1, <1>2 DEF Totals
<1>5. Ahead(S, Rows(r), r.head)
  BY <1>1, <1>2 DEF Ahead
<1>6. FirstIsNewest(Rows(r))
  BY <1>1 DEF FirstIsNewest
<1> QED
  BY <1>3, <1>4, <1>5, <1>6 DEF ReadWell

\* The table changes under a call, at its head and at its tail.
LEMMA TableMoves ==
  ASSUME NEW S \in SUBSET Nat, NEW T \in SUBSET Nat, IsFiniteSet(S), IsFiniteSet(T),
         NEW r \in Call, NEW q \in Call, ReadWell(S, r),
         q.at = r.at, q.out = r.out, q.page = r.page, q.total = r.total, q.head = r.head,
         ~q.torn => ~r.torn,
         \A x \in T : x <= r.head => x \in S /\ RankIn(S, x) <= RankIn(T, x)
  PROVE  ReadWell(T, q)
<1>1. Rows(q) = Rows(r) /\ Len(Rows(r)) \in Nat
  <2>1. Rows(r) \in Seq(Nat)
    BY CallFields
  <2> QED
    BY <2>1, LenProperties DEF Rows
<1>2. \A x \in S : RankIn(S, x) \in Nat
  BY RankOrder
<1>3. \A x \in T : RankIn(T, x) \in Nat
  BY RankOrder
<1>4. Covers(T, q)
  BY <1>1, <1>2, <1>3 DEF ReadWell, Covers
<1>5. Totals(T, q)
  BY <1>1 DEF ReadWell, Totals
<1>6. Ahead(T, Rows(q), q.head)
  BY <1>1 DEF ReadWell, Ahead
<1> QED
  BY <1>1, <1>4, <1>5, <1>6 DEF ReadWell

\* The next page is asked for: what has been received stays.
LEMMA AsksNext ==
  ASSUME NEW S \in SUBSET Nat, NEW r \in Call, NEW q \in Call, ReadWell(S, r),
         q.at = "asked", q.out = Rows(r), q.page = <<>>, q.head = r.head, q.torn = r.torn
  PROVE  ReadWell(S, q)
<1>1. Rows(q) = Rows(r)
  BY CallFields, ConcatEmptySeq DEF Rows
<1> QED
  BY <1>1 DEF ReadWell, Covers, Totals

\* The listing is followed from the place after what has been received: with the page
\* every row up to its end has been received, and the first time in order.
Follows(n, S, out, o, more, h) ==
    /\ n \in Nat /\ h \in Nat /\ h <= n
    /\ S \in SUBSET Nat /\ IsFiniteSet(S) /\ \A x \in S : x <= n
    /\ out \in Seq(Nat) /\ more \in Seq(Nat) /\ o \in Nat /\ o = Len(out)
    /\ \A i \in 1 .. Len(more) : more[i] \in S /\ RankIn(S, more[i]) = o + i
    /\ \A x \in S : RankIn(S, x) > o /\ RankIn(S, x) <= o + Len(more)
                        => more[RankIn(S, x) - o] = x
    /\ o # 0 => \A x \in S : x <= h => In(out, x) \/ RankIn(S, x) > o
    /\ o # 0 => Ahead(S, out, h)

LEMMA PageFollows ==
  ASSUME NEW n, NEW S, NEW out, NEW o, NEW more, NEW h, Follows(n, S, out, o, more, h),
         NEW w, w = out \o more
  PROVE  /\ \A x \in S : x <= h => In(w, x) \/ RankIn(S, x) > Len(w)
         /\ Ahead(S, w, h)
         /\ n <= h + o /\ FirstIsNewest(out) => FirstIsNewest(w)
<1>a. /\ n \in Nat /\ h \in Nat /\ h <= n
      /\ S \in SUBSET Nat /\ IsFiniteSet(S) /\ \A x \in S : x <= n
      /\ out \in Seq(Nat) /\ more \in Seq(Nat) /\ o \in Nat /\ o = Len(out)
      /\ \A i \in 1 .. Len(more) : more[i] \in S /\ RankIn(S, more[i]) = o + i
      /\ \A x \in S : RankIn(S, x) > o /\ RankIn(S, x) <= o + Len(more)
                          => more[RankIn(S, x) - o] = x
      /\ o # 0 => \A x \in S : x <= h => In(out, x) \/ RankIn(S, x) > o
      /\ o # 0 => Ahead(S, out, h)
  BY DEF Follows
<1> USE <1>a
<1>1. Len(more) \in Nat /\ Len(w) = o + Len(more) /\ Len(w) \in Nat /\ w \in Seq(Nat)
  BY ConcatProperties, LenProperties
<1>2. /\ \A i \in 1 .. o : w[i] = out[i]
      /\ \A i \in 1 .. Len(w) : i > o => w[i] = more[i - o] /\ i - o \in 1 .. Len(more)
  <2>1. \A i \in 1 .. o + Len(more) : w[i] = IF i <= o THEN out[i] ELSE more[i - o]
    BY <1>1, ConcatProperties
  <2>2. \A i \in 1 .. o : i \in 1 .. o + Len(more)
    BY <1>1
  <2>3. \A i \in 1 .. Len(w) : i > o => i \in 1 .. o + Len(more) /\ i - o \in 1 .. Len(more) /\ ~(i <= o)
    BY <1>1
  <2> QED
    BY <2>1, <2>2, <2>3
<1>3. /\ Cardinality(S) \in Nat
      /\ \A x \in S : RankIn(S, x) \in Nat /\ 1 <= RankIn(S, x) /\ RankIn(S, x) <= Cardinality(S)
      /\ \A x, y \in S : x < y => RankIn(S, y) < RankIn(S, x)
  BY RankOrder
<1>4. \A i \in 1 .. Len(w) : i > o => w[i] \in S /\ RankIn(S, w[i]) = i
  <2> SUFFICES ASSUME NEW i \in 1 .. Len(w), i > o PROVE w[i] \in S /\ RankIn(S, w[i]) = i
    OBVIOUS
  <2>1. w[i] = more[i - o] /\ i - o \in 1 .. Len(more)
    BY <1>2
  <2>2. RankIn(S, more[i - o]) = o + (i - o) /\ more[i - o] \in S
    BY <2>1
  <2>3. o + (i - o) = i
    BY <1>1
  <2> QED
    BY <2>1, <2>2, <2>3
<1>5. \A x \in S : RankIn(S, x) > o /\ RankIn(S, x) <= Len(w)
                      => w[RankIn(S, x)] = x /\ RankIn(S, x) \in 1 .. Len(w)
  <2> SUFFICES ASSUME NEW x \in S, RankIn(S, x) > o, RankIn(S, x) <= Len(w)
               PROVE  w[RankIn(S, x)] = x /\ RankIn(S, x) \in 1 .. Len(w)
    OBVIOUS
  <2> DEFINE p == RankIn(S, x)
  <2>1. more[p - o] = x /\ p \in Nat /\ 1 <= p /\ p > o /\ p <= Len(w)
    BY <1>1, <1>3
  <2> HIDE DEF p
  <2>2. p \in 1 .. Len(w)
    BY <1>1, <2>1
  <2>3. w[p] = x
    BY <1>2, <2>1, <2>2
  <2> QED
    BY <2>2, <2>3 DEF p
<1>6. \A x \in S : x <= h /\ RankIn(S, x) <= o => \E k \in 1 .. o : w[k] = x
  <2> SUFFICES ASSUME NEW x \in S, x <= h, RankIn(S, x) <= o
               PROVE  \E k \in 1 .. o : w[k] = x
    OBVIOUS
  <2>1. o # 0 /\ ~(RankIn(S, x) > o)
    BY <1>3
  <2>2. In(out, x)
    BY <2>1
  <2> QED
    BY <1>2, <2>2 DEF In
<1>7. ASSUME NEW x \in S, x <= h, ~(RankIn(S, x) > Len(w)) PROVE In(w, x)
  <2>1. CASE RankIn(S, x) <= o
    <3>1. PICK k \in 1 .. o : w[k] = x
      BY <1>6, <1>7, <2>1
    <3>2. k \in 1 .. Len(w)
      BY <1>1
    <3> QED
      BY <3>1, <3>2 DEF In
  <2>2. CASE RankIn(S, x) > o
    <3>1. RankIn(S, x) <= Len(w)
      BY <1>1, <1>3, <1>7
    <3>2. w[RankIn(S, x)] = x /\ RankIn(S, x) \in 1 .. Len(w)
      BY <1>5, <2>2, <3>1
    <3> QED
      BY <3>2 DEF In
  <2>3. RankIn(S, x) <= o \/ RankIn(S, x) > o
    BY <1>3
  <2> QED
    BY <2>1, <2>2, <2>3
<1>8. ASSUME NEW i \in 1 .. Len(w), NEW y \in S, y <= h, y > w[i]
      PROVE  \E k \in 1 .. i : w[k] = y
  <2>1. CASE i <= o
    <3>1. i \in 1 .. o /\ o # 0
      BY <1>1, <2>1
    <3>2. w[i] = out[i]
      BY <1>2, <3>1
    <3>3. PICK k \in 1 .. i : out[k] = y
      BY <1>8, <3>1, <3>2 DEF Ahead
    <3>4. k \in 1 .. o
      BY <1>1, <2>1
    <3> QED
      BY <1>2, <3>3, <3>4
  <2>2. CASE i > o
    <3>1. w[i] \in S /\ RankIn(S, w[i]) = i
      BY <1>4, <2>2
    <3>2. w[i] < y
      BY <1>8, <3>1
    <3>3. RankIn(S, y) < i /\ RankIn(S, y) \in Nat /\ 1 <= RankIn(S, y)
      BY <1>3, <3>1, <3>2
    <3>4. CASE RankIn(S, y) <= o
      <4>0. y \in S /\ y <= h
        BY <1>8
      <4>1. PICK k \in 1 .. o : w[k] = y
        BY <1>6, <3>4, <4>0
      <4>2. \A m \in 1 .. o : m \in 1 .. i
        BY <1>1, <2>2
      <4> QED
        BY <4>1, <4>2
    <3>5. CASE RankIn(S, y) > o
      <4> DEFINE p == RankIn(S, y)
                 m == Len(w)
      <4>0. i \in 1 .. m /\ m \in Nat /\ p < i /\ p \in Nat /\ 1 <= p
        BY <1>1, <3>3
      <4> HIDE DEF p, m
      <4>a. p <= m /\ p \in 1 .. i
        BY <4>0
      <4>1. RankIn(S, y) <= Len(w) /\ RankIn(S, y) \in 1 .. i
        BY <4>a DEF p, m
      <4>2. w[RankIn(S, y)] = y
        BY <1>5, <3>5, <4>1
      <4> QED
        BY <4>1, <4>2
    <3>6. RankIn(S, y) <= o \/ RankIn(S, y) > o
      BY <3>3
    <3> QED
      BY <3>4, <3>5, <3>6
  <2>3. i <= o \/ i > o
    BY <1>1
  <2> QED
    BY <2>1, <2>2, <2>3
<1>9. ASSUME n <= h + o, FirstIsNewest(out),
             NEW i \in 1 .. Len(w), NEW j \in 1 .. Len(w), i < j, w[i] < w[j]
      PROVE  \E k \in 1 .. i : w[k] = w[j]
  <2>1. CASE j <= o
    <3>1. i \in 1 .. o /\ j \in 1 .. o
      BY <1>1, <1>9, <2>1
    <3>2. w[i] = out[i] /\ w[j] = out[j]
      BY <1>2, <3>1
    <3>3. PICK k \in 1 .. i : out[k] = out[j]
      BY <1>9, <3>1, <3>2 DEF FirstIsNewest
    <3>4. k \in 1 .. o
      BY <1>1, <3>1
    <3> QED
      BY <1>2, <3>2, <3>3, <3>4
  <2>2. CASE j > o
    <3> DEFINE y == w[j]
    <3>1. y \in S /\ y \in Nat /\ RankIn(S, y) = j
      BY <1>4, <2>2
    <3> HIDE DEF y
    <3>2. ASSUME y > h PROVE FALSE
      <4>1. \A z \in S : z >= y => z \in h + 1 .. n
        BY <3>1, <3>2
      <4>2. NotOlder(S, y) \in SUBSET (h + 1 .. n)
        BY <4>1 DEF NotOlder
      <4>3. h + 1 \in Int /\ n \in Int
        OBVIOUS
      <4>4. IsFiniteSet(h + 1 .. n)
        BY <4>3, FS_Interval
      <4>5. Cardinality(h + 1 .. n) = IF h + 1 > n THEN 0 ELSE n - (h + 1) + 1
        BY <4>3, FS_Interval
      <4>6. RankIn(S, y) <= Cardinality(h + 1 .. n)
        BY <4>2, <4>4, FS_Subset DEF RankIn
      <4> QED
        BY <1>1, <1>9, <2>2, <3>1, <4>5, <4>6
    <3>3. y <= h
      BY <3>1, <3>2
    <3>4. y > w[i]
      BY <1>1, <1>9, <3>1 DEF y
    <3> QED
      BY <1>8, <3>1, <3>3, <3>4 DEF y
  <2>3. j <= o \/ j > o
    BY <1>1
  <2> QED
    BY <2>1, <2>2, <2>3
<1>10. Ahead(S, w, h)
  BY <1>8 DEF Ahead
<1>11. ASSUME n <= h + o, FirstIsNewest(out) PROVE FirstIsNewest(w)
  BY <1>9, <1>11 DEF FirstIsNewest
<1> QED
  BY <1>7, <1>10, <1>11

\* A page is read.  Rows stored since the first page push the listing down, so that the
\* page may begin with rows that have been received, but it never skips one.
LEMMA ReadsPage ==
  ASSUME NEW n \in Nat, NEW S \in SUBSET Nat, IsFiniteSet(S), \A x \in S : x <= n,
         PageLimit \in Nat,
         NEW r \in Call, r.head <= n, r.at = "asked", ReadWell(S, r),
         NEW q \in Call, q.at = "listed", q.out = r.out, q.page = PageOf(S, Len(r.out)),
         r.out = <<>> => q.head = n,
         r.out # <<>> => q.head = r.head,
         ~q.torn => ~r.torn /\ n <= q.head + Len(r.out)
  PROVE  ReadWell(S, q)
<1> DEFINE out  == r.out
           more == q.page
           o    == Len(r.out)
           h    == q.head
           w    == Rows(q)
<1>1. /\ out \in Seq(Nat) /\ more \in Seq(Nat) /\ h \in Nat /\ o \in Nat /\ Len(more) \in Nat
      /\ Len(w) = o + Len(more) /\ w = out \o more /\ Rows(r) = out
  <2>1. r.out \in Seq(Nat) /\ q.page \in Seq(Nat) /\ q.head \in Nat /\ r.page = <<>>
    BY CallFields DEF ReadWell
  <2>2. Rows(r) = r.out
    BY <2>1, ConcatEmptySeq DEF Rows
  <2>3. Len(Rows(q)) = Len(q.out) + Len(q.page)
    BY CallFields
  <2> QED
    BY <2>1, <2>2, <2>3, LenProperties DEF Rows
<1>2. h <= n
  BY <1>1
<1>3. more = PageOf(S, o)
  OBVIOUS
<1>4. o # 0 <=> out # <<>>
  BY <1>1, EmptySeq
<1>5. o # 0 => /\ \A x \in S : x <= h => In(out, x) \/ RankIn(S, x) > o
               /\ Ahead(S, out, h)
  BY <1>1, <1>4 DEF ReadWell, Covers
<1>6. ~q.torn => n <= h + o /\ FirstIsNewest(out)
  BY <1>1 DEF ReadWell
<1>7. /\ more \in Seq(S)
      /\ \A i \in 1 .. Len(more) : RankIn(S, more[i]) = o + i
      /\ \A x \in S : RankIn(S, x) > o /\ RankIn(S, x) <= o + Len(more)
                            => more[RankIn(S, x) - o] = x
      /\ Len(more) < PageLimit => o + Len(more) >= Cardinality(S)
  <2>1. o \in Nat
    BY <1>1
  <2> HIDE DEF more, o
  <2>2. /\ PageOf(S, o) \in Seq(S)
        /\ \A i \in 1 .. Len(PageOf(S, o)) : RankIn(S, PageOf(S, o)[i]) = o + i
        /\ \A x \in S : RankIn(S, x) > o /\ RankIn(S, x) <= o + Len(PageOf(S, o))
                              => PageOf(S, o)[RankIn(S, x) - o] = x
        /\ Len(PageOf(S, o)) < PageLimit => o + Len(PageOf(S, o)) >= Cardinality(S)
    BY <2>1, PageFacts
  <2> QED
    BY <1>3, <2>2
<1>8. Cardinality(S) \in Nat /\ \A x \in S : RankIn(S, x) \in Nat /\ RankIn(S, x) <= Cardinality(S)
  BY RankOrder
<1> HIDE DEF out, more, o, h, w
<1>9. \A i \in 1 .. Len(more) : more[i] \in S /\ RankIn(S, more[i]) = o + i
  BY <1>7
<1>10. /\ \A x \in S : x <= h => In(w, x) \/ RankIn(S, x) > Len(w)
       /\ Ahead(S, w, h)
       /\ n <= h + o /\ FirstIsNewest(out) => FirstIsNewest(w)
  <2>1. o = Len(out)
    BY DEF o, out
  <2>2. /\ out \in Seq(Nat) /\ more \in Seq(Nat) /\ h \in Nat /\ o \in Nat /\ w = out \o more
    BY <1>1
  <2>3. o # 0 => \A x \in S : x <= h => In(out, x) \/ RankIn(S, x) > o
    BY <1>5
  <2>4. o # 0 => Ahead(S, out, h)
    BY <1>5
  <2>5. \A x \in S : RankIn(S, x) > o /\ RankIn(S, x) <= o + Len(more)
                         => more[RankIn(S, x) - o] = x
    BY <1>7
  <2>6. Follows(n, S, out, o, more, h)
    BY <1>2, <1>9, <2>1, <2>2, <2>3, <2>4, <2>5 DEF Follows
  <2> QED
    BY <2>2, <2>6, PageFollows
<1>11. ASSUME NEW x \in S, x <= h, ~In(w, x) PROVE Cardinality(S) > Len(w)
  <2>1. RankIn(S, x) > Len(w)
    BY <1>10, <1>11
  <2>2. Len(w) \in Nat
    BY <1>1
  <2> QED
    BY <1>8, <2>1, <2>2
<1>12. Covers(S, q)
  BY <1>10 DEF Covers, w, h
<1>13. Totals(S, q)
  <2>1. ASSUME Len(more) < PageLimit, NEW x \in S, x <= h PROVE In(w, x)
    <3>1. ~(Cardinality(S) > Len(w))
      BY <1>1, <1>7, <1>8, <2>1
    <3> QED
      BY <1>11, <2>1, <3>1
  <2> QED
    BY <2>1 DEF Totals, w, h, more
<1>14. Ahead(S, Rows(q), q.head) /\ (~q.torn => FirstIsNewest(Rows(q)))
  BY <1>6, <1>10 DEF w, h
<1> QED
  BY <1>12, <1>13, <1>14 DEF ReadWell

\* The last page is read: nothing is missing.
LEMMA NothingMissing ==
  ASSUME NEW S \in SUBSET Nat, NEW r \in Call, r.at = "read", ReadWell(S, r),
         Cap \in Nat, PageLimit \in Nat, LastPage(r.page, Rows(r), r.total)
  PROVE  Len(Rows(r)) >= Cap \/ \A x \in S : x <= r.head => In(Rows(r), x)
<1>1. Len(Rows(r)) \in Nat /\ r.total \in Nat
  <2>1. Rows(r) \in Seq(Nat) /\ r.total \in Nat
    BY CallFields
  <2> QED
    BY <2>1, LenProperties
<1>2. /\ Len(r.page) < PageLimit => \A x \in S : x <= r.head => In(Rows(r), x)
      /\ \A x \in S : x <= r.head => In(Rows(r), x) \/ r.total > Len(Rows(r))
  BY DEF ReadWell, Totals
<1>3. CASE Len(Rows(r)) >= r.total
  <2>1. ~(r.total > Len(Rows(r)))
    BY <1>1, <1>3
  <2> QED
    BY <1>2, <2>1
<1> QED
  BY <1>2, <1>3 DEF LastPage
-----------------------------------------------------------------------------
(* The steps.                                                              *)

Table ==
    /\ lastId \in Nat
    /\ stored \in SUBSET Nat /\ IsFiniteSet(stored)
    /\ \A x \in stored : 1 <= x /\ x <= lastId

Reading(c) ==
    /\ call[c] \in Call
    /\ call[c].head <= lastId
    /\ ReadWell(stored, call[c])

LiveInv ==
    /\ Table
    /\ DOMAIN call = Calls
    /\ \A c \in Calls : Reading(c)

\* The collector's steps: what is new in the table is newer than all that was given.
LEMMA TableStep ==
  ASSUME LiveInv, Table', lastId <= lastId', DOMAIN call' = Calls,
         \A x \in stored' : x <= lastId => x \in stored /\ RankIn(stored, x) <= RankIn(stored', x),
         \A c \in Calls : /\ call'[c] \in Call
                          /\ call'[c].at = call[c].at /\ call'[c].out = call[c].out
                          /\ call'[c].page = call[c].page /\ call'[c].total = call[c].total
                          /\ call'[c].head = call[c].head /\ (~call'[c].torn => ~call[c].torn)
  PROVE  LiveInv'
<1> SUFFICES ASSUME NEW c \in Calls PROVE Reading(c)'
  BY DEF LiveInv
<1>1. call[c] \in Call /\ call[c].head <= lastId /\ ReadWell(stored, call[c])
  BY DEF LiveInv, Reading
<1>2. /\ stored \in SUBSET Nat /\ IsFiniteSet(stored) /\ lastId \in Nat
      /\ stored' \in SUBSET Nat /\ IsFiniteSet(stored') /\ lastId' \in Nat
  BY DEF LiveInv, Table
<1>3. call[c].head \in Nat
  BY <1>1, CallFields
<1>4. \A x \in stored' : x <= call[c].head => x \in stored /\ RankIn(stored, x) <= RankIn(stored', x)
  BY <1>1, <1>2, <1>3
<1>5. ReadWell(stored', call'[c])
  BY <1>1, <1>2, <1>4, TableMoves
<1>6. call'[c].head <= lastId'
  BY <1>1, <1>2, <1>3
<1> QED
  BY <1>5, <1>6 DEF Reading

\* A new row is not older than any first page; the rows that are older move down.
LEMMA InsertKeeps == ASSUME LiveInv, Insert PROVE LiveInv'
<1>1. lastId' = lastId + 1 /\ stored' = stored \cup {lastId + 1} /\ call' = call
  BY DEF Insert
<1>2. Table' /\ lastId <= lastId'
  <2>1. IsFiniteSet(stored')
    BY <1>1, FS_AddElement DEF LiveInv, Table
  <2> QED
    BY <1>1, <2>1 DEF LiveInv, Table
<1>3. ASSUME NEW x \in stored', x <= lastId
      PROVE  x \in stored /\ RankIn(stored, x) <= RankIn(stored', x)
  <2>1. NotOlder(stored, x) \in SUBSET NotOlder(stored', x)
    BY <1>1 DEF NotOlder
  <2>2. NotOlder(stored', x) \in SUBSET stored' /\ IsFiniteSet(stored')
    BY <1>2 DEF NotOlder, Table
  <2>3. IsFiniteSet(NotOlder(stored', x))
    BY <2>2, FS_Subset
  <2>4. RankIn(stored, x) <= RankIn(stored', x)
    BY <2>1, <2>3, FS_Subset DEF RankIn
  <2> QED
    BY <1>1, <1>3, <2>4 DEF LiveInv, Table
<1> QED
  BY <1>1, <1>2, <1>3, TableStep DEF LiveInv, Reading

\* Retention takes the end of the listing: the other rows keep their places.
LEMMA PurgeKeeps == ASSUME LiveInv, Purge PROVE LiveInv'
<1>1. PICK old \in stored : stored' = {id \in stored : id > old}
  BY DEF Purge
<1>2. UNCHANGED <<lastId, call>>
  BY DEF Purge
<1>3. Table' /\ lastId <= lastId'
  <2>1. IsFiniteSet(stored')
    BY <1>1, FS_Subset DEF LiveInv, Table
  <2>2. stored' \in SUBSET Nat /\ (\A x \in stored' : 1 <= x /\ x <= lastId)
    BY <1>1 DEF LiveInv, Table
  <2>3. lastId' = lastId /\ lastId \in Nat
    BY <1>2 DEF LiveInv, Table
  <2> QED
    BY <2>1, <2>2, <2>3 DEF Table
<1>4. ASSUME NEW x \in stored', x <= lastId
      PROVE  x \in stored /\ RankIn(stored, x) <= RankIn(stored', x)
  <2>1. x \in stored /\ x > old /\ x \in Nat /\ old \in Nat /\ stored \in SUBSET Nat
    BY <1>1, <1>4 DEF LiveInv, Table
  <2>2. \A y \in stored : y >= x => y > old
    BY <2>1
  <2>3. NotOlder(stored', x) = NotOlder(stored, x)
    BY <1>1, <2>2 DEF NotOlder
  <2>4. RankIn(stored', x) \in Nat
    BY <1>3, <1>4, RankOrder DEF Table
  <2> QED
    BY <2>1, <2>3, <2>4 DEF RankIn
<1> QED
  BY <1>2, <1>3, <1>4, TableStep DEF LiveInv, Reading

\* A reset leaves nothing that could be missed, and marks the calls under way.
LEMMA WipeKeeps == ASSUME LiveInv, Wipe PROVE LiveInv'
<1>1. /\ stored' = {} /\ lastId' = lastId
      /\ call' = [c \in Calls |-> IF call[c].at = "idle" THEN call[c]
                                  ELSE [call[c] EXCEPT !.torn = TRUE]]
  BY DEF Wipe
<1>2. Table' /\ lastId <= lastId'
  BY <1>1, FS_EmptySet DEF LiveInv, Table
<1>3. DOMAIN call' = Calls
  BY <1>1
<1>4. ASSUME NEW c \in Calls
      PROVE  /\ call'[c] \in Call
             /\ call'[c].at = call[c].at /\ call'[c].out = call[c].out
             /\ call'[c].page = call[c].page /\ call'[c].total = call[c].total
             /\ call'[c].head = call[c].head /\ (~call'[c].torn => ~call[c].torn)
  <2>1. call[c] \in Call
    BY DEF LiveInv, Reading
  <2>2. call'[c] = call[c] \/ call'[c] = [call[c] EXCEPT !.torn = TRUE]
    BY <1>1
  <2> QED
    BY <2>1, <2>2 DEF Call
<1> QED
  BY <1>1, <1>2, <1>3, <1>4, TableStep

\* The client's steps: the table stays, and each call's reading goes well.
LEMMA ClientStep ==
  ASSUME LiveInv, stored' = stored, lastId' = lastId, DOMAIN call' = Calls,
         \A c \in Calls : \/ call'[c] = call[c]
                          \/ /\ call'[c] \in Call /\ call'[c].head <= lastId
                             /\ ReadWell(stored, call'[c])
  PROVE  LiveInv'
BY DEF LiveInv, Table, Reading

\* A call that begins or is over has received nothing.
LEMMA FreshCall ==
  ASSUME LiveInv, NEW r \in {IdleCall, [IdleCall EXCEPT !.at = "asked"]}
  PROVE  r \in Call /\ r.head <= lastId /\ ReadWell(stored, r)
<1>1. r \in Call /\ r.at \notin {"listed", "read"} /\ r.out = <<>> /\ r.page = <<>> /\ r.head = 0
  <2>1. CASE r = IdleCall
    BY <2>1 DEF IdleCall, Call
  <2>2. CASE r = [IdleCall EXCEPT !.at = "asked"]
    <3>1. r = [at |-> "asked", out |-> <<>>, page |-> <<>>, total |-> 0, head |-> 0, torn |-> FALSE]
      BY <2>2 DEF IdleCall
    <3> QED
      BY <3>1 DEF Call
  <2> QED
    BY <2>1, <2>2
<1>2. stored \in SUBSET Nat /\ 0 \notin stored /\ lastId \in Nat
  BY DEF LiveInv, Table
<1> QED
  BY <1>1, <1>2, NothingRead

\* A query is answered from the cache or begins a call.
LEMMA FetchKeeps ==
  ASSUME LiveInv, NEW cache, Fetch(cache), stored' = stored, lastId' = lastId
  PROVE  LiveInv'
<1>1. CASE cache.fresh
  BY <1>1, ClientStep DEF Fetch, LiveInv
<1>2. CASE ~cache.fresh
  <2> DEFINE c == FreeCall
             r == [IdleCall EXCEPT !.at = "asked"]
  <2>1. call' = [call EXCEPT ![c] = r]
    BY <1>2 DEF Fetch
  <2>2. r \in Call /\ r.head <= lastId /\ ReadWell(stored, r)
    BY FreshCall
  <2> HIDE DEF c, r
  <2>3. DOMAIN call' = Calls /\ \A d \in Calls : call'[d] = call[d] \/ call'[d] = r
    BY <2>1 DEF LiveInv
  <2> QED
    BY <2>2, <2>3, ClientStep
<1> QED
  BY <1>1, <1>2

LEMMA RefetchKeeps ==
  ASSUME LiveInv, NEW cache, Refetch(cache), stored' = stored, lastId' = lastId
  PROVE  LiveInv'
<1>1. CASE Fetch(cache)
  BY <1>1, FetchKeeps
<1>2. CASE call' = call
  BY <1>2, ClientStep DEF LiveInv
<1> QED
  BY <1>1, <1>2 DEF Refetch

\* A sequence of elements of a set is one of any larger set.
LEMMA WiderSeq ==
  ASSUME NEW S, NEW T, S \subseteq T, NEW s \in Seq(S)
  PROVE  s \in Seq(T)
<1>1. Len(s) \in Nat /\ s \in [1 .. Len(s) -> S]
  BY LenProperties
<1>2. s \in [1 .. Len(s) -> T]
  BY <1>1
<1> QED
  BY <1>1, <1>2, SeqDef

\* Reading a page, field by field.
LEMMA PageReadFields ==
  ASSUME LiveInv, PageLimit \in Nat, NEW c \in Calls, PageRead(c)
  PROVE  /\ stored' = stored /\ lastId' = lastId /\ DOMAIN call' = Calls
         /\ \A d \in Calls : d # c => call'[d] = call[d]
         /\ call[c].at = "asked"
         /\ call'[c] \in Call
         /\ call'[c].at = "listed" /\ call'[c].out = call[c].out
         /\ call'[c].page = PageOf(stored, Len(call[c].out))
         /\ call'[c].head = IF call[c].out = <<>> THEN lastId ELSE call[c].head
         /\ call'[c].torn = (call[c].torn \/ lastId > call'[c].head + Len(call[c].out))
<1> DEFINE r    == call[c]
           k    == Len(r.out)
           more == PageOf(stored, k)
           h    == IF r.out = <<>> THEN lastId ELSE r.head
           b    == r.torn \/ lastId > h + k
           z    == [r EXCEPT !.at = "listed", !.page = more, !.head = h, !.torn = b]
<1>1. /\ r \in Call /\ DOMAIN call = Calls /\ lastId \in Nat
      /\ stored \in SUBSET Nat /\ IsFiniteSet(stored)
  BY DEF LiveInv, Table, Reading
<1>2. /\ r.at \in {"idle", "asked", "listed", "read"} /\ r.out \in Seq(Nat) /\ r.head \in Nat
      /\ r.torn \in BOOLEAN /\ k \in Nat
  BY <1>1, CallFields, LenProperties
<1>3. SubSeq(Listing, k + 1, Min({k + PageLimit, Len(Listing)})) = more
  BY ListingIsOfTable DEF PageOf
<1>4. more \in Seq(Nat)
  <2> HIDE DEF k
  <2>1. more \in Seq(stored)
    BY <1>1, <1>2, PageFacts
  <2> HIDE DEF more
  <2> QED
    BY <1>1, <2>1, WiderSeq
<1>5. call' = [call EXCEPT ![c] = z] /\ r.at = "asked" /\ stored' = stored /\ lastId' = lastId
  <2> DEFINE s == SubSeq(Listing, k + 1, Min({k + PageLimit, Len(Listing)}))
  <2>1. s = more
    BY <1>3
  <2>2. /\ r.at = "asked"
        /\ call' = [call EXCEPT ![c] = [r EXCEPT !.at = "listed", !.page = s,
                                               !.head = h, !.torn = b]]
        /\ stored' = stored /\ lastId' = lastId
    BY DEF PageRead, Offset, table
  <2> HIDE DEF s, more, k, h, b
  <2> QED
    BY <2>1, <2>2
<1>6. h \in Nat
  BY <1>1, <1>2
<1> HIDE DEF k, more, h
<1>7. DOMAIN call' = Calls /\ call'[c] = z /\ \A d \in Calls : d # c => call'[d] = call[d]
  BY <1>1, <1>5
<1>8. /\ z \in Call /\ z.at = "listed" /\ z.out = r.out /\ z.page = more
      /\ z.head = h /\ z.torn = b
  <2>1. b \in BOOLEAN
    OBVIOUS
  <2> HIDE DEF b, r
  <2> QED
    BY <1>1, <1>4, <1>6, <2>1 DEF Call
<1> HIDE DEF z
<1>9. /\ call'[c] \in Call /\ call'[c].at = "listed" /\ call'[c].out = r.out
       /\ call'[c].page = more /\ call'[c].head = h
       /\ call'[c].torn = (r.torn \/ lastId > call'[c].head + k)
  BY <1>7, <1>8
<1> QED
  BY <1>5, <1>7, <1>9 DEF k, more, h

\* A page is read.
LEMMA PageReadKeeps ==
  ASSUME LiveInv, PageLimit \in Nat, NEW c \in Calls, PageRead(c)
  PROVE  LiveInv'
<1> DEFINE r == call[c]
           q == call'[c]
<1>1. /\ r \in Call /\ r.head <= lastId /\ ReadWell(stored, r)
      /\ lastId \in Nat /\ stored \in SUBSET Nat /\ IsFiniteSet(stored)
      /\ \A x \in stored : x <= lastId
  BY DEF LiveInv, Table, Reading
<1>2. /\ stored' = stored /\ lastId' = lastId /\ DOMAIN call' = Calls
      /\ \A d \in Calls : call'[d] = call[d] \/ call'[d] = q
      /\ r.at = "asked" /\ q \in Call /\ q.at = "listed" /\ q.out = r.out
      /\ q.page = PageOf(stored, Len(r.out))
      /\ q.head = IF r.out = <<>> THEN lastId ELSE r.head
      /\ q.torn = (r.torn \/ lastId > q.head + Len(r.out))
  BY PageReadFields
<1>3. r.out \in Seq(Nat) /\ Len(r.out) \in Nat /\ r.head \in Nat
  BY <1>1, CallFields, LenProperties
<1> HIDE DEF r, q
<1>4. r.out = <<>> => q.head = lastId
  BY <1>2
<1>5. r.out # <<>> => q.head = r.head
  BY <1>2
<1>6. q.head \in Nat /\ q.head <= lastId
  BY <1>1, <1>3, <1>4, <1>5
<1>7. ~q.torn => ~r.torn /\ lastId <= q.head + Len(r.out)
  <2> DEFINE k == Len(r.out)
             h == q.head
  <2>1. ~q.torn => ~r.torn /\ ~(lastId > h + k)
    BY <1>2
  <2>2. k \in Nat /\ h \in Nat
    BY <1>3, <1>6
  <2> HIDE DEF k, h
  <2>3. ~(lastId > h + k) => lastId <= h + k
    BY <1>1, <2>2
  <2> QED
    BY <2>1, <2>3 DEF k, h
<1>8. ReadWell(stored, q)
  <2> DEFINE S == stored
             n == lastId
  <2>1. /\ n \in Nat /\ S \in SUBSET Nat /\ IsFiniteSet(S) /\ (\A x \in S : x <= n)
        /\ r \in Call /\ r.head <= n /\ r.at = "asked" /\ ReadWell(S, r)
    BY <1>1, <1>2
  <2>2. /\ q \in Call /\ q.at = "listed" /\ q.out = r.out /\ q.page = PageOf(S, Len(r.out))
    BY <1>2
  <2>3. (r.out = <<>> => q.head = n) /\ (~q.torn => ~r.torn /\ n <= q.head + Len(r.out))
    BY <1>4, <1>7
  <2> HIDE DEF S, n
  <2>4. ReadWell(S, q)
    BY <1>5, <2>1, <2>2, <2>3, ReadsPage
  <2> QED
    BY <2>4 DEF S
<1> QED
  BY <1>2, <1>6, <1>8, ClientStep

\* The size of the table: what is still to be received is among that many rows.
LEMMA TotalReadKeeps ==
  ASSUME LiveInv, NEW c \in Calls, TotalRead(c)
  PROVE  LiveInv'
<1> DEFINE r == call[c]
           S == stored
           n == Cardinality(S)
           q == [r EXCEPT !.at = "read", !.total = n]
<1>1. /\ r \in Call /\ r.head <= lastId /\ ReadWell(S, r) /\ DOMAIN call = Calls
      /\ S \in SUBSET Nat /\ IsFiniteSet(S)
  BY DEF LiveInv, Reading, Table
<1>2. r.at = "listed" /\ call' = [call EXCEPT ![c] = q] /\ stored' = stored /\ lastId' = lastId
  BY DEF TotalRead, table, Cardinality, Cardinality
<1>3. n \in Nat /\ \A x \in S : RankIn(S, x) \in Nat /\ RankIn(S, x) <= n
  BY <1>1, RankOrder
<1> HIDE DEF r, n, S
<1>4. /\ q \in Call /\ q.at = "read" /\ q.out = r.out /\ q.page = r.page /\ q.total = n
      /\ q.head = r.head /\ q.torn = r.torn
  BY <1>1, <1>3 DEF Call
<1> HIDE DEF q
<1>5. Rows(q) = Rows(r) /\ Len(Rows(r)) \in Nat
  <2>1. Rows(r) \in Seq(Nat)
    BY <1>1, CallFields
  <2> QED
    BY <1>4, <2>1, LenProperties DEF Rows
<1>6. \A x \in S : x <= r.head => In(Rows(r), x) \/ n > Len(Rows(r))
  BY <1>1, <1>3, <1>5 DEF ReadWell, Covers
<1>7. Totals(S, q)
  BY <1>1, <1>2, <1>4, <1>5, <1>6 DEF ReadWell, Totals
<1>8. ReadWell(S, q)
  BY <1>1, <1>4, <1>5, <1>7 DEF ReadWell, Covers
<1>9. DOMAIN call' = Calls /\ \A d \in Calls : call'[d] = call[d] \/ call'[d] = q
  BY <1>1, <1>2
<1> QED
  BY <1>1, <1>2, <1>4, <1>8, <1>9, ClientStep DEF S

\* Another page is asked for.
LEMMA NextPageKeeps ==
  ASSUME LiveInv, NEW c \in Calls, NextPage(c)
  PROVE  LiveInv'
<1> DEFINE r == call[c]
           w == Rows(r)
           q == [r EXCEPT !.at = "asked", !.out = w, !.page = <<>>, !.total = 0]
<1>1. r \in Call /\ r.head <= lastId /\ ReadWell(stored, r) /\ DOMAIN call = Calls
  BY DEF LiveInv, Reading
<1>2. call' = [call EXCEPT ![c] = q] /\ stored' = stored /\ lastId' = lastId
  BY DEF NextPage, Appended, Rows, table
<1>3. w \in Seq(Nat) /\ <<>> \in Seq(Nat)
  BY <1>1, CallFields, EmptySeq
<1> HIDE DEF r, w
<1>4. /\ q \in Call /\ q.at = "asked" /\ q.out = w /\ q.page = <<>>
      /\ q.head = r.head /\ q.torn = r.torn
  BY <1>1, <1>3 DEF Call
<1> HIDE DEF q
<1>5. ReadWell(stored, q)
  <2>1. stored \in SUBSET Nat /\ q.out = Rows(r)
    BY <1>4 DEF LiveInv, Table, w
  <2> QED
    BY <1>1, <1>4, <2>1, AsksNext
<1>6. DOMAIN call' = Calls /\ \A d \in Calls : call'[d] = call[d] \/ call'[d] = q
  BY <1>1, <1>2
<1> QED
  BY <1>1, <1>2, <1>4, <1>5, <1>6, ClientStep

\* A call is over.
LEMMA CallEnds ==
  ASSUME LiveInv, NEW c \in Calls, call' = [call EXCEPT ![c] = IdleCall],
         stored' = stored, lastId' = lastId
  PROVE  LiveInv'
<1> DEFINE q == IdleCall
<1>1. q \in Call /\ q.head <= lastId /\ ReadWell(stored, q)
  BY FreshCall
<1> HIDE DEF q
<1>2. DOMAIN call' = Calls /\ \A d \in Calls : call'[d] = call[d] \/ call'[d] = q
  BY DEF LiveInv, q
<1> QED
  BY <1>1, <1>2, ClientStep

\* Every step keeps the invariant.
LEMMA NextKeeps ==
  ASSUME LiveInv, PageLimit \in Nat, [CacheNext]_cacheVars
  PROVE  LiveInv'
<1>1. ASSUME Insert PROVE LiveInv'
  BY <1>1, InsertKeeps
<1>2. ASSUME Purge PROVE LiveInv'
  BY <1>2, PurgeKeeps
<1>3. ASSUME Expire PROVE LiveInv'
  BY <1>3, ClientStep DEF LiveInv, Expire, table
<1>4. ASSUME NEW c \in Calls, CallStep(c) PROVE LiveInv'
  <2>1. CASE PageRead(c)
    BY <2>1, PageReadKeeps
  <2>5. CASE TotalRead(c)
    BY <2>5, TotalReadKeeps
  <2>2. CASE NextPage(c)
    BY <2>2, NextPageKeeps
  <2>3. CASE Complete(c)
    BY <2>3, CallEnds DEF Complete, table
  <2>4. CASE CallFails(c)
    BY <2>4, CallEnds DEF CallFails, table
  <2> QED
    BY <1>4, <2>1, <2>2, <2>3, <2>4, <2>5 DEF CallStep, Progress
<1>5. ASSUME OpenScreen PROVE LiveInv'
  <2>1. stored' = stored /\ lastId' = lastId
    BY <1>5 DEF OpenScreen, table
  <2>2. Fetch(excCache) \/ call' = call
    BY <1>5 DEF OpenScreen
  <2>3. CASE Fetch(excCache)
    BY <2>1, <2>3, FetchKeeps
  <2>4. CASE call' = call
    BY <2>1, <2>4, ClientStep DEF LiveInv
  <2> QED
    BY <2>2, <2>3, <2>4
<1>6. ASSUME LeaveScreen \/ Receive \/ SocketLost PROVE LiveInv'
  <2>1. stored' = stored /\ lastId' = lastId /\ call' = call
    BY <1>6 DEF LeaveScreen, Receive, SocketLost, table
  <2> QED
    BY <2>1, ClientStep DEF LiveInv
<1>7. ASSUME TimerFires \/ WipeAnswered PROVE LiveInv'
  <2>1. stored' = stored /\ lastId' = lastId /\ Refresh
    BY <1>7 DEF TimerFires, WipeAnswered, table
  <2>2. Refetch(NoCache)
    BY <2>1 DEF Refresh
  <2> QED
    BY <2>1, <2>2, RefetchKeeps
<1>8. ASSUME Wipe PROVE LiveInv'
  BY <1>8, WipeKeeps
<1>9. ASSUME UNCHANGED cacheVars PROVE LiveInv'
  <2>1. stored' = stored /\ lastId' = lastId /\ call' = call
    BY <1>9 DEF cacheVars
  <2> QED
    BY <2>1, ClientStep DEF LiveInv
<1> QED
  BY <1>1, <1>2, <1>3, <1>4, <1>5, <1>6, <1>7, <1>8, <1>9 DEF CacheNext

\* No call has read anything at first.
LEMMA InitReads == ASSUME FirstIds \in Nat, CacheInit PROVE LiveInv
<1>1. stored = 1 .. FirstIds /\ lastId = FirstIds /\ call = [c \in Calls |-> IdleCall]
  BY DEF CacheInit
<1>2. Table
  BY <1>1, FS_Interval DEF Table
<1>3. ASSUME NEW c \in Calls PROVE Reading(c)
  <2>1. call[c] = IdleCall
    BY <1>1
  <2>2. call[c] \in Call /\ call[c].at \notin {"listed", "read"} /\ call[c].out = <<>> /\ call[c].page = <<>> /\ call[c].head = 0
    BY <2>1 DEF IdleCall, Call
  <2>3. stored \in SUBSET Nat /\ 0 \notin stored /\ lastId \in Nat
    BY <1>2 DEF Table
  <2>4. ReadWell(stored, call[c])
    BY <2>2, <2>3, NothingRead
  <2> QED
    BY <2>2, <2>3, <2>4 DEF Reading
<1> QED
  BY <1>1, <1>2, <1>3 DEF LiveInv

\* What the cache is filled with is what the call has read.
LEMMA CompleteFills ==
  ASSUME NEW c \in Calls, Complete(c)
  PROVE  /\ call[c].at = "read" /\ excCache'.rows = Rows(call[c])
         /\ LastPage(call[c].page, Rows(call[c]), call[c].total)
BY DEF Complete, Appended, Rows

\* What the last page leaves out is cut by the cap.
LEMMA CompleteSkipsNothing ==
  ASSUME LiveInv, NEW c \in Calls, Complete(c)
  PROVE  \/ Len(excCache'.rows) >= Cap
         \/ {id \in stored : id <= call[c].head} \subseteq ToSet(excCache'.rows)
<1> DEFINE r == call[c]
<1>1. r \in Call /\ ReadWell(stored, r) /\ stored \in SUBSET Nat
  BY DEF LiveInv, Reading, Table
<1>2. /\ r.at = "read" /\ excCache'.rows = Rows(r)
      /\ LastPage(r.page, Rows(r), r.total)
  BY CompleteFills
<1>3. Cap \in Nat /\ PageLimit \in Nat
  BY LiveAssumption
<1> HIDE DEF r
<1>4. Len(Rows(r)) >= Cap \/ \A x \in stored : x <= r.head => In(Rows(r), x)
  BY <1>1, <1>2, <1>3, NothingMissing
<1>5. ASSUME NEW x, In(Rows(r), x) PROVE x \in ToSet(Rows(r))
  <2>1. Rows(r) \in Seq(Nat)
    BY <1>1, CallFields
  <2> QED
    BY <1>5, <2>1 DEF In, ToSet
<1> QED
  BY <1>2, <1>4, <1>5 DEF r

\* What a call returns begins its groups with their newest rows.
LEMMA CompleteStartsNewest ==
  ASSUME LiveInv, NEW c \in Calls, Complete(c), ~call[c].torn
  PROVE  \A i, j \in DOMAIN excCache'.rows :
            i < j /\ excCache'.rows[i] < excCache'.rows[j]
               => \E k \in 1 .. i : excCache'.rows[k] = excCache'.rows[j]
<1> DEFINE r == call[c]
<1>1. r \in Call /\ FirstIsNewest(Rows(r))
  BY DEF LiveInv, Reading, ReadWell
<1>2. excCache'.rows = Rows(r)
  BY CompleteFills
<1>3. DOMAIN Rows(r) = 1 .. Len(Rows(r))
  <2>1. Rows(r) \in Seq(Nat)
    BY <1>1, CallFields
  <2> QED
    BY <2>1
<1> QED
  BY <1>1, <1>2, <1>3 DEF FirstIsNewest

\* The state of every call fits what it has read of the table, whatever the collector
\* stores and deletes between its requests: the inductive invariant of the list.
THEOREM LiveReadsWell == CacheSpec => []LiveInv
<1>0. PageLimit \in Nat /\ FirstIds \in Nat
  BY LiveAssumption
<1>1. CacheInit => LiveInv
  BY <1>0, InitReads
<1>2. LiveInv /\ [CacheNext]_cacheVars => LiveInv'
  BY <1>0, NextKeeps
<1> QED
  BY <1>1, <1>2, PTL DEF CacheSpec

\* fetchAllExceptions() skips no row, for every page size, cap and number of calls: what
\* was stored when its first page was read, and still is, is in what it returns, unless
\* the cap cut it.
THEOREM PagesSkipNothing == CacheSpec => NothingSkipped
<1>1. LiveInv => \A c \in Calls : Complete(c) =>
          \/ Len(excCache'.rows) >= Cap
          \/ {id \in stored : id <= call[c].head} \subseteq ToSet(excCache'.rows)
  BY CompleteSkipsNothing
<1> QED
  BY <1>1, LiveReadsWell, PTL DEF CacheSpec, NothingSkipped

\* The first row of a group is its newest: in what fetchAllExceptions() returns, a row
\* that comes after an older one has come before it as well, unless the data was reset
\* under the call or rows were stored faster than it read them.
THEOREM GroupsStartNewest == CacheSpec => NewestFirst
<1>1. LiveInv => \A c \in Calls : Complete(c) /\ ~call[c].torn =>
          LET all == excCache'.rows IN
            \A i, j \in DOMAIN all :
               i < j /\ all[i] < all[j] => \E k \in 1 .. i : all[k] = all[j]
  BY CompleteStartsNewest
<1> QED
  BY <1>1, LiveReadsWell, PTL DEF CacheSpec, NewestFirst
-----------------------------------------------------------------------------
(* The settings and alert rules pages (PagesSpec).                         *)

AlertKinds == {"alert_save", "alert_toggle", "alert_delete"}

\* A mutation under way: its table and what it does go with its kind, and the raw token
\* of one that is heard of will be shown on a tab with tokens.
Underway(q) ==
    /\ DOMAIN q = DOMAIN NoMut
    /\ q.stage \in {"sent", "done"} /\ q.of \in BOOLEAN
    /\ q.table \in Tables \cup {"none"}
    /\ q.op \in {"insert", "update", "delete", "wipe"}
    /\ q.kind = "integration" <=> q.table = "integrations"
    /\ q.kind = "wipe" <=> q.table = "none"
    /\ q.kind = "wipe" <=> q.op = "wipe"
    /\ q.kind \in AlertKinds <=> q.table = "alert_rules"
    /\ q.kind = "mint" /\ q.of => tab \in {"agent", "tokens"}

\* The rows of every table have ids of their own that were given.
RowsHaveIds ==
    \A t \in Tables : \A r \in rows[t] :
        /\ r.id \in 1 .. lastGiven /\ r = [id |-> r.id, data |-> r.data]
        /\ \A s \in rows[t] : r.id = s.id => r = s

StoreTypes ==
    /\ DOMAIN rows = Tables /\ DOMAIN seen = Tables /\ DOMAIN got = Tables
    /\ rows = [t \in Tables |-> rows[t]]
    /\ fetch \in [Tables -> {"none", "asked", "read", "overtaken"}]
    /\ loaded \subseteq Tables /\ failed \subseteq Tables /\ missed \subseteq Tables
    /\ lastGiven \in Nat /\ ops \in 0 .. MaxOps
    /\ RowsHaveIds

Mutations ==
    /\ DOMAIN mut = Slots
    /\ \A m \in Slots : mut[m] = NoMut \/ Underway(mut[m])

TabTypes ==
    /\ tab \in Tabs
    /\ DOMAIN ui = DOMAIN FreshTab
    /\ ui.raw # 0 => tab \in {"agent", "tokens"}
    /\ ui.editing # "closed" \/ ui.deleteId # 0 => tab = "alerts"

\* A mutation of the table was committed and is not answered.
Awaits(t) == \E m \in Slots : mut[m].stage = "done" /\ mut[m].table = t

\* What a fetch read is what is stored, until a mutation overtakes it, and that one will
\* be answered or was missed.  The data of a query on view is what is stored, unless it
\* is being fetched, the last answer was an error, or a mutation is to be answered or
\* was missed.
Fresh ==
    /\ \A t \in Tables : /\ fetch[t] = "read" => got[t] = rows[t]
                         /\ fetch[t] = "overtaken" => t \in missed \/ Awaits(t)
    /\ \A t \in TablesOnView : fetch[t] = "none" =>
          \/ t \in failed
          \/ t \in loaded /\ (t \in missed \/ Awaits(t) \/ seen[t] = rows[t])

\* Until a connect is in doubt: while one waits for its timeout, nothing happens to the
\* row, and an insertion under way is the only one and finds no row.
IsSlack(d) == "type" \in DOMAIN d /\ d.type = "slack"

CardRequest(q) ==
    /\ q.op = "insert" => IsSlack(q.data)
    /\ q.op = "update" => DOMAIN q.data = {"connected"}

Waiting ==
    /\ \A m \in Slots : mut[m].kind # "integration"
    /\ seen["integrations"] = rows["integrations"] /\ fetch["integrations"] # "overtaken"
    /\ ~Connected(seen)

Uncrossed ==
    /\ timers \in {0, 1}
    /\ \A r, s \in rows["integrations"] : r = s /\ IsSlack(r.data)
    /\ timers = 1 => Waiting
    /\ \A m \in Slots : mut[m].kind = "integration" =>
          /\ CardRequest(mut[m])
          /\ mut[m].op = "insert" /\ mut[m].stage = "sent" =>
                /\ rows["integrations"] = {}
                /\ \A n \in Slots \ {m} : mut[n].kind = "integration" => mut[n].op # "insert"

OneCard == doubts = {} => Uncrossed

\* A reset that will be committed, or may be sent without more typing, has a typing of
\* its own, or an answer that was lost: the one the open page hears of, the word it
\* holds, and all that were left behind.
Sending == {m \in Slots : mut[m].kind = "wipe" /\ mut[m].stage = "sent" /\ mut[m].of}
Answering == {m \in Slots : mut[m].kind = "wipe" /\ mut[m].stage = "done" /\ mut[m].of}
LeftBehind == {m \in Slots : mut[m].kind = "wipe" /\ mut[m].stage = "sent" /\ ~mut[m].of}

Heard == Sending \cup Answering
Behind == Cardinality(LeftBehind)
Owed == IF Sending # {} \/ (ui.text /\ Answering = {}) THEN 1 ELSE 0

EachTyped ==
    /\ wipes \in Nat /\ typings \in Nat /\ unheard \in Nat
    /\ wipes + Behind + Owed <= typings + unheard
    /\ \A m, n \in Heard : m = n

\* A rule as the form reads and writes it.
Kept(d) ==
    /\ d = [enabled |-> d.enabled, trigger |-> d.trigger, application |-> d.application,
            deployment |-> d.deployment, threshold |-> d.threshold, event |-> d.event,
            condition |-> d.condition]
    /\ d.application = "" \/ d.deployment = ""
    /\ d.trigger = "volume_threshold" <=> d.threshold # Absent
    /\ d.event \in Names
    /\ d.event = IF d.trigger = "event_reoccurs" THEN Trim[d.event] ELSE ""

SavedKept(q) ==
    /\ q.kind = "alert_save" => q.op \in {"insert", "update"} /\ Kept(q.data)
    /\ q.kind = "alert_toggle" => q.op = "update" /\ DOMAIN q.data = {"enabled"}
    /\ q.kind = "alert_delete" => q.op = "delete"
    /\ q.kind = "alert_save" /\ q.op = "update" /\ ~q.touched =>
          \E r : q.base = {r} /\ q.id = r.id /\ q.data = Payload(FromRow(r.data))

FormKept ==
    /\ ui.edits \in Nat
    /\ ui.editing # "closed" => /\ DOMAIN ui.form = DOMAIN EmptyForm
                                /\ ui.form.threshold # Absent /\ ui.form.event \in Names
    /\ ui.editing = "row" =>
          \E r : ui.base = {r} /\ (ui.edits = 0 => ui.form = FromRow(r.data))

AllNamed(data) == \A r \in data["alert_rules"] : r.data.event \in Names

RulesKept ==
    /\ \A r \in rows["alert_rules"] : Kept(r.data)
    /\ AllNamed(seen) /\ AllNamed(got)
    /\ \A m \in Slots : SavedKept(mut[m])
    /\ FormKept

PagesInv ==
    StoreTypes /\ Mutations /\ TabTypes /\ Fresh /\ OneCard /\ EachTyped /\ RulesKept
-----------------------------------------------------------------------------
LEMMA PagesConstants ==
  /\ MaxOps \in Nat /\ Slots \subseteq Nat /\ IsFiniteSet(Slots)
  /\ Tables = {"integrations", "redaction_rules", "api_tokens", "team_members", "alert_rules"}
  /\ "none" \notin Tables
BY StoreAssumption

LEMMA NamesTrim ==
  /\ "" \in Names
  /\ \A n \in Names : Trim[n] \in Names /\ Trim[Trim[n]] = Trim[n]
<1>1. Trim \in [Names -> Names] /\ (\A n \in Names : Trim[Trim[n]] = Trim[n]) /\ "" \in Names
  BY RulesAssumption, Zenon
<1> QED
  BY <1>1

LEMMA FirstRules == \A r \in FirstRows["alert_rules"] : RuleData(r.data)
BY RulesAssumption, Zenon

LEMMA FirstCards ==
  \A r, s \in FirstRows["integrations"] :
     r = s /\ "type" \in DOMAIN r.data /\ r.data.type = "slack"
<1>1. \A r, s \in FirstRows["integrations"] :
         r = s /\ r.data \in [type : {"slack"}, connected : BOOLEAN]
  BY RulesAssumption, Zenon
<1> QED
  BY <1>1

LEMMA ViewIsOfTables == ASSUME NEW t \in Tabs PROVE TablesOf(t) \subseteq Tables
BY PagesConstants DEF Tabs, TablesOf

\* What the page stores reads back as it is.
LEMMA StoredReads == ASSUME NEW d, RuleData(d) PROVE Kept(d)
<1>1. d = [enabled |-> d.enabled, trigger |-> d.trigger, application |-> d.application,
           deployment |-> d.deployment, threshold |-> d.threshold, event |-> d.event,
           condition |-> d.condition]
  BY DEF RuleData
<1>2. /\ d.application = "" \/ d.deployment = ""
      /\ d.trigger = "volume_threshold" <=> d.threshold # Absent
      /\ d.trigger # "event_reoccurs" => d.event = ""
      /\ \E n \in Names : d.event = Trim[n]
  BY DEF RuleData
<1>3. d.event \in Names /\ Trim[d.event] = d.event
  BY <1>2, NamesTrim
<1> QED
  BY <1>1, <1>2, <1>3 DEF Kept

\* Nothing is on view at first that has been loaded.
LEMMA PagesInitInv == PagesInit => PagesInv
<1> SUFFICES ASSUME PagesInit PROVE PagesInv
  OBVIOUS
<1>1. /\ rows = FirstRows /\ lastGiven = FirstGiven /\ loaded = {} /\ seen = [t \in Tables |-> {}]
      /\ fetch = [t \in Tables |-> IF t \in TablesOnView THEN "asked" ELSE "none"]
      /\ got = [t \in Tables |-> {}] /\ failed = {} /\ missed = {}
      /\ mut = [m \in Slots |-> NoMut] /\ ops = 0
      /\ tab = "agent" /\ ui = FreshTab /\ timers = 0 /\ doubts = {}
      /\ typings = 0 /\ wipes = 0 /\ unheard = 0
  BY DEF PagesInit, TabsInit, StoreInit
<1>2. \A m \in Slots : mut[m] = NoMut /\ mut[m].kind = "none" /\ mut[m].stage = "none"
  BY <1>1 DEF NoMut
<1>3. StoreTypes
  BY <1>1, StoreAssumption DEF StoreTypes, RowsHaveIds, Tables
<1>4. Mutations
  BY <1>1, <1>2 DEF Mutations
<1>5. TabTypes
  BY <1>1 DEF TabTypes, Tabs, FreshTab
<1>6. Fresh
  <2>1. TablesOnView \subseteq Tables
    BY <1>5, ViewIsOfTables DEF TabTypes, TablesOnView
  <2> QED
    BY <1>1, <2>1 DEF Fresh
<1>7. OneCard
  BY <1>1, <1>2, FirstCards DEF OneCard, Uncrossed, IsSlack
<1>8. EachTyped
  <2>1. Sending = {} /\ Answering = {} /\ LeftBehind = {}
    BY <1>2 DEF Sending, Answering, LeftBehind
  <2>2. Behind = 0
    BY <2>1, FS_EmptySet DEF Behind
  <2>3. Owed = 0
    BY <1>1, <2>1 DEF Owed, FreshTab
  <2> QED
    BY <1>1, <2>1, <2>2, <2>3 DEF EachTyped, Heard
<1>9. RulesKept
  <2>1. \A r \in rows["alert_rules"] : Kept(r.data)
    BY <1>1, StoredReads, FirstRules
  <2>2. AllNamed(seen) /\ AllNamed(got)
    BY <1>1, PagesConstants DEF AllNamed
  <2> QED
    BY <1>1, <1>2, <2>1, <2>2 DEF RulesKept, FreshTab, SavedKept, FormKept
<1> QED
  BY <1>3, <1>4, <1>5, <1>6, <1>7, <1>8, <1>9 DEF PagesInv
-----------------------------------------------------------------------------
(* What a step leaves alone.                                               *)

\* A request takes an idle slot.
Fields == {"stage", "kind", "table", "op", "id", "data", "of", "base", "touched"}

IsSent(q, request) ==
    /\ DOMAIN q = Fields
    /\ q.stage = "sent" /\ q.of = TRUE
    /\ \A f \in DOMAIN request : q[f] = request[f]
    /\ \A f \in Fields \ {"stage", "of"} : f \notin DOMAIN request => q[f] = NoMut[f]

Takes(m, q) ==
    /\ mut[m].stage = "none"
    /\ mut' = [mut EXCEPT ![m] = q]
    /\ UNCHANGED <<rows, lastGiven, loaded, seen, fetch, got, failed, missed>>
    /\ ops < MaxOps /\ ops' = ops + 1

LEMMA SendTakes ==
  ASSUME NEW request, DOMAIN request \subseteq Fields \ {"stage", "of"}, Send(request)
  PROVE  \E m, q : m \in Slots /\ Takes(m, q) /\ IsSent(q, request)
<1> DEFINE p == [NoMut EXCEPT !.stage = "sent", !.of = TRUE]
           q == Spread(p, request)
<1>1. PICK m \in Slots : mut[m].stage = "none" /\ mut' = [mut EXCEPT ![m] = q]
  BY DEF Send
<1>2. /\ UNCHANGED <<rows, lastGiven, loaded, seen, fetch, got, failed, missed>>
      /\ ops < MaxOps /\ ops' = ops + 1
  BY DEF Send, queries
<1>3. IsSent(q, request)
  <2>1. /\ DOMAIN p = Fields /\ p.stage = "sent" /\ p.of = TRUE
        /\ \A f \in Fields \ {"stage", "of"} : p[f] = NoMut[f]
    BY DEF NoMut, Fields
  <2> HIDE DEF p
  <2>2. DOMAIN p \cup DOMAIN request = Fields
    BY <2>1
  <2>3. q = [f \in Fields |-> IF f \in DOMAIN request THEN request[f] ELSE p[f]]
    BY <2>2 DEF Spread
  <2>4. "stage" \in Fields /\ "of" \in Fields
    BY DEF Fields
  <2> HIDE DEF q
  <2>5. \A f \in Fields : q[f] = IF f \in DOMAIN request THEN request[f] ELSE p[f]
    BY <2>3
  <2> QED
    BY <2>1, <2>3, <2>4, <2>5 DEF IsSent
<1> QED
  BY <1>1, <1>2, <1>3 DEF Takes

\* Before the mutation of a slot and after.
LEMMA Taken ==
  ASSUME PagesInv, NEW m \in Slots, NEW q, Takes(m, q)
  PROVE  /\ mut[m] = NoMut /\ mut[m].kind = "none" /\ mut'[m] = q
         /\ \A n \in Slots \ {m} : mut'[n] = mut[n]
         /\ DOMAIN mut' = Slots
         /\ UNCHANGED <<rows, lastGiven, loaded, seen, fetch, got, failed, missed>>
         /\ ops' \in 0 .. MaxOps
<1>1. DOMAIN mut = Slots /\ (mut[m] = NoMut \/ Underway(mut[m])) /\ ops \in 0 .. MaxOps
  BY DEF PagesInv, Mutations, StoreTypes
<1>2. mut[m].stage = "none" /\ mut' = [mut EXCEPT ![m] = q] /\ ops < MaxOps /\ ops' = ops + 1
  BY DEF Takes
<1>3. mut[m] = NoMut
  BY <1>1, <1>2 DEF Underway
<1>4. mut[m].kind = "none"
  BY <1>3 DEF NoMut
<1>5. ops' \in 0 .. MaxOps
  BY <1>1, <1>2, PagesConstants
<1> QED
  BY <1>1, <1>2, <1>3, <1>4, <1>5 DEF Takes

LEMMA CountsAreNumbers ==
  ASSUME NEW S, S \subseteq Slots
  PROVE  IsFiniteSet(S) /\ Cardinality(S) \in Nat
BY PagesConstants, FS_Subset, FS_CardinalityType

\* A request leaves the table and the queries alone.
LEMMA SendStore ==
  ASSUME PagesInv, NEW m \in Slots, NEW q, Takes(m, q), Underway(q), q.stage = "sent", tab' = tab
  PROVE  StoreTypes' /\ Mutations' /\ Fresh'
<1>1. /\ mut'[m] = q /\ (\A n \in Slots \ {m} : mut'[n] = mut[n]) /\ DOMAIN mut' = Slots
      /\ UNCHANGED <<rows, lastGiven, loaded, seen, fetch, got, failed, missed>>
      /\ ops' \in 0 .. MaxOps
  BY Taken
<1>2. StoreTypes'
  BY <1>1 DEF PagesInv, StoreTypes, RowsHaveIds
<1>3. Mutations'
  <2>1. \A n \in Slots : mut[n] = NoMut \/ Underway(mut[n])
    BY DEF PagesInv, Mutations
  <2>2. ASSUME NEW n \in Slots PROVE (mut[n] = NoMut \/ Underway(mut[n]))'
    BY <1>1, <2>1 DEF Underway
  <2> QED
    BY <1>1, <2>2 DEF Mutations
<1>4. Fresh'
  <2>1. \A n \in Slots : mut[n].stage = "done" => mut'[n] = mut[n]
    <3>1. mut[m].stage = "none"
      BY DEF Takes
    <3> QED
      BY <1>1, <3>1
  <2>2. \A t : Awaits(t) => Awaits(t)'
    BY <2>1 DEF Awaits
  <2> QED
    BY <1>1, <2>2 DEF PagesInv, Fresh, TablesOnView
<1> QED
  BY <1>2, <1>3, <1>4

\* The sets of resets are those before when no reset changes.
LEMMA SameWipes ==
  ASSUME PagesInv, \A m \in Slots : mut[m].kind = "wipe" \/ mut'[m].kind = "wipe" => mut'[m] = mut[m]
  PROVE  Sending' = Sending /\ Answering' = Answering /\ LeftBehind' = LeftBehind
<1>1. \A m \in Slots : /\ mut'[m].kind = "wipe" <=> mut[m].kind = "wipe"
                       /\ mut'[m].kind = "wipe" => mut'[m] = mut[m]
  OBVIOUS
<1> QED
  BY <1>1 DEF Sending, Answering, LeftBehind

LEMMA OwedIs ==
  /\ Owed \in {0, 1} /\ Owed' \in {0, 1}
  /\ PagesInv => Behind \in Nat /\ IsFiniteSet(LeftBehind)
<1>1. LeftBehind \subseteq Slots
  BY DEF Sending, Answering, LeftBehind
<1> QED
  BY <1>1, CountsAreNumbers DEF Owed, Behind

\* Typing is not used up when no reset is added.
LEMMA TypedShrinks ==
  ASSUME PagesInv, LeftBehind' \subseteq LeftBehind, Heard' \subseteq Heard,
         wipes' = wipes, typings' = typings, unheard' \in {unheard, unheard + 1},
         unheard' = unheard => Owed' <= Owed, unheard' = unheard + 1 => Owed = 0
  PROVE  EachTyped'
<1>1. /\ wipes \in Nat /\ typings \in Nat /\ unheard \in Nat
      /\ wipes + Behind + Owed <= typings + unheard
      /\ \A m, n \in Heard : m = n
  BY DEF PagesInv, EachTyped
<1>2. Behind \in Nat /\ Behind' \in Nat /\ Behind' <= Behind
  BY OwedIs, FS_Subset, FS_CardinalityType DEF Behind
<1>3. wipes' + Behind' + Owed' <= typings' + unheard'
  <2> DEFINE a == Behind
             b == Behind'
             c == Owed
             d == Owed'
  <2>1. c \in {0, 1} /\ d \in {0, 1}
    BY OwedIs
  <2>2. wipes + a + c <= typings + unheard /\ a \in Nat /\ b \in Nat /\ b <= a
    BY <1>1, <1>2
  <2>3. \/ unheard' = unheard /\ d <= c
        \/ unheard' = unheard + 1 /\ c = 0
    OBVIOUS
  <2> HIDE DEF a, b, c, d
  <2>4. wipes \in Nat /\ typings \in Nat /\ unheard \in Nat
    BY <1>1
  <2>5. wipes + b + d <= typings + unheard'
    <3>1. CASE unheard' = unheard /\ d <= c
      BY <2>1, <2>2, <2>4, <3>1
    <3>2. CASE unheard' = unheard + 1 /\ c = 0
      BY <2>1, <2>2, <2>4, <3>2
    <3> QED
      BY <2>3, <3>1, <3>2
  <2>6. wipes' + b + d <= typings' + unheard'
    BY <2>5
  <2> QED
    BY <2>6 DEF b, d
<1>4. \A m, n \in Heard' : m = n
  BY <1>1
<1> QED
  BY <1>1, <1>3, <1>4 DEF EachTyped

\* Nor when the resets are the same.
LEMMA TypedStays ==
  ASSUME PagesInv, Sending' = Sending /\ Answering' = Answering /\ LeftBehind' = LeftBehind,
         ui'.text => ui.text, wipes' = wipes, typings' = typings, unheard' = unheard
  PROVE  EachTyped'
<1>1. Heard' = Heard /\ LeftBehind' = LeftBehind
  BY DEF Heard
<1>2. Owed' <= Owed
  <2>1. Owed' = IF Sending # {} \/ (ui'.text /\ Answering = {}) THEN 1 ELSE 0
    BY DEF Owed
  <2> QED
    BY <2>1 DEF Owed
<1>3. unheard \in Nat
  BY DEF PagesInv, EachTyped
<1> QED
  BY <1>1, <1>2, <1>3, TypedShrinks

LEMMA SendWipes ==
  ASSUME PagesInv, NEW m \in Slots, NEW q, Takes(m, q), q.kind # "wipe",
         ui'.text => ui.text, wipes' = wipes, typings' = typings, unheard' = unheard
  PROVE  EachTyped'
<1>1. /\ mut'[m].kind # "wipe" /\ mut[m].kind # "wipe"
      /\ \A n \in Slots \ {m} : mut'[n] = mut[n]
  BY Taken
<1>2. Sending' = Sending /\ Answering' = Answering /\ LeftBehind' = LeftBehind
  BY <1>1, SameWipes
<1> QED
  BY <1>2, TypedStays

LEMMA SendCard ==
  ASSUME PagesInv, NEW m \in Slots, NEW q, Takes(m, q), q.kind # "integration",
         UNCHANGED <<timers, doubts>>
  PROVE  OneCard'
<1>1. /\ mut'[m].kind # "integration"
      /\ \A n \in Slots \ {m} : mut'[n] = mut[n]
      /\ rows' = rows /\ seen' = seen /\ fetch' = fetch
  BY Taken
<1> QED
  BY <1>1 DEF PagesInv, OneCard, Uncrossed, Waiting

LEMMA SendRules ==
  ASSUME PagesInv, NEW m \in Slots, NEW q, Takes(m, q), SavedKept(q), FormKept'
  PROVE  RulesKept'
<1>1. /\ mut'[m] = q
      /\ \A n \in Slots \ {m} : mut'[n] = mut[n]
      /\ rows' = rows /\ seen' = seen /\ got' = got
  BY Taken
<1>2. ASSUME NEW n \in Slots PROVE SavedKept(mut'[n])
  BY <1>1 DEF PagesInv, RulesKept
<1> QED
  BY <1>1, <1>2 DEF PagesInv, RulesKept, AllNamed

\* The requests of the tabs that only the shape of the store depends on.
LEMMA SendOther ==
  ASSUME PagesInv, NEW m \in Slots, NEW q, Takes(m, q), Underway(q), q.stage = "sent",
         q.kind \notin {"wipe", "integration"} \cup AlertKinds, UNCHANGED tabs
  PROVE  PagesInv'
<1>1. UNCHANGED <<tab, ui, timers, doubts, typings, wipes, unheard>>
  BY DEF tabs, resets
<1>2. StoreTypes' /\ Mutations' /\ Fresh'
  BY <1>1, SendStore
<1>3. TabTypes' /\ FormKept'
  BY <1>1 DEF PagesInv, TabTypes, RulesKept, FormKept
<1>4. SavedKept(q)
  BY DEF SavedKept, AlertKinds
<1> QED
  BY <1>1, <1>2, <1>3, <1>4, SendWipes, SendCard, SendRules DEF PagesInv

\* A request, field by field.
LEMMA SentFields ==
  ASSUME NEW q, NEW request, IsSent(q, request),
         DOMAIN request \subseteq Fields \ {"stage", "of"},
         {"kind", "table", "op"} \subseteq DOMAIN request
  PROVE  /\ DOMAIN q = DOMAIN NoMut /\ q.stage = "sent" /\ q.of = TRUE
         /\ q.kind = request.kind /\ q.table = request.table /\ q.op = request.op
         /\ \A f \in DOMAIN request : q[f] = request[f]
<1>1. DOMAIN NoMut = Fields
  BY DEF NoMut, Fields
<1> QED
  BY <1>1 DEF IsSent

LEMMA OtherRequest ==
  ASSUME PagesInv, NEW request, Send(request), UNCHANGED tabs,
         DOMAIN request \subseteq Fields \ {"stage", "of"},
         {"kind", "table", "op"} \subseteq DOMAIN request,
         request.kind \notin {"wipe", "integration"} \cup AlertKinds,
         request.table \in {"redaction_rules", "api_tokens", "team_members"},
         request.op \in {"insert", "update", "delete"},
         request.kind = "mint" => tab \in {"agent", "tokens"}
  PROVE  PagesInv'
<1>1. PICK m, q : m \in Slots /\ Takes(m, q) /\ IsSent(q, request)
  BY SendTakes
<1>2. /\ DOMAIN q = DOMAIN NoMut /\ q.stage = "sent" /\ q.of = TRUE
      /\ q.kind = request.kind /\ q.table = request.table /\ q.op = request.op
  BY <1>1, SentFields
<1>3. Underway(q)
  <2>1. q.table \in Tables /\ q.table \notin {"integrations", "none", "alert_rules"}
    BY <1>2, PagesConstants
  <2> QED
    BY <1>2, <2>1 DEF Underway
<1> QED
  BY <1>1, <1>2, <1>3, SendOther

\* Every request of a tab but those for an integration and a reset.
TabRequest ==
    \/ \E role \in {"ingest", "viewer"} : Generate(role)
    \/ Revoke \/ AddRule \/ ToggleRule \/ RemoveRule \/ Invite \/ RemoveMember
    \/ \E role \in {"member", "admin"} : ChangeRole(role)

LEMMA TabRequestKeeps == ASSUME PagesInv, TabRequest PROVE PagesInv'
<1> USE DEF Fields, AlertKinds
<1>0. Stays /\ ui' = ui => UNCHANGED tabs
  BY DEF Stays, tabs, resets
<1>1. ASSUME NEW role, Generate(role) PROVE PagesInv'
  <2> DEFINE request == [kind |-> "mint", table |-> "api_tokens", op |-> "insert",
                         data |-> [role |-> role, revoked |-> FALSE]]
  <2>1. Send(request) /\ UNCHANGED tabs /\ tab \in {"agent", "tokens"}
    BY <1>0, <1>1 DEF Generate
  <2> QED
    BY <2>1, OtherRequest
<1>2. ASSUME Revoke PROVE PagesInv'
  <2>1. PICK t \in TokenList(seen) :
          Send([kind |-> "revoke", table |-> "api_tokens", op |-> "update", id |-> t.id,
                data |-> [revoked |-> TRUE]])
    BY <1>2 DEF Revoke
  <2>2. UNCHANGED tabs
    BY <1>0, <1>2 DEF Revoke
  <2> QED
    BY <2>1, <2>2, OtherRequest
<1>3. ASSUME AddRule PROVE PagesInv'
  <2> DEFINE request == [kind |-> "rule_create", table |-> "redaction_rules", op |-> "insert",
                         data |-> [kind |-> ui.draft, enabled |-> TRUE]]
  <2>1. Send(request) /\ UNCHANGED tabs
    BY <1>0, <1>3 DEF AddRule
  <2> QED
    BY <2>1, OtherRequest
<1>4. ASSUME ToggleRule PROVE PagesInv'
  <2>1. PICK r \in seen["redaction_rules"] :
          Send([kind |-> "rule_toggle", table |-> "redaction_rules", op |-> "update", id |-> r.id,
                data |-> [enabled |-> ~r.data.enabled]])
    BY <1>4 DEF ToggleRule
  <2>2. UNCHANGED tabs
    BY <1>0, <1>4 DEF ToggleRule
  <2> QED
    BY <2>1, <2>2, OtherRequest
<1>5. ASSUME RemoveRule PROVE PagesInv'
  <2>1. PICK r \in seen["redaction_rules"] :
          Send([kind |-> "rule_remove", table |-> "redaction_rules", op |-> "delete", id |-> r.id])
    BY <1>5 DEF RemoveRule
  <2>2. UNCHANGED tabs
    BY <1>0, <1>5 DEF RemoveRule
  <2> QED
    BY <2>1, <2>2, OtherRequest
<1>6. ASSUME Invite PROVE PagesInv'
  <2> DEFINE request == [kind |-> "invite", table |-> "team_members", op |-> "insert",
                         data |-> [role |-> ui.draft]]
  <2>1. Send(request) /\ UNCHANGED tabs
    BY <1>0, <1>6 DEF Invite
  <2> QED
    BY <2>1, OtherRequest
<1>7. ASSUME RemoveMember PROVE PagesInv'
  <2>1. PICK r \in seen["team_members"] :
          Send([kind |-> "member_remove", table |-> "team_members", op |-> "delete", id |-> r.id])
    BY <1>7 DEF RemoveMember
  <2>2. UNCHANGED tabs
    BY <1>0, <1>7 DEF RemoveMember
  <2> QED
    BY <2>1, <2>2, OtherRequest
<1>8. ASSUME NEW role, ChangeRole(role) PROVE PagesInv'
  <2>1. PICK r \in seen["team_members"] :
          Send([kind |-> "role", table |-> "team_members", op |-> "update", id |-> r.id,
                data |-> [role |-> role]])
    BY <1>8 DEF ChangeRole
  <2>2. UNCHANGED tabs
    BY <1>0, <1>8 DEF ChangeRole
  <2> QED
    BY <2>1, <2>2, OtherRequest
<1> QED
  BY <1>1, <1>2, <1>3, <1>4, <1>5, <1>6, <1>7, <1>8 DEF TabRequest

\* What is on the page only.
LEMMA PageStore ==
  ASSUME PagesInv, UNCHANGED <<store, tab>>, FormKept'
  PROVE  /\ StoreTypes' /\ Mutations' /\ Fresh' /\ RulesKept'
         /\ UNCHANGED <<timers, doubts>> => OneCard'
         /\ Sending' = Sending /\ Answering' = Answering /\ LeftBehind' = LeftBehind
<1>1. UNCHANGED <<rows, lastGiven, loaded, seen, fetch, got, failed, missed, mut, ops, tab>>
  BY DEF store, queries
<1>2. StoreTypes' /\ Mutations'
  BY <1>1 DEF PagesInv, StoreTypes, RowsHaveIds, Mutations, Underway
<1>3. Fresh'
  BY <1>1 DEF PagesInv, Fresh, TablesOnView, Awaits
<1>4. UNCHANGED <<timers, doubts>> => OneCard'
  BY <1>1 DEF PagesInv, OneCard, Uncrossed, Waiting
<1>5. Sending' = Sending /\ Answering' = Answering /\ LeftBehind' = LeftBehind
  BY <1>1, SameWipes
<1>6. RulesKept'
  BY <1>1 DEF PagesInv, RulesKept, AllNamed
<1> QED
  BY <1>2, <1>3, <1>4, <1>5, <1>6

LEMMA PageOnly ==
  ASSUME PagesInv, UNCHANGED <<store, tab, timers, doubts, typings, wipes, unheard>>, TabTypes',
         FormKept', ui'.text => ui.text
  PROVE  PagesInv'
<1>1. /\ StoreTypes' /\ Mutations' /\ Fresh' /\ RulesKept' /\ OneCard'
      /\ Sending' = Sending /\ Answering' = Answering /\ LeftBehind' = LeftBehind
  BY PageStore
<1>2. EachTyped'
  BY <1>1, TypedStays
<1> QED
  BY <1>1, <1>2 DEF PagesInv

\* The steps of a page that neither send anything nor confirm a reset.
TabClick ==
    \/ Dismiss \/ TypeEmail \/ OpenWipe \/ DismissDialog \/ CancelDialog
    \/ \E kind \in {"pattern", "identifier"} : OpenDraft(kind)

LEMMA TabClickKeeps == ASSUME PagesInv, TabClick PROVE PagesInv'
<1>1. UNCHANGED <<store, tab, timers, doubts, typings, wipes, unheard>>
  BY DEF TabClick, Dismiss, TypeEmail, OpenWipe, DismissDialog, CancelDialog, OpenDraft, Stays, resets
<1>2. DOMAIN ui = {"raw", "open", "draft", "text", "editing", "base", "form", "edits", "deleteId"}
  BY DEF PagesInv, TabTypes, FreshTab
<1>3. /\ DOMAIN ui' = DOMAIN ui /\ (ui'.raw # 0 => ui.raw # 0) /\ (ui'.text => ui.text)
      /\ ui'.editing = ui.editing /\ ui'.base = ui.base /\ ui'.form = ui.form
      /\ ui'.edits = ui.edits /\ ui'.deleteId = ui.deleteId
  <2>1. \/ ui' = [ui EXCEPT !.raw = 0]
        \/ ui' = [ui EXCEPT !.draft = "member"]
        \/ ui' = [ui EXCEPT !.open = TRUE]
        \/ ui' = [ui EXCEPT !.open = FALSE, !.text = FALSE]
        \/ ui' = [ui EXCEPT !.open = FALSE]
        \/ \E kind : ui' = [ui EXCEPT !.open = TRUE, !.draft = kind]
    BY DEF TabClick, Dismiss, TypeEmail, OpenWipe, DismissDialog, CancelDialog, OpenDraft
  <2> QED
    BY <1>2, <2>1
<1>4. TabTypes' /\ FormKept'
  BY <1>1, <1>3 DEF PagesInv, TabTypes, RulesKept, FormKept
<1> QED
  BY <1>1, <1>3, <1>4, PageOnly
-----------------------------------------------------------------------------
(* Resets.                                                                 *)

LEMMA TypeDeleteKeeps == ASSUME PagesInv, TypeDelete PROVE PagesInv'
<1>1. /\ UNCHANGED <<store, tab, timers, doubts, wipes, unheard>>
      /\ tab = "admin" /\ ui' = [ui EXCEPT !.text = TRUE] /\ typings' = typings + 1
  BY DEF TypeDelete
<1>2. DOMAIN ui = {"raw", "open", "draft", "text", "editing", "base", "form", "edits", "deleteId"}
  BY DEF PagesInv, TabTypes, FreshTab
<1>3. TabTypes' /\ FormKept'
  BY <1>1, <1>2 DEF PagesInv, TabTypes, RulesKept, FormKept
<1>4. /\ StoreTypes' /\ Mutations' /\ Fresh' /\ RulesKept' /\ OneCard'
      /\ Sending' = Sending /\ Answering' = Answering /\ LeftBehind' = LeftBehind
  BY <1>1, <1>3, PageStore
<1>5. EachTyped'
  <2>1. /\ wipes \in Nat /\ typings \in Nat /\ unheard \in Nat
        /\ wipes + Behind + Owed <= typings + unheard
        /\ \A m, n \in Heard : m = n
    BY DEF PagesInv, EachTyped
  <2>2. Behind' = Behind /\ Heard' = Heard
    BY <1>4 DEF Behind, Heard
  <2>3. wipes' + Behind' + Owed' <= typings' + unheard'
    BY <1>1, <2>1, <2>2, OwedIs
  <2> QED
    BY <1>1, <2>1, <2>2, <2>3 DEF EachTyped
<1> QED
  BY <1>3, <1>4, <1>5 DEF PagesInv

\* Only one reset is heard of, and it was typed for.
LEMMA DeleteEverythingKeeps == ASSUME PagesInv, DeleteEverything PROVE PagesInv'
<1> DEFINE request == [kind |-> "wipe", op |-> "wipe"]
<1>1. /\ ui.text /\ ~Pending("wipe") /\ Send(request)
      /\ UNCHANGED <<ui, tab, timers, doubts, typings, wipes, unheard>>
  BY DEF DeleteEverything, Stays, resets
<1>2. PICK m, q : m \in Slots /\ Takes(m, q) /\ IsSent(q, request)
  BY <1>1, SendTakes DEF Fields
<1>3. /\ DOMAIN q = DOMAIN NoMut /\ q.stage = "sent" /\ q.of = TRUE
      /\ q.kind = "wipe" /\ q.table = "none" /\ q.op = "wipe"
  <2>1. DOMAIN request = {"kind", "op"}
    OBVIOUS
  <2>2. request.kind = "wipe" /\ request.op = "wipe"
    OBVIOUS
  <2> HIDE DEF request
  <2> QED
    BY <1>2, <2>1, <2>2 DEF IsSent, Fields, NoMut
<1>4. Underway(q)
  BY <1>3, PagesConstants DEF Underway, AlertKinds
<1>5. StoreTypes' /\ Mutations' /\ Fresh'
  BY <1>1, <1>2, <1>3, <1>4, SendStore
<1>6. TabTypes' /\ FormKept'
  BY <1>1 DEF PagesInv, TabTypes, RulesKept, FormKept
<1>7. SavedKept(q)
  BY <1>3 DEF SavedKept
<1>8. OneCard' /\ RulesKept'
  BY <1>1, <1>2, <1>3, <1>6, <1>7, SendCard, SendRules
<1>9. EachTyped'
  <2>1. /\ mut'[m] = q /\ mut[m].kind = "none"
        /\ \A n \in Slots \ {m} : mut'[n] = mut[n]
    BY <1>2, Taken
  <2>2. Heard = {}
    <3>1. \A n \in Slots : mut[n] = NoMut \/ mut[n].of \in BOOLEAN
      BY DEF PagesInv, Mutations, Underway
    <3> QED
      BY <1>1, <3>1 DEF Pending, Heard, Sending, Answering, LeftBehind, NoMut
  <2>3. Sending' = {m} /\ Answering' = {}
    BY <1>2, <1>3, <2>1, <2>2 DEF Sending, Answering, LeftBehind, Heard
  <2>4. LeftBehind' = LeftBehind
    BY <1>3, <2>1 DEF Sending, Answering, LeftBehind
  <2>5. Owed = 1
    BY <1>1, <2>2 DEF Owed, Heard
  <2>6. Owed' = 1
    BY <2>3 DEF Owed
  <2>7. Heard' = {m} /\ Behind' = Behind
    BY <2>3, <2>4 DEF Heard, Behind
  <2> QED
    BY <1>1, <2>5, <2>6, <2>7 DEF PagesInv, EachTyped
<1> QED
  BY <1>5, <1>6, <1>8, <1>9 DEF PagesInv
-----------------------------------------------------------------------------
(* Integrations.                                                           *)

\* A connect that does not cross another finds the data up to date.
LEMMA ConnectKeeps == ASSUME PagesInv, Connect PROVE PagesInv'
<1>1. /\ UNCHANGED <<store, tab, ui, typings, wipes, unheard>>
      /\ tab = "integrations" /\ ~Connected(seen)
      /\ "integrations" \in loaded \/ fetch["integrations"] = "none"
      /\ timers' = timers + 1 /\ doubts' = doubts \cup Doubts
  BY DEF Connect, resets
<1>2. TabTypes' /\ FormKept'
  BY <1>1 DEF PagesInv, TabTypes, RulesKept, FormKept
<1>3. /\ StoreTypes' /\ Mutations' /\ Fresh' /\ RulesKept'
      /\ Sending' = Sending /\ Answering' = Answering /\ LeftBehind' = LeftBehind
  BY <1>1, <1>2, PageStore
<1>4. EachTyped'
  BY <1>1, <1>3, TypedStays
<1>5. ASSUME doubts' = {} PROVE timers' = 1 /\ doubts = {} /\ Waiting
  <2>1. /\ doubts = {} /\ ~(timers > 0) /\ \A m \in Slots : mut[m].kind # "integration"
        /\ fetch["integrations"] = "none" /\ "integrations" \notin failed \cup missed
    BY <1>1, <1>5 DEF Doubts
  <2>2. timers \in {0, 1}
    BY <2>1 DEF PagesInv, OneCard, Uncrossed
  <2>3. timers = 0
    BY <2>1, <2>2
  <2>4. TablesOnView = {"integrations"}
    BY <1>1 DEF TablesOnView, TablesOf
  <2>5. ASSUME NEW m \in Slots, mut[m].stage = "done" PROVE mut[m].table # "integrations"
    <3>1. Underway(mut[m])
      BY <2>5 DEF PagesInv, Mutations, NoMut
    <3> QED
      BY <2>1, <3>1 DEF Underway
  <2>6. seen["integrations"] = rows["integrations"]
    BY <2>1, <2>4, <2>5 DEF PagesInv, Fresh, Awaits
  <2> QED
    BY <1>1, <2>1, <2>3, <2>6 DEF Waiting
<1>6. OneCard'
  <2>1. rows' = rows /\ seen' = seen /\ mut' = mut /\ fetch' = fetch
    BY <1>1 DEF store, queries
  <2>2. Connected(seen)' = Connected(seen)
    BY <2>1
  <2>3. Waiting => Waiting'
    BY <2>1, <2>2 DEF Waiting
  <2> QED
    BY <1>1, <1>5, <2>1, <2>3 DEF PagesInv, OneCard, Uncrossed
<1> QED
  BY <1>2, <1>3, <1>4, <1>6 DEF PagesInv

\* With no card in the data, and the data up to date, there is no row.
LEMMA NoCardNoRow ==
  ASSUME \A r \in rows["integrations"] : IsSlack(r.data),
         seen["integrations"] = rows["integrations"], Card(seen) = {}
  PROVE  rows["integrations"] = {}
BY DEF Card, First, IsSlack

Toggles(q) ==
    /\ DOMAIN q = DOMAIN NoMut /\ q.stage = "sent" /\ q.of = TRUE
    /\ q.kind = "integration" /\ q.table = "integrations"
    /\ q.op \in {"insert", "update"} /\ CardRequest(q)
    /\ q.op = "insert" => Card(seen) = {}

LEMMA ToggleSends ==
  ASSUME NEW connect, Toggle(connect)
  PROVE  \E m, q : m \in Slots /\ Takes(m, q) /\ Toggles(q)
<1>1. ASSUME NEW id,
             Send([kind |-> "integration", table |-> "integrations", op |-> "update", id |-> id,
                   data |-> [connected |-> connect]])
      PROVE  \E m, q : m \in Slots /\ Takes(m, q) /\ Toggles(q)
  <2> DEFINE request == [kind |-> "integration", table |-> "integrations", op |-> "update",
                         id |-> id, data |-> [connected |-> connect]]
  <2>1. /\ DOMAIN request = {"kind", "table", "op", "id", "data"}
        /\ request.kind = "integration" /\ request.table = "integrations"
        /\ request.op = "update" /\ request["data"] = [connected |-> connect]
    OBVIOUS
  <2>2. Send(request)
    BY <1>1
  <2> HIDE DEF request
  <2>3. PICK m, q : m \in Slots /\ Takes(m, q) /\ IsSent(q, request)
    BY <2>1, <2>2, SendTakes DEF Fields
  <2>4. /\ DOMAIN q = DOMAIN NoMut /\ q.stage = "sent" /\ q.of = TRUE
        /\ q.kind = "integration" /\ q.table = "integrations" /\ q.op = "update"
    BY <2>1, <2>3, SentFields DEF Fields
  <2>5. q["data"] = [connected |-> connect]
    BY <2>1, <2>3 DEF IsSent
  <2> QED
    BY <2>3, <2>4, <2>5 DEF Toggles, CardRequest
<1>2. ASSUME Card(seen) = {},
             Send([kind |-> "integration", table |-> "integrations", op |-> "insert",
                   data |-> [type |-> "slack", connected |-> connect]])
      PROVE  \E m, q : m \in Slots /\ Takes(m, q) /\ Toggles(q)
  <2> DEFINE request == [kind |-> "integration", table |-> "integrations", op |-> "insert",
                         data |-> [type |-> "slack", connected |-> connect]]
  <2>1. /\ DOMAIN request = {"kind", "table", "op", "data"}
        /\ request.kind = "integration" /\ request.table = "integrations"
        /\ request.op = "insert" /\ request["data"] = [type |-> "slack", connected |-> connect]
    OBVIOUS
  <2>2. Send(request)
    BY <1>2
  <2> HIDE DEF request
  <2>3. PICK m, q : m \in Slots /\ Takes(m, q) /\ IsSent(q, request)
    BY <2>1, <2>2, SendTakes DEF Fields
  <2>4. /\ DOMAIN q = DOMAIN NoMut /\ q.stage = "sent" /\ q.of = TRUE
        /\ q.kind = "integration" /\ q.table = "integrations" /\ q.op = "insert"
    BY <2>1, <2>3, SentFields DEF Fields
  <2>5. q["data"] = [type |-> "slack", connected |-> connect]
    BY <2>1, <2>3 DEF IsSent
  <2> QED
    BY <1>2, <2>3, <2>4, <2>5 DEF Toggles, CardRequest, IsSlack
<1> QED
  BY <1>1, <1>2 DEF Toggle

\* The row of the card is updated, or inserted where there is none.
LEMMA ToggleKeeps ==
  ASSUME PagesInv, NEW connect, Toggle(connect), UNCHANGED <<tab, ui, doubts, typings, wipes, unheard>>,
         doubts = {} => timers' = 0 /\ (Card(seen) = {} => timers = 1)
  PROVE  PagesInv'
<1>1. PICK m, q : m \in Slots /\ Takes(m, q) /\ Toggles(q)
  BY ToggleSends
<1>2. Underway(q) /\ SavedKept(q) /\ q.kind # "wipe" /\ q.stage = "sent"
  BY <1>1, PagesConstants DEF Underway, AlertKinds, Toggles, SavedKept
<1>3. StoreTypes' /\ Mutations' /\ Fresh'
  BY <1>1, <1>2, SendStore
<1>4. TabTypes' /\ FormKept'
  BY DEF PagesInv, TabTypes, RulesKept, FormKept
<1>5. EachTyped' /\ RulesKept'
  BY <1>1, <1>2, <1>4, SendWipes, SendRules
<1>6. ASSUME doubts = {} PROVE Uncrossed'
  <2>1. /\ mut'[m] = q /\ mut[m].kind = "none"
        /\ \A n \in Slots \ {m} : mut'[n] = mut[n]
        /\ rows' = rows /\ seen' = seen /\ timers' = 0
    BY <1>1, <1>6, Taken
  <2>2. Uncrossed
    BY <1>6 DEF PagesInv, OneCard
  <2>3. ASSUME q.op = "insert"
        PROVE  rows["integrations"] = {} /\ \A n \in Slots \ {m} : mut[n].kind # "integration"
    <3>1. Card(seen) = {} /\ timers = 1
      BY <1>1, <1>6, <2>3 DEF Toggles
    <3> QED
      BY <2>2, <3>1, NoCardNoRow DEF Uncrossed, Waiting
  <2>4. ASSUME NEW n \in Slots, mut'[n].kind = "integration"
        PROVE  /\ CardRequest(mut'[n])
               /\ mut'[n].op = "insert" /\ mut'[n].stage = "sent" =>
                     /\ rows["integrations"] = {}
                     /\ \A k \in Slots \ {n} : mut'[k].kind = "integration" => mut'[k].op # "insert"
    <3>1. CASE n = m
      BY <1>1, <2>1, <2>3, <3>1 DEF Toggles
    <3>2. CASE n # m
      BY <1>1, <2>1, <2>2, <2>3, <2>4, <3>2 DEF Toggles, Uncrossed
    <3> QED
      BY <3>1, <3>2
  <2> QED
    BY <2>1, <2>2, <2>4 DEF Uncrossed
<1>7. OneCard'
  BY <1>6 DEF OneCard
<1> QED
  BY <1>3, <1>4, <1>5, <1>7 DEF PagesInv

LEMMA DisconnectKeeps == ASSUME PagesInv, Disconnect PROVE PagesInv'
<1>1. /\ Connected(seen) /\ Toggle(FALSE) /\ UNCHANGED <<tab, ui, timers, doubts, typings, wipes, unheard>>
  BY DEF Disconnect, Stays, resets
<1>2. Card(seen) # {}
  BY <1>1 DEF Connected
<1>3. doubts = {} => timers' = 0
  BY <1>1 DEF PagesInv, OneCard, Uncrossed, Waiting
<1> QED
  BY <1>1, <1>2, <1>3, ToggleKeeps

LEMMA ConnectTimeoutKeeps == ASSUME PagesInv, ConnectTimeout PROVE PagesInv'
<1>1. /\ timers > 0 /\ timers' = timers - 1 /\ Toggle(TRUE)
      /\ UNCHANGED <<tab, ui, doubts, typings, wipes, unheard>>
  BY DEF ConnectTimeout, resets
<1>2. doubts = {} => timers \in {0, 1}
  BY DEF PagesInv, OneCard, Uncrossed
<1>3. doubts = {} => timers = 1 /\ timers' = 0
  BY <1>1, <1>2
<1> QED
  BY <1>1, <1>3, ToggleKeeps
-----------------------------------------------------------------------------
(* Alert rules.                                                            *)

\* What is saved reads back as it was.
LEMMA RoundTrip ==
  ASSUME NEW f, f.threshold # Absent, f.event \in Names
  PROVE  Kept(Payload(f))
<1> DEFINE d == Payload(f)
<1>1. /\ d.trigger = f.trigger
      /\ d.application = IF f.scope = "app" THEN f.application ELSE ""
      /\ d.deployment = IF f.scope = "deployment" THEN f.deployment ELSE ""
      /\ d.threshold = IF f.trigger = "volume_threshold" THEN f.threshold ELSE Absent
      /\ d.event = IF f.trigger = "event_reoccurs" THEN Trim[f.event] ELSE ""
  BY DEF Payload
<1>2. d = [enabled |-> d.enabled, trigger |-> d.trigger, application |-> d.application,
           deployment |-> d.deployment, threshold |-> d.threshold, event |-> d.event,
           condition |-> d.condition]
  BY DEF Payload
<1> HIDE DEF d
<1>3. d.application = "" \/ d.deployment = ""
  BY <1>1
<1>4. d.trigger = "volume_threshold" <=> d.threshold # Absent
  BY <1>1
<1>5. d.event \in Names /\ d.event = IF d.trigger = "event_reoccurs" THEN Trim[d.event] ELSE ""
  <2>1. Trim[f.event] \in Names /\ Trim[Trim[f.event]] = Trim[f.event] /\ "" \in Names
    BY NamesTrim
  <2> QED
    BY <1>1, <2>1
<1>6. Kept(d)
  BY <1>2, <1>3, <1>4, <1>5 DEF Kept
<1> QED
  BY <1>6 DEF d

\* And reading it and saving it again writes what it holds, with its condition as the
\* form describes it.
LEMMA SavedAgain ==
  ASSUME NEW d, Kept(d)
  PROVE  Payload(FromRow(d)) = [d EXCEPT !.condition = Condition(FromRow(d))]
<1> DEFINE g == FromRow(d)
<1>1. /\ g.enabled = d.enabled /\ g.trigger = d.trigger
      /\ g.scope = IF d.application # "" THEN "app"
                   ELSE IF d.deployment # "" THEN "deployment" ELSE "all"
      /\ g.application = d.application /\ g.deployment = d.deployment
      /\ g.threshold = IF d.threshold = Absent THEN 50 ELSE d.threshold
      /\ g.event = d.event
  BY DEF FromRow
<1> HIDE DEF g
<1>2. Payload(g) = [enabled |-> g.enabled, trigger |-> g.trigger,
                    application |-> IF g.scope = "app" THEN g.application ELSE "",
                    deployment |-> IF g.scope = "deployment" THEN g.deployment ELSE "",
                    threshold |-> IF g.trigger = "volume_threshold" THEN g.threshold ELSE Absent,
                    event |-> IF g.trigger = "event_reoccurs" THEN Trim[g.event] ELSE "",
                    condition |-> Condition(g)]
  BY DEF Payload
<1>3. /\ d = [enabled |-> d.enabled, trigger |-> d.trigger, application |-> d.application,
              deployment |-> d.deployment, threshold |-> d.threshold, event |-> d.event,
              condition |-> d.condition]
      /\ d.application = "" \/ d.deployment = ""
      /\ d.trigger = "volume_threshold" <=> d.threshold # Absent
      /\ d.event = IF d.trigger = "event_reoccurs" THEN Trim[d.event] ELSE ""
  BY DEF Kept
<1>4. /\ (IF g.scope = "app" THEN g.application ELSE "") = d.application
      /\ (IF g.scope = "deployment" THEN g.deployment ELSE "") = d.deployment
  BY <1>1, <1>3
<1>5. (IF g.trigger = "volume_threshold" THEN g.threshold ELSE Absent) = d.threshold
  BY <1>1, <1>3
<1>6. (IF g.trigger = "event_reoccurs" THEN Trim[g.event] ELSE "") = d.event
  BY <1>1, <1>3
<1>7. Payload(g) = [enabled |-> d.enabled, trigger |-> d.trigger, application |-> d.application,
                    deployment |-> d.deployment, threshold |-> d.threshold, event |-> d.event,
                    condition |-> Condition(g)]
  BY <1>1, <1>2, <1>4, <1>5, <1>6
<1>8. [d EXCEPT !.condition = Condition(g)] =
         [enabled |-> d.enabled, trigger |-> d.trigger, application |-> d.application,
          deployment |-> d.deployment, threshold |-> d.threshold, event |-> d.event,
          condition |-> Condition(g)]
  <2> DEFINE c == Condition(g)
             e == [d EXCEPT !.condition = c]
             r == [enabled |-> d.enabled, trigger |-> d.trigger, application |-> d.application,
                   deployment |-> d.deployment, threshold |-> d.threshold, event |-> d.event,
                   condition |-> c]
  <2> HIDE DEF c
  <2>1. /\ DOMAIN d = {"enabled", "trigger", "application", "deployment", "threshold", "event",
                       "condition"}
        /\ DOMAIN r = DOMAIN d
    BY <1>3
  <2>2. DOMAIN e = DOMAIN d /\ e = [x \in DOMAIN e |-> e[x]] /\ r = [x \in DOMAIN r |-> r[x]]
    BY <1>3
  <2>3. \A x \in DOMAIN d : e[x] = r[x]
    BY <2>1
  <2> HIDE DEF e, r
  <2>4. e = r
    BY <2>1, <2>2, <2>3
  <2> QED
    BY <2>4 DEF e, r, c
<1> QED
  BY <1>7, <1>8 DEF g

\* The switch of a rule changes nothing else.
LEMMA SwitchKept ==
  ASSUME NEW d, NEW e, Kept(d), DOMAIN e = {"enabled"}
  PROVE  Kept(Spread(d, e))
<1> DEFINE s == Spread(d, e)
<1>1. d = [enabled |-> d.enabled, trigger |-> d.trigger, application |-> d.application,
           deployment |-> d.deployment, threshold |-> d.threshold, event |-> d.event,
           condition |-> d.condition]
  BY DEF Kept
<1>2. DOMAIN d = {"enabled", "trigger", "application", "deployment", "threshold", "event", "condition"}
  BY <1>1
<1>3. /\ DOMAIN s = DOMAIN d
      /\ \A x \in DOMAIN d \ {"enabled"} : s[x] = d[x]
      /\ s = [x \in DOMAIN s |-> s[x]]
  BY <1>2 DEF Spread
<1>4. /\ s.trigger = d.trigger /\ s.application = d.application /\ s.deployment = d.deployment
      /\ s.threshold = d.threshold /\ s.event = d.event
  BY <1>2, <1>3
<1> HIDE DEF s
<1>5. s = [enabled |-> s.enabled, trigger |-> s.trigger, application |-> s.application,
           deployment |-> s.deployment, threshold |-> s.threshold, event |-> s.event,
           condition |-> s.condition]
  BY <1>2, <1>3
<1>6. Kept(s)
  BY <1>4, <1>5 DEF Kept
<1> QED
  BY <1>6 DEF s

\* The dialog and the confirmation.
AlertClick ==
    \/ OpenNew \/ OpenEdit \/ CloseDialog \/ AskDelete \/ CancelDelete
    \/ \E field \in DOMAIN EmptyForm : Edit(field)

LEMMA UiFields ==
  ASSUME PagesInv
  PROVE  DOMAIN ui = {"raw", "open", "draft", "text", "editing", "base", "form", "edits", "deleteId"}
BY DEF PagesInv, TabTypes, FreshTab

LEMMA FormFields ==
  /\ DOMAIN EmptyForm = {"filled", "enabled", "trigger", "scope", "application", "deployment",
                         "threshold", "event"}
  /\ EmptyForm.threshold # Absent /\ EmptyForm.event \in Names
  /\ \A d : /\ DOMAIN FromRow(d) = DOMAIN EmptyForm
            /\ FromRow(d).threshold # Absent /\ FromRow(d).event = d.event
<1>1. 50 # Absent
  BY DEF Absent
<1>2. "" \in Names
  BY NamesTrim
<1> QED
  BY <1>1, <1>2 DEF EmptyForm, FromRow

\* A field that is edited is no threshold without a value.
LEMMA EditedForm ==
  ASSUME NEW field \in DOMAIN EmptyForm, NEW v \in FieldValues(field), NEW f,
         DOMAIN f = DOMAIN EmptyForm, f.threshold # Absent, f.event \in Names
  PROVE  LET g == [f EXCEPT ![field] = v]
         IN  DOMAIN g = DOMAIN EmptyForm /\ g.threshold # Absent /\ g.event \in Names
<1>1. CASE field = "threshold"
  <2>1. v \in {0, 10}
    BY <1>1 DEF FieldValues
  <2>2. v # Absent
    BY <2>1 DEF Absent
  <2> QED
    BY <1>1, <2>2
<1>2. CASE field = "event"
  <2>1. v \in Names
    BY <1>2 DEF FieldValues
  <2> QED
    BY <1>2, <2>1
<1>3. CASE field \notin {"threshold", "event"}
  BY <1>3, FormFields
<1> QED
  BY <1>1, <1>2, <1>3

LEMMA AlertClickKeeps == ASSUME PagesInv, AlertClick PROVE PagesInv'
<1>0. UNCHANGED <<store, tab, timers, doubts, typings, wipes, unheard>>
  BY DEF AlertClick, OpenNew, OpenEdit, CloseDialog, AskDelete, CancelDelete, Edit, Stays, resets
<1>1. /\ TabTypes /\ FormKept
      /\ DOMAIN ui = {"raw", "open", "draft", "text", "editing", "base", "form", "edits", "deleteId"}
  BY UiFields DEF PagesInv, RulesKept
<1>2. CASE OpenNew
  <2>1. ui' = [ui EXCEPT !.editing = "new", !.base = {}, !.form = EmptyForm, !.edits = 0]
        /\ tab = "alerts"
    BY <1>2 DEF OpenNew, OnAlerts
  <2>2. ui'.text = ui.text
    BY <1>1, <2>1
  <2>3. TabTypes' /\ FormKept'
    BY <1>0, <1>1, <2>1, FormFields DEF TabTypes, FormKept
  <2> QED
    BY <1>0, <2>2, <2>3, PageOnly
<1>3. CASE OpenEdit
  <2>1. PICK r \in seen["alert_rules"] :
           ui' = [ui EXCEPT !.editing = "row", !.base = {r}, !.form = FromRow(r.data), !.edits = 0]
    BY <1>3 DEF OpenEdit
  <2>2. tab = "alerts"
    BY <1>3 DEF OpenEdit, OnAlerts
  <2> DEFINE f == FromRow(r.data)
  <2>3. DOMAIN f = DOMAIN EmptyForm /\ f.threshold # Absent /\ f.event \in Names
    <3>1. r.data.event \in Names
      BY DEF PagesInv, RulesKept, AllNamed
    <3> QED
      BY <3>1, FormFields
  <2>4. /\ DOMAIN ui' = DOMAIN ui /\ ui'.text = ui.text /\ ui'.raw = ui.raw
        /\ ui'.deleteId = ui.deleteId /\ ui'.editing = "row" /\ ui'.base = {r}
        /\ ui'.form = f /\ ui'.edits = 0
    BY <1>1, <2>1
  <2> HIDE DEF f
  <2>5. TabTypes'
    BY <1>0, <1>1, <2>2, <2>4 DEF TabTypes
  <2>6. FormKept'
    BY <2>3, <2>4 DEF FormKept, f
  <2> QED
    BY <1>0, <2>4, <2>5, <2>6, PageOnly
<1>4. CASE CloseDialog
  <2>1. ui' = [ui EXCEPT !.editing = "closed"]
    BY <1>4 DEF CloseDialog
  <2>2. ui'.text = ui.text
    BY <1>1, <2>1
  <2>3. TabTypes' /\ FormKept'
    BY <1>0, <1>1, <2>1 DEF TabTypes, FormKept
  <2> QED
    BY <1>0, <2>2, <2>3, PageOnly
<1>5. CASE AskDelete \/ CancelDelete
  <2>1. PICK id : ui' = [ui EXCEPT !.deleteId = id]
    BY <1>5 DEF AskDelete, CancelDelete
  <2>2. tab = "alerts"
    BY <1>1, <1>5 DEF AskDelete, CancelDelete, OnAlerts, TabTypes
  <2>3. /\ DOMAIN ui' = DOMAIN ui /\ ui'.text = ui.text /\ ui'.raw = ui.raw
        /\ ui'.editing = ui.editing /\ ui'.base = ui.base
        /\ ui'.form = ui.form /\ ui'.edits = ui.edits
    BY <1>1, <2>1
  <2>4. TabTypes' /\ FormKept'
    BY <1>0, <1>1, <2>2, <2>3 DEF TabTypes, FormKept
  <2> QED
    BY <1>0, <2>3, <2>4, PageOnly
<1>6. ASSUME NEW field \in DOMAIN EmptyForm, Edit(field) PROVE PagesInv'
  <2>1. tab = "alerts" /\ ui.editing # "closed"
    BY <1>6 DEF Edit, OnAlerts
  <2>2. PICK v \in FieldValues(field) : ui' = [ui EXCEPT !.form[field] = v, !.edits = @ + 1]
    BY <1>6 DEF Edit
  <2> DEFINE g == [ui.form EXCEPT ![field] = v]
  <2>3. DOMAIN g = DOMAIN EmptyForm /\ g.threshold # Absent /\ g.event \in Names
    BY <1>1, <2>1, EditedForm DEF FormKept
  <2>4. /\ DOMAIN ui' = DOMAIN ui /\ ui'.text = ui.text /\ ui'.raw = ui.raw
        /\ ui'.deleteId = ui.deleteId /\ ui'.editing = ui.editing /\ ui'.base = ui.base
        /\ ui'.form = g /\ ui'.edits = ui.edits + 1
    BY <1>1, <2>2
  <2> HIDE DEF g
  <2>5. TabTypes'
    BY <1>0, <1>1, <2>1, <2>4 DEF TabTypes
  <2>6. ui'.edits \in Nat /\ ui'.edits # 0
    BY <1>1, <2>4 DEF FormKept
  <2>7. FormKept'
    BY <1>1, <2>3, <2>4, <2>6 DEF FormKept
  <2> QED
    BY <1>0, <2>4, <2>5, <2>7, PageOnly
<1> QED
  BY <1>2, <1>3, <1>4, <1>5, <1>6 DEF AlertClick

LEMMA AlertSend ==
  ASSUME PagesInv, NEW m \in Slots, NEW q, Takes(m, q),
         DOMAIN q = DOMAIN NoMut, q.stage = "sent", q.of = TRUE, q.table = "alert_rules",
         q.kind \in AlertKinds, SavedKept(q), q.op \in {"insert", "update", "delete"},
         UNCHANGED <<tab, timers, doubts, typings, wipes, unheard>>,
         TabTypes', FormKept', ui'.text => ui.text
  PROVE  PagesInv'
<1>1. q.kind \notin {"wipe", "integration", "mint"}
  BY DEF AlertKinds
<1>2. Underway(q)
  BY <1>1, PagesConstants DEF Underway
<1> QED
  BY <1>1, <1>2, SendStore, SendWipes, SendCard, SendRules DEF PagesInv

\* What the dialog saves reads back, and saves a row that was not edited as it was.
LEMMA SaveKeeps == ASSUME PagesInv, Save PROVE PagesInv'
<1> DEFINE d     == Payload(ui.form)
           first == [kind |-> "alert_save", table |-> "alert_rules", data |-> d,
                     base |-> ui.base, touched |-> ui.edits > 0]
<1>0. /\ UNCHANGED <<ui, tab, timers, doubts, typings, wipes, unheard>>
      /\ ui.editing # "closed" /\ CanSave(ui.form)
  BY DEF Save, Stays, resets
<1>1. TabTypes' /\ FormKept' /\ FormKept
  BY <1>0 DEF PagesInv, TabTypes, RulesKept, FormKept
<1>2. Kept(d)
  BY <1>0, <1>1, RoundTrip DEF FormKept
<1> HIDE DEF d
<1>3. /\ DOMAIN first = {"kind", "table", "data", "base", "touched"}
      /\ first.kind = "alert_save" /\ first.table = "alert_rules" /\ first["data"] = d
      /\ first["base"] = ui.base /\ first["touched"] = (ui.edits > 0)
  OBVIOUS
<1>4. \/ ui.editing = "new" /\ Send(Spread(first, [op |-> "insert"]))
      \/ /\ ui.editing = "row"
         /\ \E r \in ui.base : Send(Spread(first, [op |-> "update", id |-> r.id]))
  BY DEF Save, d
<1> HIDE DEF first
<1>5. CASE Send(Spread(first, [op |-> "insert"]))
  <2> DEFINE request == Spread(first, [op |-> "insert"])
  <2>1. /\ DOMAIN request = {"kind", "table", "data", "base", "touched", "op"}
        /\ request.kind = "alert_save" /\ request.table = "alert_rules" /\ request.op = "insert"
        /\ request["data"] = d
    BY <1>3 DEF Spread
  <2>2. Send(request)
    BY <1>5
  <2> HIDE DEF request
  <2>3. PICK m, q : m \in Slots /\ Takes(m, q) /\ IsSent(q, request)
    BY <2>1, <2>2, SendTakes DEF Fields
  <2>4. /\ DOMAIN q = DOMAIN NoMut /\ q.stage = "sent" /\ q.of = TRUE
        /\ q.kind = "alert_save" /\ q.table = "alert_rules" /\ q.op = "insert"
    BY <2>1, <2>3, SentFields DEF Fields
  <2>5. q["data"] = d
    BY <2>1, <2>3 DEF IsSent
  <2>6. SavedKept(q)
    BY <1>2, <2>4, <2>5 DEF SavedKept
  <2> QED
    BY <1>0, <1>1, <2>3, <2>4, <2>6, AlertSend DEF AlertKinds
<1>6. ASSUME ui.editing = "row", NEW r \in ui.base,
             Send(Spread(first, [op |-> "update", id |-> r.id]))
      PROVE  PagesInv'
  <2> DEFINE request == Spread(first, [op |-> "update", id |-> r.id])
  <2>1. /\ DOMAIN request = {"kind", "table", "data", "base", "touched", "op", "id"}
        /\ request.kind = "alert_save" /\ request.table = "alert_rules" /\ request.op = "update"
        /\ request["data"] = d /\ request["id"] = r.id /\ request["base"] = ui.base
        /\ request["touched"] = (ui.edits > 0)
    BY <1>3 DEF Spread
  <2>2. Send(request)
    BY <1>6
  <2> HIDE DEF request
  <2>3. PICK m, q : m \in Slots /\ Takes(m, q) /\ IsSent(q, request)
    BY <2>1, <2>2, SendTakes DEF Fields
  <2>4. /\ DOMAIN q = DOMAIN NoMut /\ q.stage = "sent" /\ q.of = TRUE
        /\ q.kind = "alert_save" /\ q.table = "alert_rules" /\ q.op = "update"
    BY <2>1, <2>3, SentFields DEF Fields
  <2>5. /\ q["data"] = d /\ q["id"] = r.id /\ q["base"] = ui.base
        /\ q["touched"] = (ui.edits > 0)
    BY <2>1, <2>3 DEF IsSent
  <2>6. ui.base = {r} /\ (ui.edits = 0 => ui.form = FromRow(r.data))
    BY <1>1, <1>6 DEF FormKept
  <2>7. ~q.touched => q.data = Payload(FromRow(r.data))
    <3> DEFINE edited == ui.edits > 0
    <3>1. q["touched"] = edited
      BY <2>5
    <3>2. ~edited => ui.edits = 0
      BY <1>1 DEF FormKept
    <3> HIDE DEF edited
    <3>3. ~q.touched => ui.edits = 0
      BY <3>1, <3>2, Zenon
    <3> QED
      BY <2>5, <2>6, <3>3 DEF d
  <2>8. SavedKept(q)
    BY <1>2, <2>4, <2>5, <2>6, <2>7 DEF SavedKept
  <2> QED
    BY <1>0, <1>1, <2>3, <2>4, <2>8, AlertSend DEF AlertKinds
<1> QED
  BY <1>4, <1>5, <1>6

LEMMA ToggleEnabledKeeps == ASSUME PagesInv, ToggleEnabled PROVE PagesInv'
<1>0. UNCHANGED <<ui, tab, timers, doubts, typings, wipes, unheard>>
  BY DEF ToggleEnabled, Stays, resets
<1>1. TabTypes' /\ FormKept'
  BY <1>0 DEF PagesInv, TabTypes, RulesKept, FormKept
<1>2. PICK r \in seen["alert_rules"] :
        Send([kind |-> "alert_toggle", table |-> "alert_rules", op |-> "update", id |-> r.id,
              data |-> [enabled |-> ~r.data.enabled]])
  BY DEF ToggleEnabled
<1> DEFINE d == [enabled |-> ~r.data.enabled]
           request == [kind |-> "alert_toggle", table |-> "alert_rules", op |-> "update",
                       id |-> r.id, data |-> d]
<1>3. Send(request) /\ DOMAIN d = {"enabled"}
  BY <1>2
<1> HIDE DEF d
<1>4. /\ DOMAIN request = {"kind", "table", "op", "id", "data"}
      /\ request.kind = "alert_toggle" /\ request.table = "alert_rules"
      /\ request.op = "update" /\ request["data"] = d
  OBVIOUS
<1> HIDE DEF request
<1>5. PICK m, q : m \in Slots /\ Takes(m, q) /\ IsSent(q, request)
  BY <1>3, <1>4, SendTakes DEF Fields
<1>6. /\ DOMAIN q = DOMAIN NoMut /\ q.stage = "sent" /\ q.of = TRUE
      /\ q.kind = "alert_toggle" /\ q.table = "alert_rules" /\ q.op = "update"
  BY <1>4, <1>5, SentFields DEF Fields
<1>7. q["data"] = d
  BY <1>4, <1>5 DEF IsSent
<1>8. SavedKept(q)
  BY <1>3, <1>6, <1>7 DEF SavedKept
<1> QED
  BY <1>0, <1>1, <1>5, <1>6, <1>8, AlertSend DEF AlertKinds

LEMMA ConfirmDeleteKeeps == ASSUME PagesInv, ConfirmDelete PROVE PagesInv'
<1> DEFINE request == [kind |-> "alert_delete", table |-> "alert_rules", op |-> "delete",
                       id |-> ui.deleteId]
<1>0. /\ UNCHANGED <<tab, timers, doubts, typings, wipes, unheard>>
      /\ ui' = [ui EXCEPT !.deleteId = 0] /\ Send(request)
  BY DEF ConfirmDelete, Stays, resets
<1>1. ui'.text = ui.text
  BY <1>0, UiFields
<1>2. TabTypes' /\ FormKept'
  BY <1>0, UiFields DEF PagesInv, TabTypes, RulesKept, FormKept
<1>4. /\ DOMAIN request = {"kind", "table", "op", "id"}
      /\ request.kind = "alert_delete" /\ request.table = "alert_rules"
      /\ request.op = "delete"
  OBVIOUS
<1> HIDE DEF request
<1>5. PICK m, q : m \in Slots /\ Takes(m, q) /\ IsSent(q, request)
  BY <1>0, <1>4, SendTakes DEF Fields
<1>6. /\ DOMAIN q = DOMAIN NoMut /\ q.stage = "sent" /\ q.of = TRUE
      /\ q.kind = "alert_delete" /\ q.table = "alert_rules" /\ q.op = "delete"
  BY <1>4, <1>5, SentFields DEF Fields
<1>8. SavedKept(q)
  BY <1>6 DEF SavedKept
<1> QED
  BY <1>0, <1>1, <1>2, <1>5, <1>6, <1>8, AlertSend DEF AlertKinds
-----------------------------------------------------------------------------
(* Changes of tab.                                                         *)

\* The mutations of a page that is left go on, and are not heard of.
LEMMA Left ==
  ASSUME PagesInv, NEW t, SwitchTab(t)
  PROVE  /\ DOMAIN mut' = Slots
         /\ \A m \in Slots : /\ mut'[m].of = FALSE /\ DOMAIN mut'[m] = DOMAIN mut[m]
                             /\ \A f \in Fields \ {"of"} : mut'[m][f] = mut[m][f]
                             /\ mut[m] = NoMut => mut'[m] = NoMut
<1>1. mut' = [m \in Slots |-> [mut[m] EXCEPT !.of = FALSE]]
  BY DEF SwitchTab, Visit
<1>2. ASSUME NEW m \in Slots
      PROVE  DOMAIN mut[m] = Fields
  BY DEF PagesInv, Mutations, Underway, NoMut, Fields
<1>3. ASSUME NEW m \in Slots, mut[m] = NoMut PROVE mut'[m] = NoMut
  <2>1. mut'[m] = [NoMut EXCEPT !.of = FALSE]
    BY <1>1, <1>3
  <2>2. [NoMut EXCEPT !.of = FALSE] = NoMut
    <3>1. NoMut.of = FALSE
      BY DEF NoMut
    <3>2. [NoMut EXCEPT !.of = NoMut.of] = NoMut
      BY DEF NoMut
    <3> HIDE DEF NoMut
    <3> QED
      BY <3>1, <3>2, Zenon
  <2> QED
    BY <2>1, <2>2
<1> QED
  BY <1>1, <1>2, <1>3 DEF Fields

LEMMA SwitchTabKeeps == ASSUME PagesInv, NEW t \in Tabs, SwitchTab(t) PROVE PagesInv'
<1>1. /\ tab' = t /\ ui' = FreshTab /\ UNCHANGED <<timers, doubts, typings, wipes, unheard>>
      /\ UNCHANGED <<rows, lastGiven, loaded, seen, got, failed, missed>>
      /\ fetch' = [x \in Tables |->
                      IF x \in TablesOf(t) /\ fetch[x] = "none" THEN "asked" ELSE fetch[x]]
      /\ ops < MaxOps /\ ops' = ops + 1
  BY DEF SwitchTab, Visit, resets
<1>2. /\ DOMAIN mut' = Slots
      /\ \A m \in Slots : /\ mut'[m].of = FALSE /\ DOMAIN mut'[m] = DOMAIN mut[m]
                          /\ \A f \in Fields \ {"of"} : mut'[m][f] = mut[m][f]
                          /\ mut[m] = NoMut => mut'[m] = NoMut
  BY Left
<1>3. ASSUME NEW m \in Slots
      PROVE  /\ mut'[m].stage = mut[m].stage /\ mut'[m].kind = mut[m].kind
             /\ mut'[m].table = mut[m].table /\ mut'[m].op = mut[m].op
             /\ mut'[m].id = mut[m].id /\ mut'[m].data = mut[m].data
             /\ mut'[m].base = mut[m].base /\ mut'[m].touched = mut[m].touched
  BY <1>2 DEF Fields
<1>4. StoreTypes'
  <2>1. ops' \in 0 .. MaxOps
    BY <1>1, PagesConstants DEF PagesInv, StoreTypes
  <2>2. fetch' \in [Tables -> {"none", "asked", "read", "overtaken"}]
    BY <1>1 DEF PagesInv, StoreTypes
  <2> QED
    BY <1>1, <2>1, <2>2 DEF PagesInv, StoreTypes, RowsHaveIds
<1>5. Mutations'
  <2>1. ASSUME NEW m \in Slots, mut[m] # NoMut PROVE Underway(mut[m])'
    <3>1. Underway(mut[m])
      BY <2>1 DEF PagesInv, Mutations
    <3>2. DOMAIN mut'[m] = DOMAIN mut[m] /\ mut'[m].of = FALSE
      BY <1>2
    <3> QED
      BY <1>3, <3>1, <3>2 DEF Underway
  <2> QED
    BY <1>2, <2>1 DEF Mutations
<1>6. TabTypes' /\ FormKept'
  BY <1>1 DEF TabTypes, FreshTab, FormKept
<1>7. Fresh'
  <2>1. \A x : Awaits(x)' = Awaits(x)
    BY <1>3 DEF Awaits
  <2>2. ASSUME NEW x \in Tables
        PROVE  /\ fetch'[x] \in {"read", "overtaken"} => fetch'[x] = fetch[x]
               /\ x \in TablesOf(t) => fetch'[x] # "none"
    BY <1>1 DEF PagesInv, StoreTypes
  <2>3. TablesOf(t) \subseteq Tables
    BY ViewIsOfTables
  <2> QED
    BY <1>1, <2>1, <2>2, <2>3 DEF PagesInv, Fresh, TablesOnView
<1>8. OneCard'
  <2>1. fetch["integrations"] # "overtaken" => fetch'["integrations"] # "overtaken"
    BY <1>1, PagesConstants
  <2> QED
    BY <1>1, <1>3, <2>1 DEF PagesInv, OneCard, Uncrossed, Waiting, CardRequest
<1>9. RulesKept'
  BY <1>1, <1>3, <1>6 DEF PagesInv, RulesKept, SavedKept, AllNamed
<1>10. EachTyped'
  <2>1. /\ wipes \in Nat /\ typings \in Nat /\ unheard \in Nat
        /\ wipes + Behind + Owed <= typings + unheard
        /\ \A m, n \in Heard : m = n
    BY DEF PagesInv, EachTyped
  <2>2. /\ Sending' = {} /\ Answering' = {}
        /\ LeftBehind' = LeftBehind \cup Sending
    <3>1. \A m \in Slots : mut[m] = NoMut \/ mut[m].of \in BOOLEAN
      BY DEF PagesInv, Mutations, Underway
    <3>2. NoMut.kind # "wipe"
      BY DEF NoMut
    <3> QED
      BY <1>2, <1>3, <3>1, <3>2 DEF Sending, Answering, LeftBehind
  <2>3. Owed' = 0 /\ Heard' = {}
    BY <1>1, <2>2 DEF Owed, Heard, FreshTab
  <2>4. Behind' <= Behind + Owed /\ Behind' \in Nat
    <3>1. CASE Sending = {}
      <4>1. Behind' = Behind
        BY <2>2, <3>1 DEF Behind
      <4> QED
        BY <4>1, OwedIs
    <3>2. CASE Sending # {}
      <4>1. PICK n : n \in Sending
        BY <3>2
      <4>2. Sending = {n}
        BY <2>1, <4>1 DEF Heard
      <4>3. n \notin LeftBehind
        BY <4>1 DEF Sending, Answering, LeftBehind
      <4>4. LeftBehind' = LeftBehind \cup {n}
        BY <2>2, <4>2
      <4>5. Behind' = Behind + 1
        BY <4>3, <4>4, OwedIs, FS_AddElement DEF Behind
      <4>6. Owed = 1
        BY <3>2 DEF Owed
      <4> QED
        BY <4>5, <4>6, OwedIs
    <3> QED
      BY <3>1, <3>2
  <2>5. wipes' + Behind' + Owed' <= typings' + unheard'
    <3> DEFINE a == Behind
               b == Behind'
               c == Owed
               d == Owed'
    <3>1. a \in Nat /\ b \in Nat /\ c \in {0, 1} /\ d = 0 /\ b <= a + c
      BY <2>3, <2>4, OwedIs
    <3>2. wipes + a + c <= typings + unheard
      BY <2>1
    <3> HIDE DEF a, b, c, d
    <3>3. wipes' + b + d <= typings' + unheard'
      BY <1>1, <2>1, <3>1, <3>2
    <3> QED
      BY <3>3 DEF b, d
  <2> QED
    BY <1>1, <2>1, <2>3, <2>5 DEF EachTyped
<1> QED
  BY <1>4, <1>5, <1>6, <1>7, <1>8, <1>9, <1>10 DEF PagesInv
-----------------------------------------------------------------------------
(* Answers.                                                                *)

\* A mutation is over.
LEMMA SlotFreed ==
  ASSUME PagesInv, NEW m \in Slots, mut' = [mut EXCEPT ![m] = NoMut],
         UNCHANGED <<rows, lastGiven, loaded, seen, got, failed, ops, tab, timers, doubts>>,
         fetch' \in [Tables -> {"none", "asked", "read", "overtaken"}],
         \A t \in Tables : fetch'[t] \in {fetch[t], "asked"},
         missed' \subseteq Tables
  PROVE  /\ StoreTypes' /\ Mutations' /\ OneCard'
         /\ FormKept' => RulesKept'
         /\ DOMAIN mut = Slots /\ mut'[m] = NoMut
         /\ \A n \in Slots \ {m} : mut'[n] = mut[n]
<1>1. /\ mut'[m] = NoMut /\ mut'[m].kind = "none"
      /\ \A n \in Slots \ {m} : mut'[n] = mut[n]
      /\ DOMAIN mut' = Slots /\ DOMAIN mut = Slots
  BY DEF PagesInv, Mutations, NoMut
<1>2. StoreTypes'
  BY DEF PagesInv, StoreTypes, RowsHaveIds
<1>3. Mutations'
  BY <1>1 DEF PagesInv, Mutations, Underway
<1>4. OneCard'
  <2>1. fetch["integrations"] # "overtaken" => fetch'["integrations"] # "overtaken"
    BY PagesConstants
  <2>2. Waiting => Waiting'
    <3>1. Connected(seen)' = Connected(seen)
      OBVIOUS
    <3> QED
      BY <1>1, <2>1, <3>1 DEF Waiting
  <2> QED
    BY <1>1, <2>2 DEF PagesInv, OneCard, Uncrossed
<1>5. FormKept' => RulesKept'
  <2>1. SavedKept(NoMut)
    BY DEF SavedKept, NoMut
  <2> QED
    BY <1>1, <2>1 DEF PagesInv, RulesKept, SavedKept, AllNamed
<1> QED
  BY <1>1, <1>2, <1>3, <1>4, <1>5

\* A table whose mutation is over is fetched again, or the mutation was missed.
LEMMA AnsweredFresh ==
  ASSUME PagesInv, NEW m \in Slots, mut' = [mut EXCEPT ![m] = NoMut],
         UNCHANGED <<rows, loaded, seen, got, failed, tab>>, missed \subseteq missed',
         \A t \in Tables : fetch'[t] \in {fetch[t], "asked"},
         \A t \in Tables : mut[m].stage = "done" /\ mut[m].table = t =>
            \/ fetch'[t] = "asked" \/ t \in missed' \/ fetch[t] \in {"asked", "read"}
            \/ fetch[t] = "none" /\ t \notin TablesOnView
  PROVE  Fresh'
<1>1. \A n \in Slots \ {m} : mut'[n] = mut[n]
  BY DEF PagesInv, Mutations
<1>2. \A t : Awaits(t) => Awaits(t)' \/ (mut[m].stage = "done" /\ mut[m].table = t)
  BY <1>1 DEF Awaits
<1>3. ASSUME NEW t \in Tables
      PROVE  /\ fetch'[t] = "read" => got'[t] = rows'[t]
             /\ fetch'[t] = "overtaken" => t \in missed' \/ Awaits(t)'
  <2>1. fetch'[t] # "asked" => fetch'[t] = fetch[t]
    OBVIOUS
  <2>2. /\ fetch[t] = "read" => got[t] = rows[t]
        /\ fetch[t] = "overtaken" => t \in missed \/ Awaits(t)
    BY DEF PagesInv, Fresh
  <2> QED
    BY <1>2, <2>1, <2>2
<1>4. ASSUME NEW t \in TablesOnView, fetch'[t] = "none"
      PROVE  t \in failed \/ (t \in loaded /\ (t \in missed' \/ Awaits(t)' \/ seen[t] = rows[t]))
  <2>1. t \in Tables
    BY ViewIsOfTables DEF PagesInv, TabTypes, TablesOnView
  <2>2. fetch[t] = "none"
    BY <1>4, <2>1
  <2>3. t \in failed \/ (t \in loaded /\ (t \in missed \/ Awaits(t) \/ seen[t] = rows[t]))
    BY <2>2 DEF PagesInv, Fresh
  <2> QED
    BY <1>2, <1>4, <2>1, <2>2, <2>3
<1> QED
  BY <1>3, <1>4 DEF Fresh, TablesOnView

\* A mutation that fails after its commit is missed, unless a fetch is still to read it.
LEMMA FailKeeps ==
  ASSUME PagesInv, NEW m \in Slots, Failed(m), UNCHANGED <<tab, ui, timers, doubts, typings>>
  PROVE  PagesInv'
<1>1. /\ mut[m].stage # "none" /\ mut' = [mut EXCEPT ![m] = NoMut]
      /\ missed' = missed \cup {t \in Tables : /\ mut[m].stage = "done" /\ mut[m].table = t
                                               /\ fetch[t] \in {"none", "overtaken"}}
      /\ UNCHANGED <<rows, lastGiven, loaded, seen, fetch, got, failed, ops>>
      /\ unheard' = IF mut[m].kind = "wipe" /\ mut[m].of /\ mut[m].stage = "done"
                    THEN unheard + 1 ELSE unheard
      /\ UNCHANGED wipes
  BY DEF Failed, Fail, queries
<1>2. Underway(mut[m])
  BY <1>1 DEF PagesInv, Mutations, NoMut
<1>3. missed' \subseteq Tables /\ missed \subseteq missed'
  BY <1>1 DEF PagesInv, StoreTypes
<1>4. TabTypes' /\ FormKept'
  BY DEF PagesInv, TabTypes, RulesKept, FormKept
<1>5. /\ StoreTypes' /\ Mutations' /\ OneCard' /\ RulesKept'
      /\ DOMAIN mut = Slots /\ mut'[m] = NoMut
      /\ \A n \in Slots \ {m} : mut'[n] = mut[n]
  <2>1. fetch' \in [Tables -> {"none", "asked", "read", "overtaken"}]
    BY <1>1 DEF PagesInv, StoreTypes
  <2> QED
    BY <1>1, <1>3, <1>4, <2>1, SlotFreed
<1>6. Fresh'
  <2>1. \A t \in Tables : mut[m].stage = "done" /\ mut[m].table = t =>
           t \in missed' \/ fetch[t] \in {"asked", "read"}
    BY <1>1 DEF PagesInv, StoreTypes
  <2> QED
    BY <1>1, <1>3, <2>1, AnsweredFresh
<1>7. EachTyped'
  <2>1. NoMut.kind # "wipe"
    BY DEF NoMut
  <2>2. /\ Sending' = Sending \ {m} /\ Answering' = Answering \ {m}
        /\ LeftBehind' = LeftBehind \ {m}
    BY <1>5, <2>1 DEF Sending, Answering, LeftBehind
  <2>3. Heard' \subseteq Heard /\ LeftBehind' \subseteq LeftBehind
    BY <2>2 DEF Heard
  <2>4. \A i, j \in Heard : i = j
    BY DEF PagesInv, EachTyped
  <2>5. unheard \in Nat
    BY DEF PagesInv, EachTyped
  <2>6. CASE mut[m].kind = "wipe" /\ mut[m].of /\ mut[m].stage = "done"
    <3>1. m \in Answering /\ m \notin Sending
      BY <1>2, <2>6 DEF Sending, Answering, LeftBehind, Underway
    <3>2. Sending = {}
      BY <2>4, <3>1 DEF Heard
    <3>3. Owed = 0
      BY <3>1, <3>2 DEF Owed
    <3>4. unheard' = unheard + 1
      BY <1>1, <2>6
    <3> QED
      BY <1>1, <2>3, <2>5, <3>3, <3>4, TypedShrinks
  <2>7. CASE ~(mut[m].kind = "wipe" /\ mut[m].of /\ mut[m].stage = "done")
    <3>1. unheard' = unheard
      BY <1>1, <2>7
    <3>2. m \notin Answering
      BY <2>7 DEF Sending, Answering, LeftBehind
    <3>3. Answering' = Answering
      BY <2>2, <3>2
    <3>4. Owed' <= Owed
      <4>1. CASE Sending # {}
        <5>1. Owed = 1
          BY <4>1 DEF Owed
        <5> QED
          BY <5>1, OwedIs
      <4>2. CASE Sending = {}
        <5>1. Sending' = {}
          BY <2>2, <4>2
        <5>2. Owed' = IF ui.text /\ Answering = {} THEN 1 ELSE 0
          BY <3>3, <5>1 DEF Owed
        <5> QED
          BY <4>2, <5>2 DEF Owed
      <4> QED
        BY <4>1, <4>2
    <3> QED
      BY <1>1, <2>3, <2>5, <3>1, <3>4, TypedShrinks
  <2> QED
    BY <2>6, <2>7
<1> QED
  BY <1>4, <1>5, <1>6, <1>7 DEF PagesInv

\* What every answer does to the store.
LEMMA AnswerStore ==
  ASSUME PagesInv, NEW m \in Slots, Succeed(m, TablesOnView), UNCHANGED <<tab, timers, doubts>>
  PROVE  /\ StoreTypes' /\ Mutations' /\ Fresh' /\ OneCard'
         /\ FormKept' => RulesKept'
         /\ mut'[m] = NoMut /\ \A n \in Slots \ {m} : mut'[n] = mut[n]
         /\ Underway(mut[m]) /\ mut[m].stage = "done"
<1> DEFINE told      == Invalidates(mut[m]) \cap TablesOnView
           restarted == {t \in told : t \in loaded \/ fetch[t] = "none"}
<1>1. /\ mut[m].stage = "done" /\ mut' = [mut EXCEPT ![m] = NoMut]
      /\ fetch' = [t \in Tables |-> IF t \in restarted THEN "asked" ELSE fetch[t]]
      /\ missed' = missed \cup {t \in Tables \ restarted :
                                  t = mut[m].table /\ fetch[t] = "overtaken"}
      /\ UNCHANGED <<rows, lastGiven, loaded, seen, got, failed, ops>>
  BY DEF Succeed
<1>2. Underway(mut[m])
  BY <1>1 DEF PagesInv, Mutations, NoMut
<1>3. \A t \in Tables : t = mut[m].table /\ t \in TablesOnView => t \in told
  BY <1>2, PagesConstants DEF Underway, Invalidates
<1>4. \A t : t \in restarted <=> t \in told /\ (t \in loaded \/ fetch[t] = "none")
  OBVIOUS
<1> HIDE DEF told, restarted
<1>5. \A t \in Tables : fetch'[t] = IF t \in restarted THEN "asked" ELSE fetch[t]
  BY <1>1
<1>6. fetch' \in [Tables -> {"none", "asked", "read", "overtaken"}]
  BY <1>1 DEF PagesInv, StoreTypes
<1>7. missed' \subseteq Tables /\ missed \subseteq missed'
  BY <1>1 DEF PagesInv, StoreTypes
<1>8. ASSUME NEW t \in Tables, mut[m].table = t
      PROVE  \/ fetch'[t] = "asked" \/ t \in missed' \/ fetch[t] \in {"asked", "read"}
             \/ fetch[t] = "none" /\ t \notin TablesOnView
  <2>1. fetch[t] \in {"none", "asked", "read", "overtaken"}
    BY DEF PagesInv, StoreTypes
  <2>2. CASE fetch[t] = "none"
    BY <1>3, <1>4, <1>5, <1>8, <2>2
  <2>3. CASE fetch[t] = "overtaken"
    BY <1>1, <1>5, <1>8, <2>3
  <2> QED
    BY <2>1, <2>2, <2>3
<1>9. Fresh'
  BY <1>1, <1>5, <1>7, <1>8, AnsweredFresh
<1> QED
  BY <1>1, <1>2, <1>5, <1>6, <1>7, <1>9, SlotFreed

LEMMA AlertAnsweredKeeps == ASSUME PagesInv, NEW m \in Slots, AlertAnswered(m) PROVE PagesInv'
<1>1. /\ mut[m].table = "alert_rules" /\ Succeed(m, TablesOnView)
      /\ ui' = ui \/ ui' = [ui EXCEPT !.editing = "closed"]
      /\ UNCHANGED <<tab, timers, doubts, typings, wipes, unheard>>
  BY DEF AlertAnswered, Stays, resets
<1>2. ui'.text = ui.text /\ TabTypes' /\ FormKept'
  <2>1. CASE ui' = ui
    BY <1>1, <2>1 DEF PagesInv, TabTypes, RulesKept, FormKept
  <2>2. CASE ui' = [ui EXCEPT !.editing = "closed"]
    <3>1. ui'.text = ui.text
      BY <2>2, UiFields
    <3>2. TabTypes' /\ FormKept'
      BY <1>1, <2>2, UiFields DEF PagesInv, TabTypes, RulesKept, FormKept
    <3> QED
      BY <3>1, <3>2
  <2> QED
    BY <1>1, <2>1, <2>2
<1>3. /\ StoreTypes' /\ Mutations' /\ Fresh' /\ OneCard' /\ RulesKept' /\ Underway(mut[m])
      /\ mut'[m] = NoMut /\ \A n \in Slots \ {m} : mut'[n] = mut[n]
  BY <1>1, <1>2, AnswerStore
<1>4. EachTyped'
  <2>1. NoMut.kind # "wipe" /\ mut[m].kind # "wipe"
    BY <1>1, <1>3, PagesConstants DEF NoMut, Underway
  <2>2. Sending' = Sending /\ Answering' = Answering /\ LeftBehind' = LeftBehind
    BY <1>3, <2>1, SameWipes
  <2> QED
    BY <1>1, <1>2, <2>2, TypedStays
<1> QED
  BY <1>2, <1>3, <1>4 DEF PagesInv

\* What an answer does to a tab of the settings.
LEMMA AfterSuccessFields ==
  ASSUME PagesInv, NEW q
  PROVE  LET v == AfterSuccess(q) IN
         /\ DOMAIN v = DOMAIN ui
         /\ v.raw = IF q.kind = "mint" THEN q.id ELSE ui.raw
         /\ v.editing = ui.editing /\ v.base = ui.base /\ v.form = ui.form
         /\ v.edits = ui.edits /\ v.deleteId = ui.deleteId
<1>1. CASE q.kind = "mint"
  <2>1. AfterSuccess(q) = [ui EXCEPT !.raw = q.id]
    BY <1>1 DEF AfterSuccess
  <2> QED
    BY <1>1, <2>1, UiFields
<1>2. CASE q.kind = "rule_create"
  <2>1. AfterSuccess(q) = [ui EXCEPT !.open = FALSE, !.draft = "empty"]
    BY <1>2 DEF AfterSuccess
  <2> QED
    BY <1>2, <2>1, UiFields
<1>3. CASE q.kind = "invite"
  <2>1. AfterSuccess(q) = [ui EXCEPT !.draft = "empty"]
    BY <1>3 DEF AfterSuccess
  <2> QED
    BY <1>3, <2>1, UiFields
<1>4. CASE q.kind = "wipe"
  <2>1. AfterSuccess(q) = [ui EXCEPT !.open = FALSE, !.text = FALSE]
    BY <1>4 DEF AfterSuccess
  <2> QED
    BY <1>4, <2>1, UiFields
<1>5. CASE q.kind \notin {"mint", "rule_create", "invite", "wipe"}
  <2>1. AfterSuccess(q) = ui
    BY <1>5 DEF AfterSuccess
  <2> QED
    BY <1>5, <2>1
<1> QED
  BY <1>1, <1>2, <1>3, <1>4, <1>5

LEMMA AfterSuccessText ==
  ASSUME PagesInv, NEW q
  PROVE  /\ q.kind # "wipe" => AfterSuccess(q).text = ui.text
         /\ q.kind = "wipe" => ~AfterSuccess(q).text
<1>1. CASE q.kind = "mint"
  BY <1>1, UiFields DEF AfterSuccess
<1>2. CASE q.kind = "rule_create"
  BY <1>2, UiFields DEF AfterSuccess
<1>3. CASE q.kind = "invite"
  BY <1>3, UiFields DEF AfterSuccess
<1>4. CASE q.kind = "wipe"
  BY <1>4, UiFields DEF AfterSuccess
<1>5. CASE q.kind \notin {"mint", "rule_create", "invite", "wipe"}
  BY <1>5 DEF AfterSuccess
<1> QED
  BY <1>1, <1>2, <1>3, <1>4, <1>5

\* A reset that is answered clears the word, where it is heard of.
LEMMA TabAnsweredKeeps == ASSUME PagesInv, NEW m \in Slots, TabAnswered(m) PROVE PagesInv'
<1>1. /\ Succeed(m, TablesOnView)
      /\ ui' = IF mut[m].of THEN AfterSuccess(mut[m]) ELSE ui
      /\ UNCHANGED <<tab, timers, doubts, typings, wipes, unheard>>
  BY DEF TabAnswered, Stays, resets
<1>2. /\ StoreTypes' /\ Mutations' /\ Fresh' /\ OneCard' /\ (FormKept' => RulesKept')
      /\ mut'[m] = NoMut /\ (\A n \in Slots \ {m} : mut'[n] = mut[n]) /\ Underway(mut[m])
      /\ mut[m].stage = "done"
  BY <1>1, AnswerStore
<1>3. TabTypes' /\ FormKept'
  <2>1. CASE ~mut[m].of
    BY <1>1, <2>1 DEF PagesInv, TabTypes, RulesKept, FormKept
  <2>2. CASE mut[m].of
    <3>1. ui' = AfterSuccess(mut[m])
      BY <1>1, <2>2
    <3>2. /\ DOMAIN ui' = DOMAIN ui
          /\ ui'.raw = IF mut[m].kind = "mint" THEN mut[m].id ELSE ui.raw
          /\ ui'.editing = ui.editing /\ ui'.base = ui.base /\ ui'.form = ui.form
          /\ ui'.edits = ui.edits /\ ui'.deleteId = ui.deleteId
      BY <3>1, AfterSuccessFields
    <3>3. mut[m].kind = "mint" => tab \in {"agent", "tokens"}
      BY <1>2, <2>2 DEF Underway
    <3> QED
      BY <1>1, <3>2, <3>3 DEF PagesInv, TabTypes, RulesKept, FormKept
  <2> QED
    BY <2>1, <2>2
<1>4. NoMut.kind # "wipe"
  BY DEF NoMut
<1>5. CASE mut[m].kind # "wipe"
  <2>1. ui'.text => ui.text
    <3>1. mut[m].of => ui'.text = ui.text
      BY <1>1, <1>5, AfterSuccessText
    <3> QED
      BY <1>1, <3>1
  <2>2. Sending' = Sending /\ Answering' = Answering /\ LeftBehind' = LeftBehind
    BY <1>2, <1>4, <1>5, SameWipes
  <2>3. EachTyped'
    BY <1>1, <2>1, <2>2, TypedStays
  <2> QED
    BY <1>2, <1>3, <2>3 DEF PagesInv
<1>6. CASE mut[m].kind = "wipe"
  <2>1. /\ Sending' = Sending \ {m} /\ Answering' = Answering \ {m}
        /\ LeftBehind' = LeftBehind \ {m}
    BY <1>2, <1>4 DEF Sending, Answering, LeftBehind
  <2>2. Heard' \subseteq Heard /\ LeftBehind' \subseteq LeftBehind
    BY <2>1 DEF Heard
  <2>3. Owed' <= Owed
    <3>1. CASE mut[m].of
      <4>1. m \in Answering /\ m \notin Sending
        BY <1>2, <1>6, <3>1 DEF Sending, Answering, LeftBehind, Underway
      <4>2. \A i, j \in Heard : i = j
        BY DEF PagesInv, EachTyped
      <4>3. Sending' = {}
        BY <2>1, <4>1, <4>2 DEF Heard
      <4>4. ~ui'.text
        BY <1>1, <1>6, <3>1, AfterSuccessText
      <4>5. Owed' = 0
        BY <4>3, <4>4 DEF Owed
      <4> QED
        BY <4>5, OwedIs
    <3>2. CASE ~mut[m].of
      <4>1. m \notin Answering \cup Sending
        BY <3>2 DEF Sending, Answering, LeftBehind
      <4>2. Answering' = Answering /\ Sending' = Sending
        BY <2>1, <4>1
      <4>3. ui' = ui
        BY <1>1, <3>2
      <4>4. Owed' = Owed
        BY <4>2, <4>3 DEF Owed
      <4> QED
        BY <4>4, OwedIs
    <3> QED
      BY <3>1, <3>2
  <2>4. unheard \in Nat
    BY DEF PagesInv, EachTyped
  <2>5. EachTyped'
    BY <1>1, <2>2, <2>3, <2>4, TypedShrinks
  <2> QED
    BY <1>2, <1>3, <2>5 DEF PagesInv
<1> QED
  BY <1>5, <1>6
-----------------------------------------------------------------------------
(* The collector's side.                                                   *)

LEMMA AppliedCases ==
  ASSUME NEW q, NEW data
  PROVE  /\ q.op = "insert" => Applied(q, data) = data \cup {[id |-> lastGiven + 1, data |-> q.data]}
         /\ q.op = "update" => Applied(q, data) =
                {IF r.id = q.id THEN [r EXCEPT !.data = Spread(r.data, q.data)] ELSE r : r \in data}
         /\ q.op = "delete" => Applied(q, data) = {r \in data : r.id # q.id}
BY DEF Applied

\* A row that is updated keeps its id.
LEMMA UpdatedRow ==
  ASSUME NEW r, NEW d, r = [id |-> r.id, data |-> r.data]
  PROVE  [r EXCEPT !.data = d] = [id |-> r.id, data |-> d]
OBVIOUS

LEMMA UpdatedRows ==
  ASSUME NEW q, q.op = "update", NEW data, \A r \in data : r = [id |-> r.id, data |-> r.data]
  PROVE  \A s \in Applied(q, data) : \E r \in data :
            /\ s.id = r.id /\ s = [id |-> s.id, data |-> s.data]
            /\ IF r.id = q.id THEN s.data = Spread(r.data, q.data) ELSE s = r
            /\ s = [id |-> r.id, data |-> IF r.id = q.id THEN Spread(r.data, q.data) ELSE r.data]
<1> DEFINE U(r) == IF r.id = q.id THEN [r EXCEPT !.data = Spread(r.data, q.data)] ELSE r
<1>1. Applied(q, data) = {U(r) : r \in data}
  BY AppliedCases
<1>2. SUFFICES ASSUME NEW r \in data, NEW s, s = U(r)
               PROVE  /\ s.id = r.id /\ s = [id |-> s.id, data |-> s.data]
                      /\ IF r.id = q.id THEN s.data = Spread(r.data, q.data) ELSE s = r
                      /\ s = [id |-> r.id, data |-> IF r.id = q.id THEN Spread(r.data, q.data) ELSE r.data]
  BY <1>1
<1>3. r = [id |-> r.id, data |-> r.data]
  OBVIOUS
<1>4. CASE r.id = q.id
  <2>1. s = [id |-> r.id, data |-> Spread(r.data, q.data)]
    BY <1>2, <1>3, <1>4, UpdatedRow
  <2> QED
    BY <1>4, <2>1
<1>5. CASE r.id # q.id
  <2>1. s = r
    BY <1>2, <1>5
  <2> QED
    BY <1>3, <1>5, <2>1
<1> QED
  BY <1>4, <1>5

\* A mutation that is committed.
Commits(m, q) ==
    /\ q = mut[m] /\ q.stage = "sent" /\ Underway(q)
    /\ q.op \in {"update", "delete"} => rows[q.table] # {}
    /\ DOMAIN rows' = Tables /\ rows' = [t \in Tables |-> rows'[t]]
    /\ \A t \in Tables : rows'[t] = IF t = q.table THEN Applied(q, rows[t]) ELSE rows[t]
    /\ fetch' \in [Tables -> {"none", "asked", "read", "overtaken"}]
    /\ \A t \in Tables :
          fetch'[t] = IF t = q.table /\ fetch[t] = "read" THEN "overtaken" ELSE fetch[t]
    /\ lastGiven' = IF q.op = "insert" THEN lastGiven + 1 ELSE lastGiven
    /\ DOMAIN mut' = Slots /\ DOMAIN mut'[m] = DOMAIN q
    /\ mut'[m].stage = "done" /\ \A f \in Fields \ {"stage", "id"} : mut'[m][f] = q[f]
    /\ q.op # "insert" => mut'[m].id = q.id
    /\ \A n \in Slots \ {m} : mut'[n] = mut[n]
    /\ UNCHANGED <<loaded, seen, got, failed, missed, ops>>

LEMMA CommitCommits ==
  ASSUME PagesInv, NEW m \in Slots, Commit(m)
  PROVE  Commits(m, mut[m])
<1> DEFINE q == mut[m]
           i == IF q.op = "insert" THEN lastGiven' ELSE q.id
<1>1. /\ q.stage = "sent"
      /\ q.op \in {"update", "delete"} => \E r \in rows[q.table] : r.id = q.id
      /\ rows' = [t \in Tables |-> IF t = q.table THEN Applied(q, rows[t]) ELSE rows[t]]
      /\ fetch' = [t \in Tables |->
                      IF t = q.table /\ fetch[t] = "read" THEN "overtaken" ELSE fetch[t]]
      /\ lastGiven' = IF q.op = "insert" THEN lastGiven + 1 ELSE lastGiven
      /\ UNCHANGED <<loaded, seen, got, failed, missed, ops>>
  BY DEF Commit
<1>2. mut' = [mut EXCEPT ![m] = [mut[m] EXCEPT !.stage = "done", !.id = i]]
  <2>1. DOMAIN mut = Slots
    BY DEF PagesInv, Mutations
  <2> QED
    BY <2>1 DEF Commit
<1>3. Underway(q) /\ DOMAIN mut = Slots
  BY <1>1 DEF PagesInv, Mutations, NoMut
<1>4. DOMAIN q = Fields
  BY <1>3 DEF Underway, NoMut, Fields
<1>5. mut'[m] = [q EXCEPT !.stage = "done", !.id = i]
  BY <1>2, <1>3
<1>6. q.op # "insert" => i = q.id
  OBVIOUS
<1> HIDE DEF i
<1>7. /\ DOMAIN mut'[m] = DOMAIN q
      /\ mut'[m].stage = "done" /\ mut'[m].id = i
      /\ \A f \in Fields \ {"stage", "id"} : mut'[m][f] = q[f]
  BY <1>4, <1>5 DEF Fields
<1>8. DOMAIN mut' = Slots /\ \A n \in Slots \ {m} : mut'[n] = mut[n]
  BY <1>2, <1>3
<1>9. fetch' \in [Tables -> {"none", "asked", "read", "overtaken"}]
  BY <1>1 DEF PagesInv, StoreTypes
<1> HIDE DEF q
<1>10. /\ DOMAIN rows' = Tables /\ rows' = [t \in Tables |-> rows'[t]]
       /\ \A t \in Tables : rows'[t] = IF t = q.table THEN Applied(q, rows[t]) ELSE rows[t]
       /\ \A t \in Tables :
             fetch'[t] = IF t = q.table /\ fetch[t] = "read" THEN "overtaken" ELSE fetch[t]
  BY <1>1
<1> QED
  BY <1>1, <1>3, <1>6, <1>7, <1>8, <1>9, <1>10 DEF Commits, q

\* Rows keep ids of their own.
LEMMA CommitTypes ==
  ASSUME PagesInv, NEW m \in Slots, NEW q, Commits(m, q)
  PROVE  StoreTypes'
<1>1. /\ DOMAIN rows' = Tables /\ rows' = [t \in Tables |-> rows'[t]] /\ lastGiven \in Nat
      /\ \A t \in Tables : rows'[t] = IF t = q.table THEN Applied(q, rows[t]) ELSE rows[t]
      /\ lastGiven' = IF q.op = "insert" THEN lastGiven + 1 ELSE lastGiven
      /\ q.op \in {"insert", "update", "delete", "wipe"}
      /\ q.table \in Tables => q.op # "wipe"
      /\ fetch' \in [Tables -> {"none", "asked", "read", "overtaken"}]
      /\ UNCHANGED <<loaded, seen, got, failed, missed, ops>>
  BY PagesConstants DEF Commits, Underway, PagesInv, StoreTypes
<1>2. lastGiven' \in Nat /\ 1 .. lastGiven \subseteq 1 .. lastGiven'
  BY <1>1
<1>3. ASSUME NEW old,
             \A r \in old : /\ r.id \in 1 .. lastGiven /\ r = [id |-> r.id, data |-> r.data]
                            /\ \A s \in old : r.id = s.id => r = s,
             q.op # "wipe"
      PROVE  \A r \in Applied(q, old) :
                /\ r.id \in 1 .. lastGiven' /\ r = [id |-> r.id, data |-> r.data]
                /\ \A s \in Applied(q, old) : r.id = s.id => r = s
  <2>1. CASE q.op = "insert"
    <3> DEFINE new == [id |-> lastGiven + 1, data |-> q.data]
    <3>1. Applied(q, old) = old \cup {new}
      BY <2>1, AppliedCases
    <3>2. new.id = lastGiven + 1 /\ new = [id |-> new.id, data |-> new.data]
      OBVIOUS
    <3> HIDE DEF new
    <3>3. new.id \in 1 .. lastGiven' /\ \A r \in old : r.id # new.id
      BY <1>1, <1>3, <2>1, <3>2
    <3> QED
      BY <1>2, <1>3, <3>1, <3>2, <3>3
  <2>2. CASE q.op = "update"
    <3>1. \A s \in Applied(q, old) : \E r \in old :
             /\ s.id = r.id /\ s = [id |-> s.id, data |-> s.data]
             /\ s = [id |-> r.id, data |-> IF r.id = q.id THEN Spread(r.data, q.data) ELSE r.data]
      BY <1>3, <2>2, UpdatedRows
    <3>2. \A r, s \in Applied(q, old) : r.id = s.id => r = s
      BY <1>3, <3>1
    <3> QED
      BY <1>2, <1>3, <3>1, <3>2
  <2>3. CASE q.op = "delete"
    <3>1. Applied(q, old) \subseteq old
      BY <2>3, AppliedCases
    <3> QED
      BY <1>2, <1>3, <3>1
  <2> QED
    BY <1>1, <1>3, <2>1, <2>2, <2>3
<1>4. ASSUME NEW t \in Tables, NEW r \in rows'[t]
      PROVE  /\ r.id \in 1 .. lastGiven' /\ r = [id |-> r.id, data |-> r.data]
             /\ \A s \in rows'[t] : r.id = s.id => r = s
  <2>1. \A x \in rows[t] : /\ x.id \in 1 .. lastGiven /\ x = [id |-> x.id, data |-> x.data]
                           /\ \A y \in rows[t] : x.id = y.id => x = y
    BY DEF PagesInv, StoreTypes, RowsHaveIds
  <2>2. CASE t = q.table
    <3>1. rows'[t] = Applied(q, rows[t]) /\ q.op # "wipe"
      BY <1>1, <2>2
    <3> QED
      BY <1>3, <1>4, <2>1, <3>1
  <2>3. CASE t # q.table
    BY <1>1, <1>2, <1>4, <2>1, <2>3
  <2> QED
    BY <2>2, <2>3
<1>5. RowsHaveIds'
  BY <1>4 DEF RowsHaveIds
<1> QED
  BY <1>1, <1>2, <1>5 DEF PagesInv, StoreTypes

\* A request is the same after it was committed, but for the id of an insertion.
LEMMA CommittedFields ==
  ASSUME PagesInv, NEW m \in Slots, NEW q, Commits(m, q)
  PROVE  /\ mut'[m].kind = q.kind /\ mut'[m].table = q.table /\ mut'[m].op = q.op
         /\ mut'[m].of = q.of /\ mut'[m].data = q.data
         /\ mut'[m].base = q.base /\ mut'[m].touched = q.touched
BY DEF Commits, Fields

LEMMA CommitMutations ==
  ASSUME PagesInv, NEW m \in Slots, NEW q, Commits(m, q), UNCHANGED <<tab, ui, typings, unheard>>,
         wipes' = IF q.kind = "wipe" THEN wipes + 1 ELSE wipes
  PROVE  Mutations' /\ Fresh' /\ EachTyped' /\ TabTypes' /\ FormKept'
<1>1. /\ mut'[m].kind = q.kind /\ mut'[m].table = q.table /\ mut'[m].op = q.op
      /\ mut'[m].of = q.of
  BY CommittedFields
<1>2. /\ mut[m] = q /\ q.stage = "sent" /\ mut'[m].stage = "done" /\ Underway(q)
      /\ \A n \in Slots \ {m} : mut'[n] = mut[n]
  BY DEF Commits
<1>3. Mutations'
  <2>1. Underway(mut[m])'
    <3>1. DOMAIN mut'[m] = DOMAIN q
      BY DEF Commits
    <3> QED
      BY <1>1, <1>2, <3>1 DEF Underway
  <2> QED
    BY <1>2, <2>1 DEF Commits, PagesInv, Mutations, Underway
<1>4. Fresh'
  <2>1. \A t : Awaits(t) => Awaits(t)'
    BY <1>2 DEF Awaits
  <2>2. Awaits(q.table)'
    BY <1>1, <1>2 DEF Awaits
  <2>3. ASSUME NEW t \in Tables
        PROVE  /\ rows'[t] = IF t = q.table THEN Applied(q, rows[t]) ELSE rows[t]
               /\ fetch'[t] = IF t = q.table /\ fetch[t] = "read" THEN "overtaken" ELSE fetch[t]
    BY DEF Commits
  <2>4. ASSUME NEW t \in Tables
        PROVE  /\ fetch'[t] = "read" => got'[t] = rows'[t]
               /\ fetch'[t] = "overtaken" => t \in missed' \/ Awaits(t)'
    <3>1. got' = got /\ missed' = missed
      BY DEF Commits
    <3>2. /\ fetch[t] = "read" => got[t] = rows[t]
          /\ fetch[t] = "overtaken" => t \in missed \/ Awaits(t)
      BY DEF PagesInv, Fresh
    <3>3. CASE t = q.table
      BY <2>2, <2>3, <3>3
    <3>4. CASE t # q.table
      BY <2>1, <2>3, <3>1, <3>2, <3>4
    <3> QED
      BY <3>3, <3>4
  <2>5. ASSUME NEW t \in TablesOnView, fetch'[t] = "none"
        PROVE  t \in failed' \/ (t \in loaded' /\ (t \in missed' \/ Awaits(t)' \/ seen'[t] = rows'[t]))
    <3>1. t \in Tables
      BY ViewIsOfTables DEF PagesInv, TabTypes, TablesOnView
    <3>2. fetch[t] = "none" /\ (t # q.table => rows'[t] = rows[t])
      BY <2>3, <2>5, <3>1
    <3>3. t \in failed \/ (t \in loaded /\ (t \in missed \/ Awaits(t) \/ seen[t] = rows[t]))
      BY <3>2 DEF PagesInv, Fresh
    <3>4. UNCHANGED <<loaded, seen, failed, missed>>
      BY DEF Commits
    <3>5. CASE t = q.table
      BY <2>2, <3>3, <3>4, <3>5
    <3>6. CASE t # q.table
      BY <2>1, <3>2, <3>3, <3>4, <3>6
    <3> QED
      BY <3>5, <3>6
  <2> QED
    BY <2>4, <2>5 DEF Fresh, TablesOnView
<1>5. EachTyped'
  <2>1. /\ wipes \in Nat /\ typings \in Nat /\ unheard \in Nat
        /\ wipes + Behind + Owed <= typings + unheard
        /\ \A i, j \in Heard : i = j
    BY DEF PagesInv, EachTyped
  <2>2. CASE q.kind # "wipe"
    <3>1. Sending' = Sending /\ Answering' = Answering /\ LeftBehind' = LeftBehind
      BY <1>1, <1>2, <2>2, SameWipes
    <3> QED
      BY <2>2, <3>1, TypedStays
  <2>3. CASE q.kind = "wipe" /\ q.of
    <3>1. q.of = TRUE
      BY <1>2, <2>3 DEF Underway
    <3>2. m \in Sending /\ m \notin Answering
      BY <1>2, <2>3, <3>1 DEF Sending, Answering, LeftBehind
    <3>3. Sending = {m} /\ Answering = {}
      BY <2>1, <3>2 DEF Heard
    <3>4. /\ Sending' = {} /\ Answering' = {m}
          /\ LeftBehind' = LeftBehind
      <4>1. \A n \in Slots \ {m} : n \notin Sending /\ n \notin Answering
        BY <3>3
      <4>2. Sending' = {}
        BY <1>1, <1>2, <4>1 DEF Sending
      <4>3. Answering' = {m}
        <5>1. \A n \in Slots \ {m} :
                 ~(mut'[n].kind = "wipe" /\ mut'[n].stage = "done" /\ mut'[n].of)
          BY <1>2, <4>1 DEF Answering
        <5>2. mut'[m].kind = "wipe" /\ mut'[m].stage = "done" /\ mut'[m].of = TRUE
          BY <1>1, <1>2, <2>3, <3>1
        <5> QED
          BY <5>1, <5>2 DEF Answering
      <4>4. LeftBehind' = LeftBehind
        BY <1>1, <1>2, <2>3, <3>1 DEF LeftBehind
      <4> QED
        BY <4>2, <4>3, <4>4
    <3>5. Owed = 1 /\ Owed' = 0
      BY <3>3, <3>4 DEF Owed
    <3>6. Behind' = Behind /\ Heard' = {m}
      BY <3>4 DEF Behind, Heard
    <3>7. wipes' + Behind' + Owed' <= typings' + unheard'
      BY <2>1, <2>3, <3>5, <3>6, OwedIs
    <3> QED
      BY <2>1, <2>3, <3>6, <3>7 DEF EachTyped
  <2>4. CASE q.kind = "wipe" /\ ~q.of
    <3>1. q.of = FALSE
      BY <1>2, <2>4 DEF Underway
    <3>2. m \in LeftBehind
      BY <1>2, <2>4, <3>1 DEF Sending, Answering, LeftBehind
    <3>3. /\ LeftBehind' = LeftBehind \ {m}
          /\ Sending' = Sending
          /\ Answering' = Answering
      BY <1>1, <1>2, <3>1 DEF Sending, Answering, LeftBehind
    <3>4. Behind' = Behind - 1 /\ Behind' \in Nat
      BY <3>2, <3>3, OwedIs, FS_RemoveElement, FS_CardinalityType DEF Behind
    <3>5. Owed' = Owed /\ Heard' = Heard
      BY <3>3 DEF Owed, Heard
    <3>6. wipes' + Behind' + Owed' <= typings' + unheard'
      BY <2>1, <2>4, <3>4, <3>5, OwedIs
    <3> QED
      BY <2>1, <2>4, <3>5, <3>6 DEF EachTyped
  <2> QED
    BY <2>2, <2>3, <2>4
<1>6. TabTypes' /\ FormKept'
  BY DEF PagesInv, TabTypes, RulesKept, FormKept
<1> QED
  BY <1>3, <1>4, <1>5, <1>6

\* The row of the card: the only insertion meets no row, and an update keeps the type.
LEMMA CommitCard ==
  ASSUME PagesInv, NEW m \in Slots, NEW q, Commits(m, q), UNCHANGED <<timers, doubts>>
  PROVE  OneCard'
<1> SUFFICES ASSUME doubts' = {} PROVE Uncrossed'
  BY DEF OneCard
<1>1. UNCHANGED <<timers, doubts, seen>> /\ Uncrossed
  BY DEF tabs, resets, Commits, PagesInv, OneCard
<1>2. /\ mut'[m].kind = q.kind /\ mut'[m].table = q.table /\ mut'[m].op = q.op
      /\ mut'[m].data = q.data /\ mut'[m].stage = "done"
      /\ \A n \in Slots \ {m} : mut'[n] = mut[n]
      /\ mut[m] = q /\ q.stage = "sent"
  BY CommittedFields DEF Commits
<1>3. "integrations" \in Tables
  BY PagesConstants
<1>4. CASE q.kind # "integration"
  <2>1. rows'["integrations"] = rows["integrations"]
    BY <1>3, <1>4 DEF Commits, Underway
  <2>2. ASSUME NEW n \in Slots, mut'[n].kind = "integration"
        PROVE  n # m /\ mut'[n] = mut[n]
    BY <1>2, <1>4, <2>2
  <2>3. fetch'["integrations"] = fetch["integrations"]
    BY <1>3, <1>4 DEF Commits, Underway
  <2>4. timers = 1 => Waiting'
    <3>1. Connected(seen)' = Connected(seen)
      BY <1>1
    <3> QED
      BY <1>1, <1>2, <1>4, <2>1, <2>2, <2>3, <3>1 DEF Uncrossed, Waiting
  <2> QED
    BY <1>1, <1>2, <1>4, <2>1, <2>2, <2>4 DEF Uncrossed
<1>5. CASE q.kind = "integration"
  <2> DEFINE old == rows["integrations"]
  <2>1. /\ timers = 0 /\ CardRequest(q)
        /\ q.op = "insert" => /\ old = {}
                              /\ \A n \in Slots \ {m} : mut[n].kind = "integration" => mut[n].op # "insert"
        /\ \A r, s \in old : r = s /\ IsSlack(r.data)
    BY <1>1, <1>2, <1>5 DEF Uncrossed, Waiting
  <2>2. /\ rows'["integrations"] = Applied(q, old) /\ q.op \in {"insert", "update", "delete"}
        /\ q.op \in {"update", "delete"} => old # {}
    BY <1>3, <1>5 DEF Commits, Underway
  <2>3. \A r \in old : r = [id |-> r.id, data |-> r.data]
    BY <1>3 DEF PagesInv, StoreTypes, RowsHaveIds
  <2> HIDE DEF old
  <2>4. \A r, s \in Applied(q, old) : r = s /\ IsSlack(r.data)
    <3>1. CASE q.op = "insert"
      <4>1. Applied(q, old) = {[id |-> lastGiven + 1, data |-> q.data]}
        BY <2>1, <3>1, AppliedCases
      <4> QED
        BY <2>1, <3>1, <4>1 DEF CardRequest
    <3>2. CASE q.op = "update"
      <4>1. \A s \in Applied(q, old) : \E r \in old :
               /\ s = [id |-> r.id, data |-> IF r.id = q.id THEN Spread(r.data, q.data) ELSE r.data]
        BY <2>3, <3>2, UpdatedRows
      <4>2. \A r \in old : IsSlack(Spread(r.data, q.data))
        BY <2>1, <3>2 DEF CardRequest, IsSlack, Spread
      <4>3. ASSUME NEW r \in Applied(q, old) PROVE IsSlack(r.data)
        <5>1. PICK o \in old :
                 r = [id |-> o.id, data |-> IF o.id = q.id THEN Spread(o.data, q.data) ELSE o.data]
          BY <4>1
        <5> QED
          BY <2>1, <4>2, <5>1
      <4>4. ASSUME NEW r \in Applied(q, old), NEW s \in Applied(q, old) PROVE r = s
        BY <2>1, <4>1
      <4> QED
        BY <4>3, <4>4
    <3>3. CASE q.op = "delete"
      BY <2>1, <3>3, AppliedCases
    <3> QED
      BY <2>2, <3>1, <3>2, <3>3
  <2>5. ASSUME NEW n \in Slots, mut'[n].kind = "integration"
        PROVE  CardRequest(mut'[n])
    <3>1. CASE n = m
      BY <1>2, <2>1, <3>1 DEF CardRequest
    <3>2. CASE n # m
      BY <1>1, <1>2, <2>5, <3>2 DEF Uncrossed
    <3> QED
      BY <3>1, <3>2
  <2>6. ASSUME NEW n \in Slots, mut'[n].kind = "integration", mut'[n].op = "insert",
               mut'[n].stage = "sent"
        PROVE  FALSE
    <3>1. n # m /\ mut[n] = mut'[n]
      BY <1>2, <2>6
    <3>2. old = {} /\ q.op # "insert"
      BY <1>1, <1>2, <1>5, <2>6, <3>1 DEF Uncrossed, old
    <3> QED
      BY <2>2, <3>2
  <2> QED
    BY <1>1, <2>1, <2>2, <2>4, <2>5, <2>6 DEF Uncrossed
<1> QED
  BY <1>4, <1>5

\* A payload replaces the whole of a rule.
LEMMA SpreadAll ==
  ASSUME NEW d, NEW e, Kept(d), Kept(e)
  PROVE  Spread(d, e) = e
<1>1. ASSUME NEW x, Kept(x)
      PROVE  /\ DOMAIN x = {"enabled", "trigger", "application", "deployment", "threshold", "event",
                            "condition"}
             /\ x = [f \in DOMAIN x |-> x[f]]
  <2>1. x = [enabled |-> x.enabled, trigger |-> x.trigger, application |-> x.application,
             deployment |-> x.deployment, threshold |-> x.threshold, event |-> x.event,
             condition |-> x.condition]
    BY <1>1 DEF Kept
  <2> QED
    BY <2>1
<1>2. DOMAIN d = DOMAIN e /\ e = [f \in DOMAIN e |-> e[f]]
  BY <1>1
<1> QED
  BY <1>2 DEF Spread

LEMMA CommitRules ==
  ASSUME PagesInv, NEW m \in Slots, NEW q, Commits(m, q), FormKept'
  PROVE  RulesKept'
<1>1. /\ mut'[m].kind = q.kind /\ mut'[m].table = q.table /\ mut'[m].op = q.op
      /\ mut'[m].data = q.data /\ mut'[m].base = q.base /\ mut'[m].touched = q.touched
      /\ (q.op # "insert" => mut'[m].id = q.id)
      /\ \A n \in Slots \ {m} : mut'[n] = mut[n]
      /\ mut[m] = q
  BY CommittedFields DEF Commits
<1>2. SavedKept(q) /\ \A r \in rows["alert_rules"] : Kept(r.data)
  BY <1>1 DEF PagesInv, RulesKept
<1>3. ASSUME NEW n \in Slots PROVE SavedKept(mut'[n])
  <2>1. CASE n = m
    BY <1>1, <1>2, <2>1 DEF SavedKept
  <2>2. CASE n # m
    BY <1>1, <2>2 DEF PagesInv, RulesKept
  <2> QED
    BY <2>1, <2>2
<1>4. ASSUME NEW s \in rows'["alert_rules"] PROVE Kept(s.data)
  <2>0. "alert_rules" \in Tables
    BY PagesConstants
  <2>1. CASE q.table # "alert_rules"
    BY <1>2, <1>4, <2>0, <2>1 DEF Commits
  <2>2. CASE q.table = "alert_rules"
    <3> DEFINE old == rows["alert_rules"]
    <3>1. rows'["alert_rules"] = Applied(q, old) /\ q.kind \in AlertKinds /\ q.op # "wipe"
          /\ q.op \in {"insert", "update", "delete", "wipe"}
      BY <2>0, <2>2, PagesConstants DEF Commits, Underway, AlertKinds
    <3>2. \A r \in old : r = [id |-> r.id, data |-> r.data]
      BY <2>0 DEF PagesInv, StoreTypes, RowsHaveIds
    <3>3. \A r \in old : Kept(r.data)
      BY <1>2
    <3> HIDE DEF old
    <3>4. CASE q.op = "insert"
      <4>1. q.kind = "alert_save"
        BY <1>2, <3>1, <3>4 DEF SavedKept, AlertKinds
      <4>2. Kept(q.data)
        BY <1>2, <4>1 DEF SavedKept
      <4>3. Applied(q, old) = old \cup {[id |-> lastGiven + 1, data |-> q.data]}
        BY <3>4, AppliedCases
      <4> QED
        BY <1>4, <3>1, <3>3, <4>2, <4>3
    <3>5. CASE q.op = "update"
      <4>1. PICK r \in old : IF r.id = q.id THEN s.data = Spread(r.data, q.data) ELSE s = r
        BY <1>4, <3>1, <3>2, <3>5, UpdatedRows
      <4>2. Kept(Spread(r.data, q.data))
        <5>1. CASE q.kind = "alert_save"
          <6>1. Kept(q.data)
            BY <1>2, <5>1 DEF SavedKept
          <6> QED
            BY <3>3, <6>1, SpreadAll
        <5>2. CASE q.kind = "alert_toggle"
          <6>1. DOMAIN q.data = {"enabled"}
            BY <1>2, <5>2 DEF SavedKept
          <6> QED
            BY <3>3, <6>1, SwitchKept
        <5>3. CASE q.kind = "alert_delete"
          BY <1>2, <3>5, <5>3 DEF SavedKept
        <5> QED
          BY <3>1, <5>1, <5>2, <5>3 DEF AlertKinds
      <4> QED
        BY <3>3, <4>1, <4>2
    <3>6. CASE q.op = "delete"
      BY <1>4, <3>1, <3>3, <3>6, AppliedCases
    <3> QED
      BY <3>1, <3>4, <3>5, <3>6
  <2> QED
    BY <2>1, <2>2
<1>5. AllNamed(seen)' /\ AllNamed(got)'
  BY DEF Commits, PagesInv, RulesKept, AllNamed
<1> QED
  BY <1>3, <1>4, <1>5 DEF RulesKept

LEMMA CommitKeeps ==
  ASSUME PagesInv, NEW m \in Slots, Committed(m), UNCHANGED <<tab, ui, timers, doubts, typings>>
  PROVE  PagesInv'
<1>1. Commits(m, mut[m]) /\ unheard' = unheard
  BY CommitCommits DEF Committed
<1>2. wipes' = IF mut[m].kind = "wipe" THEN wipes + 1 ELSE wipes
  BY DEF Committed
<1>3. StoreTypes' /\ Mutations' /\ Fresh' /\ EachTyped' /\ TabTypes' /\ FormKept' /\ OneCard'
  BY <1>1, <1>2, CommitTypes, CommitMutations, CommitCard
<1>4. RulesKept'
  BY <1>1, <1>3, CommitRules
<1> QED
  BY <1>3, <1>4 DEF PagesInv

\* What a fetch does to a table leaves the mutations and the page alone.
LEMMA FetchOnly ==
  ASSUME PagesInv,
         UNCHANGED <<rows, lastGiven, mut, ops, tab, ui, timers, doubts, typings, wipes, unheard>>
  PROVE  /\ Mutations' /\ TabTypes' /\ FormKept' /\ EachTyped' /\ RowsHaveIds'
         /\ \A t : Awaits(t)' = Awaits(t)
         /\ AllNamed(seen)' /\ AllNamed(got)' => RulesKept'
         /\ (timers = 1 /\ Waiting => Waiting') => OneCard'
<1>1. Mutations' /\ TabTypes' /\ FormKept' /\ RowsHaveIds'
  BY DEF PagesInv, Mutations, Underway, TabTypes, RulesKept, FormKept, StoreTypes, RowsHaveIds
<1>2. EachTyped'
  <2>1. Sending' = Sending /\ Answering' = Answering /\ LeftBehind' = LeftBehind
    BY SameWipes
  <2> QED
    BY <2>1, TypedStays
<1>3. \A t : Awaits(t)' = Awaits(t)
  BY DEF Awaits
<1>4. AllNamed(seen)' /\ AllNamed(got)' => RulesKept'
  BY <1>1 DEF PagesInv, RulesKept
<1>5. (timers = 1 /\ Waiting => Waiting') => OneCard'
  BY DEF PagesInv, OneCard, Uncrossed
<1> QED
  BY <1>1, <1>2, <1>3, <1>4, <1>5

\* What is read is what is stored.
LEMMA ReadKeeps ==
  ASSUME PagesInv, NEW t \in Tables, Read(t),
         UNCHANGED <<tab, ui, timers, doubts, typings, wipes, unheard>>
  PROVE  PagesInv'
<1>1. /\ fetch' = [fetch EXCEPT ![t] = "read"] /\ got' = [got EXCEPT ![t] = rows[t]]
      /\ missed' = missed \ {t}
      /\ UNCHANGED <<rows, lastGiven, loaded, seen, failed, mut, ops>>
  BY DEF Read
<1>2. /\ DOMAIN got = Tables /\ DOMAIN got' = Tables
      /\ got'[t] = rows[t] /\ \A x \in Tables \ {t} : got'[x] = got[x]
      /\ fetch' \in [Tables -> {"none", "asked", "read", "overtaken"}]
      /\ fetch'[t] = "read" /\ \A x \in Tables \ {t} : fetch'[x] = fetch[x]
  BY <1>1 DEF PagesInv, StoreTypes
<1>3. /\ Mutations' /\ TabTypes' /\ EachTyped' /\ RowsHaveIds' /\ \A x : Awaits(x)' = Awaits(x)
      /\ AllNamed(seen)' /\ AllNamed(got)' => RulesKept'
      /\ (timers = 1 /\ Waiting => Waiting') => OneCard'
  BY <1>1, FetchOnly
<1>4. StoreTypes'
  BY <1>1, <1>2, <1>3 DEF PagesInv, StoreTypes
<1>5. Fresh'
  <2>1. TablesOnView \subseteq Tables
    BY ViewIsOfTables DEF PagesInv, TabTypes, TablesOnView
  <2>2. \A x \in Tables \ {t} : x \in missed' <=> x \in missed
    BY <1>1
  <2> QED
    BY <1>1, <1>2, <1>3, <2>1, <2>2 DEF PagesInv, Fresh, TablesOnView
<1>6. RulesKept'
  <2>1. \A r \in rows["alert_rules"] : r.data.event \in Names
    BY DEF PagesInv, RulesKept, Kept
  <2>2. AllNamed(seen)' /\ AllNamed(got)'
    BY <1>1, <1>2, <2>1, PagesConstants DEF PagesInv, RulesKept, AllNamed
  <2> QED
    BY <1>3, <2>2
<1>7. OneCard'
  <2>1. Connected(seen)' = Connected(seen)
    BY <1>1
  <2>2. Waiting => Waiting'
    BY <1>1, <1>2, <2>1, PagesConstants DEF Waiting
  <2> QED
    BY <1>3, <2>2
<1> QED
  BY <1>3, <1>4, <1>5, <1>6, <1>7 DEF PagesInv

\* An answer is what was read; an error leaves the data.
LEMMA FetchedKeeps ==
  ASSUME PagesInv, NEW t \in Tables, Fetched(t),
         UNCHANGED <<tab, ui, timers, doubts, typings, wipes, unheard>>
  PROVE  PagesInv'
<1>1. /\ fetch' = [fetch EXCEPT ![t] = "none"] /\ got' = [got EXCEPT ![t] = {}]
      /\ UNCHANGED <<rows, lastGiven, missed, mut, ops>>
      /\ \/ /\ fetch[t] \in {"read", "overtaken"} /\ seen' = [seen EXCEPT ![t] = got[t]]
            /\ loaded' = loaded \cup {t} /\ failed' = failed \ {t}
         \/ failed' = failed \cup {t} /\ UNCHANGED <<loaded, seen>>
  BY DEF Fetched, Answered, Errs
<1>2. /\ DOMAIN got' = Tables /\ DOMAIN seen' = Tables
      /\ got'[t] = {} /\ \A x \in Tables \ {t} : got'[x] = got[x]
      /\ fetch' \in [Tables -> {"none", "asked", "read", "overtaken"}]
      /\ fetch'[t] = "none" /\ \A x \in Tables \ {t} : fetch'[x] = fetch[x]
      /\ \A x \in Tables \ {t} : seen'[x] = seen[x]
      /\ \/ fetch[t] \in {"read", "overtaken"} /\ seen'[t] = got[t] /\ t \in loaded'
         \/ seen'[t] = seen[t] /\ t \in failed'
  BY <1>1 DEF PagesInv, StoreTypes
<1>3. /\ Mutations' /\ TabTypes' /\ EachTyped' /\ RowsHaveIds' /\ \A x : Awaits(x)' = Awaits(x)
      /\ AllNamed(seen)' /\ AllNamed(got)' => RulesKept'
      /\ (timers = 1 /\ Waiting => Waiting') => OneCard'
  BY <1>1, FetchOnly
<1>4. StoreTypes'
  BY <1>1, <1>2, <1>3 DEF PagesInv, StoreTypes
<1>5. /\ fetch[t] = "read" => got[t] = rows[t]
      /\ fetch[t] = "overtaken" => t \in missed \/ Awaits(t)
  BY DEF PagesInv, Fresh
<1>6. Fresh'
  <2>1. TablesOnView \subseteq Tables
    BY ViewIsOfTables DEF PagesInv, TabTypes, TablesOnView
  <2>2. \A x \in Tables \ {t} : (x \in loaded' <=> x \in loaded) /\ (x \in failed' <=> x \in failed)
    BY <1>1
  <2>3. t \in failed' \/ (t \in loaded' /\ (t \in missed \/ Awaits(t) \/ seen'[t] = rows[t]))
    BY <1>2, <1>5
  <2>4. ASSUME NEW x \in Tables
        PROVE  /\ fetch'[x] = "read" => got'[x] = rows'[x]
               /\ fetch'[x] = "overtaken" => x \in missed' \/ Awaits(x)'
    BY <1>1, <1>2, <1>3 DEF PagesInv, Fresh
  <2>5. ASSUME NEW x \in TablesOnView, fetch'[x] = "none"
        PROVE  x \in failed' \/ (x \in loaded' /\ (x \in missed \/ Awaits(x) \/ seen'[x] = rows[x]))
    <3>1. CASE x = t
      BY <2>3, <3>1
    <3>2. CASE x # t
      BY <1>2, <2>1, <2>2, <2>5, <3>2 DEF PagesInv, Fresh
    <3> QED
      BY <3>1, <3>2
  <2> QED
    BY <1>1, <1>3, <2>4, <2>5 DEF Fresh, TablesOnView
<1>7. RulesKept'
  <2>1. /\ \A r \in seen["alert_rules"] : r.data.event \in Names
        /\ \A r \in got["alert_rules"] : r.data.event \in Names
    BY DEF PagesInv, RulesKept, AllNamed
  <2>2. /\ seen'["alert_rules"] \in {seen["alert_rules"], got["alert_rules"]}
        /\ got'["alert_rules"] \in {{}, got["alert_rules"]}
    BY <1>2, PagesConstants
  <2>3. AllNamed(seen)' /\ AllNamed(got)'
    BY <2>1, <2>2 DEF AllNamed
  <2> QED
    BY <1>3, <2>3
<1>8. OneCard'
  <2>1. ASSUME Waiting PROVE Waiting'
    <3>1. /\ \A m \in Slots : mut[m].kind # "integration"
          /\ seen["integrations"] = rows["integrations"] /\ fetch["integrations"] # "overtaken"
          /\ ~Connected(seen)
      BY <2>1 DEF Waiting
    <3>2. seen'["integrations"] = seen["integrations"] /\ fetch'["integrations"] # "overtaken"
      BY <1>2, <1>5, <3>1, PagesConstants
    <3>3. Connected(seen') = Connected(seen)
      BY <3>2 DEF Connected, Card
    <3> QED
      BY <1>1, <3>1, <3>2, <3>3 DEF Waiting
  <2> QED
    BY <1>3, <2>1
<1> QED
  BY <1>3, <1>4, <1>6, <1>7, <1>8 DEF PagesInv

LEMMA PagesStep == PagesInv /\ [PagesNext]_pagesVars => PagesInv'
<1> SUFFICES ASSUME PagesInv, [PagesNext]_pagesVars PROVE PagesInv'
  OBVIOUS
<1>1. CASE TabsNext
  <2>1. \/ \E t \in Tabs : SwitchTab(t)
        \/ TabRequest \/ TabClick
        \/ Connect \/ ConnectTimeout \/ Disconnect \/ TypeDelete \/ DeleteEverything
        \/ \E m \in Slots : TabAnswered(m)
    BY <1>1 DEF TabsNext, TabRequest, TabClick
  <2> QED
    BY <2>1, SwitchTabKeeps, TabRequestKeeps, TabClickKeeps, ConnectKeeps, ConnectTimeoutKeeps,
       DisconnectKeeps, TypeDeleteKeeps, DeleteEverythingKeeps, TabAnsweredKeeps
<1>2. CASE AlertsNext
  <2>1. AlertClick \/ Save \/ ToggleEnabled \/ ConfirmDelete \/ \E m \in Slots : AlertAnswered(m)
    BY <1>2 DEF AlertsNext, AlertClick
  <2> QED
    BY <2>1, AlertClickKeeps, SaveKeeps, ToggleEnabledKeeps, ConfirmDeleteKeeps, AlertAnsweredKeeps
<1>3. CASE StoreNext
  <2>1. UNCHANGED <<tab, ui, timers, doubts, typings>>
    BY <1>3 DEF StoreNext
  <2>2. \/ \E m \in Slots : Committed(m) \/ Failed(m)
        \/ (\E t \in Tables : Read(t) \/ Fetched(t)) /\ UNCHANGED <<wipes, unheard>>
    BY <1>3 DEF StoreNext
  <2> QED
    BY <2>1, <2>2, CommitKeeps, FailKeeps, ReadKeeps, FetchedKeeps
<1>4. CASE UNCHANGED pagesVars
  <2>1. UNCHANGED <<store, tab, ui, timers, doubts, typings, wipes, unheard>>
    BY <1>4 DEF pagesVars, tabs, resets
  <2>2. TabTypes' /\ FormKept'
    BY <2>1 DEF PagesInv, TabTypes, RulesKept, FormKept
  <2> QED
    BY <2>1, <2>2, PageOnly
<1> QED
  BY <1>1, <1>2, <1>3, <1>4 DEF PagesNext

LEMMA PagesInvariant == PagesSpec => []PagesInv
<1>1. PagesInit => PagesInv
  BY PagesInitInv
<1>2. PagesInv /\ [PagesNext]_pagesVars => PagesInv'
  BY PagesStep
<1> QED
  BY <1>1, <1>2, PTL DEF PagesSpec
-----------------------------------------------------------------------------
(* What the pages promise.                                                 *)

LEMMA ViewOfTables ==
  ASSUME NEW t \in Tabs, NEW data, NEW other, \A x \in TablesOf(t) : data[x] = other[x]
  PROVE  TabView(t, data) = TabView(t, other)
<1>1. CASE t = "agent"
  <2>1. data["api_tokens"] = other["api_tokens"]
    BY <1>1 DEF TablesOf
  <2>2. AgentView(data) = AgentView(other)
    BY <2>1 DEF AgentView
  <2> QED
    BY <1>1, <2>2 DEF TabView
<1>2. CASE t = "integrations"
  <2>1. data["integrations"] = other["integrations"]
    BY <1>2 DEF TablesOf
  <2>2. Connected(data) = Connected(other)
    BY <2>1 DEF Connected, Card
  <2> QED
    BY <1>2, <2>2 DEF TabView
<1>3. CASE t = "redaction"
  <2>1. data["redaction_rules"] = other["redaction_rules"]
    BY <1>3 DEF TablesOf
  <2>2. RuleLists(data) = RuleLists(other)
    BY <2>1 DEF RuleLists
  <2> QED
    BY <1>3, <2>2 DEF TabView
<1>4. CASE t = "tokens"
  <2>1. data["api_tokens"] = other["api_tokens"]
    BY <1>4 DEF TablesOf
  <2>2. TokenList(data) = TokenList(other)
    BY <2>1 DEF TokenList
  <2> QED
    BY <1>4, <2>2 DEF TabView
<1>5. CASE t = "team"
  <2>1. data["team_members"] = other["team_members"]
    BY <1>5 DEF TablesOf
  <2>2. MemberList(data) = MemberList(other)
    BY <2>1 DEF MemberList
  <2> QED
    BY <1>5, <2>2 DEF TabView
<1>6. CASE t = "admin"
  BY <1>6 DEF TabView
<1>7. CASE t = "alerts"
  <2>1. data["alert_rules"] = other["alert_rules"]
    BY <1>7 DEF TablesOf
  <2> QED
    BY <1>7, <2>1 DEF TabView
<1> QED
  BY <1>1, <1>2, <1>3, <1>4, <1>5, <1>6, <1>7 DEF Tabs

LEMMA RestOfInv == PagesInv => RestShowsStored
<1> SUFFICES ASSUME PagesInv PROVE RestShowsStored
  OBVIOUS
<1>1. PagesTypeOK
  <2>1. \A m \in Slots : mut[m].stage \in {"none", "sent", "done"}
    BY DEF PagesInv, Mutations, Underway, NoMut
  <2>2. ops <= MaxOps
    BY PagesConstants DEF PagesInv, StoreTypes
  <2>3. \A t \in Tables : \A r, s \in rows[t] : r.id = s.id => r = s
    BY DEF PagesInv, StoreTypes, RowsHaveIds
  <2>4. loaded \cup failed \cup missed \subseteq Tables
    BY DEF PagesInv, StoreTypes
  <2> QED
    BY <2>1, <2>2, <2>3, <2>4 DEF PagesTypeOK, PagesInv, TabTypes, OnAlerts
<1>2. ASSUME \A t \in TablesOnView : t \in loaded \ (failed \cup missed) /\ fetch[t] = "none",
             \A m \in Slots : mut[m].stage = "none" \/ mut[m].table \notin TablesOnView
      PROVE  TabView(tab, seen) = TabView(tab, rows)
  <2>1. \A t \in TablesOnView : seen[t] = rows[t]
    BY <1>2 DEF PagesInv, Fresh, Awaits
  <2> QED
    BY <2>1, ViewOfTables DEF PagesInv, TabTypes, TablesOnView
<1> QED
  BY <1>1, <1>2 DEF RestShowsStored

LEMMA OneRowOfInv == PagesInv => OneRowPerIntegration
<1> SUFFICES ASSUME PagesInv, doubts = {} PROVE ~(Cardinality(rows["integrations"]) > 1)
  BY DEF OneRowPerIntegration
<1>1. \A r, s \in rows["integrations"] : r = s
  BY DEF PagesInv, OneCard, Uncrossed
<1>2. CASE rows["integrations"] = {}
  BY <1>2, FS_EmptySet
<1>3. CASE rows["integrations"] # {}
  <2>1. PICK r : rows["integrations"] = {r}
    BY <1>1, <1>3
  <2>2. Cardinality(rows["integrations"]) = 1
    BY <2>1, FS_Singleton
  <2> QED
    BY <2>2
<1> QED
  BY <1>2, <1>3

LEMMA TypedOfInv == PagesInv => WipesAreTyped
<1> SUFFICES ASSUME PagesInv PROVE wipes <= typings + unheard
  BY DEF WipesAreTyped
<1>1. /\ wipes \in Nat /\ typings \in Nat /\ unheard \in Nat
      /\ wipes + Behind + Owed <= typings + unheard
  BY DEF PagesInv, EachTyped
<1> QED
  BY <1>1, OwedIs

\* A mutation that was sent is not overwritten by another.
LEMMA SendElsewhere ==
  ASSUME PagesInv, NEW request, Send(request), NEW m \in Slots, mut[m].stage # "none"
  PROVE  mut'[m] = mut[m]
BY DEF Send, PagesInv, Mutations

\* Only a commit makes a mutation that was sent done.
LEMMA OnlyCommit ==
  ASSUME PagesInv, PagesNext, NEW m \in Slots, mut[m].stage = "sent", mut'[m].stage = "done"
  PROVE  Commit(m)
<1>0. DOMAIN mut = Slots /\ NoMut.stage = "none"
  BY DEF PagesInv, Mutations, NoMut
<1>1. ASSUME NEW request, Send(request) PROVE FALSE
  BY <1>1, SendElsewhere
<1>2. ASSUME NEW n \in Slots, mut' = [mut EXCEPT ![n] = NoMut] PROVE FALSE
  BY <1>0, <1>2
<1>3. ASSUME mut' = mut PROVE FALSE
  BY <1>3
<1>4. ASSUME NEW t, SwitchTab(t) PROVE FALSE
  BY <1>4, Left DEF Fields
<1>5. ~TabsNext
  <2>1. ASSUME NEW n \in Slots, TabAnswered(n) PROVE FALSE
    BY <1>2, <2>1 DEF TabAnswered, Succeed
  <2>2. ASSUME TabClick \/ Connect \/ TypeDelete PROVE FALSE
    <3>1. UNCHANGED store
      BY <2>2 DEF TabClick, Dismiss, TypeEmail, OpenWipe, DismissDialog, CancelDialog, OpenDraft,
                  Connect, TypeDelete
    <3> QED
      BY <1>3, <3>1 DEF store, queries
  <2>3. ASSUME NEW connect, Toggle(connect) PROVE FALSE
    BY <1>1, <2>3 DEF Toggle
  <2>4. ASSUME ConnectTimeout \/ Disconnect PROVE FALSE
    BY <2>3, <2>4 DEF ConnectTimeout, Disconnect
  <2>5. ASSUME TabRequest PROVE FALSE
    BY <1>1, <2>5 DEF TabRequest, Generate, Revoke, AddRule, ToggleRule, RemoveRule, Invite,
                      RemoveMember, ChangeRole
  <2>6. ASSUME DeleteEverything PROVE FALSE
    BY <1>1, <2>6 DEF DeleteEverything
  <2> QED
    BY <1>4, <2>1, <2>2, <2>4, <2>5, <2>6 DEF TabsNext, TabClick, TabRequest
<1>6. ~AlertsNext
  <2>1. ASSUME NEW n \in Slots, AlertAnswered(n) PROVE FALSE
    BY <1>2, <2>1 DEF AlertAnswered, Succeed
  <2>2. ASSUME AlertClick PROVE FALSE
    <3>1. UNCHANGED store
      BY <2>2 DEF AlertClick, OpenNew, OpenEdit, CloseDialog, AskDelete, CancelDelete, Edit
    <3> QED
      BY <1>3, <3>1 DEF store, queries
  <2>3. ASSUME Save PROVE FALSE
    BY <1>1, <2>3 DEF Save
  <2>4. ASSUME ToggleEnabled \/ ConfirmDelete PROVE FALSE
    BY <1>1, <2>4 DEF ToggleEnabled, ConfirmDelete
  <2> QED
    BY <2>1, <2>2, <2>3, <2>4 DEF AlertsNext, AlertClick
<1>7. StoreNext
  BY <1>5, <1>6 DEF PagesNext
<1>8. ASSUME NEW n \in Slots, Failed(n) PROVE FALSE
  BY <1>2, <1>8 DEF Failed, Fail
<1>9. ASSUME NEW t \in Tables, Read(t) \/ Fetched(t) PROVE FALSE
  BY <1>3, <1>9 DEF Read, Fetched
<1>10. ASSUME NEW n \in Slots, n # m, Committed(n) PROVE FALSE
  <2>1. Commits(n, mut[n])
    BY <1>10, CommitCommits DEF Committed
  <2> QED
    BY <1>10, <2>1 DEF Commits
<1> QED
  BY <1>7, <1>8, <1>9, <1>10 DEF StoreNext, Committed

LEMMA UntouchedCommit ==
  ASSUME PagesInv, NEW m \in Slots, Commit(m),
         mut[m].kind = "alert_save", mut[m].op = "update", ~mut[m].touched,
         mut[m].base \subseteq rows["alert_rules"]
  PROVE  rows' = Resaved(mut[m].base)
<1> DEFINE q == mut[m]
           old == rows["alert_rules"]
           new == {IF x \in q.base THEN Described(x) ELSE x : x \in old}
<1>1. Commits(m, q)
  BY CommitCommits
<1>2. q.table = "alert_rules" /\ "alert_rules" \in Tables
  BY <1>1, PagesConstants DEF Commits, Underway, AlertKinds
<1>3. PICK r : q.base = {r} /\ q.id = r.id /\ q.data = Payload(FromRow(r.data))
  BY DEF PagesInv, RulesKept, SavedKept
<1>4. r \in old /\ Kept(r.data) /\ Kept(q.data)
  <2>1. r \in old
    BY <1>3
  <2>2. Kept(q.data)
    BY DEF PagesInv, RulesKept, SavedKept
  <2> QED
    BY <2>1, <2>2 DEF PagesInv, RulesKept
<1>5. \A x \in old : /\ x = [id |-> x.id, data |-> x.data]
                     /\ x.id = r.id => x = r
  BY <1>2, <1>4 DEF PagesInv, StoreTypes, RowsHaveIds
<1>6. Spread(r.data, q.data) = q.data
  BY <1>4, SpreadAll
<1>7. [r EXCEPT !.data = q.data] = Described(r)
  <2> DEFINE c == Condition(FromRow(r.data))
             d == r.data
  <2>1. q.data = [d EXCEPT !.condition = c]
    BY <1>3, <1>4, SavedAgain
  <2>2. Described(r) = [r EXCEPT !.data = [d EXCEPT !.condition = c]]
    <3>1. r = [id |-> r.id, data |-> r.data]
      BY <1>4, <1>5
    <3> HIDE DEF c
    <3>2. [r EXCEPT !.data.condition = c] = [r EXCEPT !.data = [r.data EXCEPT !.condition = c]]
      BY <3>1
    <3> QED
      BY <3>2 DEF Described, c
  <2> QED
    BY <2>1, <2>2
<1>8. ASSUME NEW x \in old
      PROVE  (IF x.id = q.id THEN [x EXCEPT !.data = Spread(x.data, q.data)] ELSE x)
                = IF x \in q.base THEN Described(x) ELSE x
  <2>1. CASE x.id = q.id
    <3>1. x = r /\ x \in q.base
      BY <1>3, <1>5, <2>1
    <3> QED
      BY <1>6, <1>7, <2>1, <3>1
  <2>2. CASE x.id # q.id
    <3>1. x \notin q.base
      BY <1>3, <2>2
    <3> QED
      BY <2>2, <3>1
  <2> QED
    BY <2>1, <2>2
<1>9. Applied(q, old) = {IF x.id = q.id THEN [x EXCEPT !.data = Spread(x.data, q.data)] ELSE x : x \in old}
  BY AppliedCases
<1>10. Applied(q, old) = new
  <2> DEFINE F(x) == IF x.id = q.id THEN [x EXCEPT !.data = Spread(x.data, q.data)] ELSE x
             G(x) == IF x \in q.base THEN Described(x) ELSE x
  <2>1. \A x \in old : F(x) = G(x)
    BY <1>8
  <2>2. Applied(q, old) = {F(x) : x \in old} /\ new = {G(x) : x \in old}
    BY <1>9
  <2> HIDE DEF F, G, new, old
  <2> QED
    BY <2>1, <2>2
<1> HIDE DEF new
<1>11. /\ rows = [t \in Tables |-> rows[t]] /\ rows' = [t \in Tables |-> rows'[t]]
       /\ rows'["alert_rules"] = new
       /\ \A t \in Tables \ {"alert_rules"} : rows'[t] = rows[t]
  BY <1>1, <1>2, <1>10 DEF Commits, PagesInv, StoreTypes
<1>12. rows' = [rows EXCEPT !["alert_rules"] = new]
  BY <1>11
<1> QED
  BY <1>12 DEF new, Resaved

\* A settings tab or the alerts page that is at rest shows the collector's rows, in
\* whatever order fetches read and answered, and mutations committed, failed and were
\* answered, except where a fetch failed or a mutation was missed (useMutation's onSuccess
\* and invalidateQueries(), settings.tsx and alerts.tsx).
THEOREM PagesRestShowsStored == PagesSpec => []RestShowsStored
BY PagesInvariant, RestOfInv, PTL

\* Connecting and disconnecting an integration leaves it one row, as long as every Connect
\* was clicked on rows that were not in doubt (IntegrationsTab's toggle).
THEOREM PagesOneRowPerIntegration == PagesSpec => []OneRowPerIntegration
BY PagesInvariant, OneRowOfInv, PTL

\* Every reset that was committed was confirmed by a typing of DELETE of its own, or
\* repeats one whose answer was lost (AdminTab's dialog and resetAllData()).
THEOREM PagesWipesAreTyped == PagesSpec => []WipesAreTyped
BY PagesInvariant, TypedOfInv, PTL

\* A rule that is opened and saved untouched is stored as it was, but for its condition,
\* which is described anew (fromRow(), describeCondition() and the payload of save,
\* alerts.tsx).
THEOREM PagesUntouchedSave == PagesSpec => UntouchedSaveChangesNothing
<1> DEFINE Untouched ==
             \A m \in Slots :
               (/\ mut[m].kind = "alert_save" /\ mut[m].op = "update" /\ ~mut[m].touched
                /\ mut[m].base \subseteq rows["alert_rules"]
                /\ mut[m].stage = "sent" /\ mut'[m].stage = "done")
                  => rows' = Resaved(mut[m].base)
<1>1. PagesInv /\ [PagesNext]_pagesVars => [Untouched]_pagesVars
  <2> SUFFICES ASSUME PagesInv, PagesNext, NEW m \in Slots,
                      mut[m].kind = "alert_save", mut[m].op = "update", ~mut[m].touched,
                      mut[m].base \subseteq rows["alert_rules"],
                      mut[m].stage = "sent", mut'[m].stage = "done"
               PROVE  rows' = Resaved(mut[m].base)
    OBVIOUS
  <2> QED
    BY OnlyCommit, UntouchedCommit
<1>2. PagesSpec => [][PagesNext]_pagesVars
  BY DEF PagesSpec
<1> HIDE DEF Untouched
<1>3. PagesSpec => [][Untouched]_pagesVars
  BY <1>1, <1>2, PagesInvariant, PTL
<1> QED
  BY <1>3 DEF UntouchedSaveChangesNothing, Untouched
=============================================================================
