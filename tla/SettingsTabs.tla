----------------------------- MODULE SettingsTabs -----------------------------
(***************************************************************************)
(* The tabs of the settings page (routes/_authenticated/settings.tsx):     *)
(* agent install, integrations, data privacy, API tokens, team and admin.  *)
(* Only the tab on view is mounted; what it keeps is lost when it is left. *)
(*                                                                         *)
(* A text field is TRUE when it holds something usable.  The tables are    *)
(* those of ConfigStore.  The two counts that the admin tab shows are      *)
(* derived from the monitoring data (LiveCache) and left out here.         *)
(***************************************************************************)
EXTENDS ConfigStore

VARIABLES
    tab,        \* the tab on view ("alerts" is the alerts page)
    ui,         \* what that tab keeps
    timers,     \* IntegrationsTab: connects that wait for their timeout
    doubts,     \* history: what made the rows a Connect was clicked on doubtful
    typings,    \* history: times DELETE was typed
    wipes,      \* history: resets of all data that were committed
    unheard     \* history: those of them whose answer their page waited for in vain

resets == <<typings, wipes, unheard>>
tabs == <<tab, ui, timers, doubts, resets>>

TablesOf(t) ==
    CASE t \in {"agent", "tokens"} -> {"api_tokens"}
      [] t = "integrations"        -> {"integrations"}
      [] t = "redaction"           -> {"redaction_rules"}
      [] t = "team"                -> {"team_members"}
      [] t = "admin"               -> {}
      [] t = "alerts"              -> {"alert_rules"}

Tabs == {"agent", "integrations", "redaction", "tokens", "team", "admin", "alerts"}
TablesOnView == TablesOf(tab)

\* raw: the token whose raw value is shown (0: none); open: the tab's dialog;
\* draft: its form; text: DELETE is in the admin dialog's field.  The others are the
\* state of AlertRules.
FreshTab == [raw |-> 0, open |-> FALSE, draft |-> "empty", text |-> FALSE,
             editing |-> "closed", base |-> {}, form |-> "none", edits |-> 0, deleteId |-> 0]

TabsInit ==
    /\ tab = "agent" /\ ui = FreshTab
    /\ timers = 0 /\ doubts = {} /\ typings = 0 /\ wipes = 0 /\ unheard = 0

\* SettingsPage: another tab comes into view (or the alerts page).
SwitchTab(t) ==
    /\ t # tab
    /\ tab' = t
    /\ ui' = FreshTab
    /\ Visit(TablesOf(t))
    /\ UNCHANGED <<timers, doubts, resets>>

Stays == UNCHANGED <<tab, timers, doubts, resets>>
-----------------------------------------------------------------------------
(* What each tab shows of its rows.                                        *)

\* AgentInstallTab lists the ingest tokens that are not revoked, and the snippets hold
\* the key just minted or a placeholder.
AgentView(data) ==
    [keys |-> {r.id : r \in {r \in data["api_tokens"] : r.data.role = "ingest" /\ ~r.data.revoked}},
     snippet |-> IF ui.raw # 0 THEN ui.raw ELSE "<your-ingest-token>"]

\* IntegrationsTab: a card is connected when the first row of its type is.
Card(data) == First(data["integrations"], LAMBDA d : d.type = "slack")
Connected(data) == \E r \in Card(data) : r.data.connected

\* RedactionTab: a list per kind, with a switch and a bin for each rule.
RuleLists(data) ==
    [kind \in {"pattern", "identifier"} |->
        SelectSeq(Ordered(data["redaction_rules"]), LAMBDA r : r.data.kind = kind)]

\* TokensTab: every token, with a button to revoke it unless it is.
TokenList(data) ==
    {[id |-> r.id, role |-> r.data.role, revocable |-> ~r.data.revoked] : r \in data["api_tokens"]}

\* TeamTab: every member with the role.
MemberList(data) == Ordered(data["team_members"])

TabView(t, data) ==
    CASE t = "agent"        -> AgentView(data)
      [] t = "integrations" -> Connected(data)
      [] t = "redaction"    -> RuleLists(data)
      [] t = "tokens"       -> TokenList(data)
      [] t = "team"         -> MemberList(data)
      [] t = "admin"        -> "counts"
      [] t = "alerts"       -> Ordered(data["alert_rules"])
-----------------------------------------------------------------------------
(* Agent install and API tokens.                                           *)

\* The Generate buttons: createApiToken() with a role.
Generate(role) ==
    /\ \/ tab = "agent" /\ role = "ingest"
       \/ tab = "tokens"
    /\ ~Pending("mint")
    /\ Send([kind |-> "mint", table |-> "api_tokens", op |-> "insert",
             data |-> [role |-> role, revoked |-> FALSE]])
    /\ UNCHANGED ui /\ Stays

Dismiss ==
    /\ ui.raw # 0
    /\ ui' = [ui EXCEPT !.raw = 0]
    /\ UNCHANGED store /\ Stays

Revoke ==
    /\ tab = "tokens"
    /\ \E t \in TokenList(seen) :
          /\ t.revocable
          /\ Send([kind |-> "revoke", table |-> "api_tokens", op |-> "update", id |-> t.id,
                   data |-> [revoked |-> TRUE]])
    /\ UNCHANGED ui /\ Stays
-----------------------------------------------------------------------------
(* Integrations.                                                           *)

\* Connect shows a message and starts a timeout; the button is only disabled by a first
\* load or a mutation of this tab.  The rows it goes by may be older than the collector's
\*   "crossed": another connect waits for its timeout, or a mutation is under way,
\*   "early":   they are being fetched,
\*   "blind":   the last fetch failed, or missed a mutation.
Doubts ==
    (IF timers > 0 \/ \E m \in Slots : mut[m].kind = "integration" THEN {"crossed"} ELSE {})
    \cup (IF fetch["integrations"] # "none" THEN {"early"} ELSE {})
    \cup (IF "integrations" \in failed \cup missed THEN {"blind"} ELSE {})

Connect ==
    /\ tab = "integrations" /\ ~Pending("integration")
    /\ "integrations" \in loaded \/ fetch["integrations"] = "none"
    /\ ~Connected(seen)
    /\ timers < 2  \* bound
    /\ timers' = timers + 1
    /\ doubts' = doubts \cup Doubts
    /\ UNCHANGED <<store, tab, ui, resets>>

\* toggle.mutate(): the row of the type is updated, or inserted when the data held
\* none.  (Mutated form: always inserted.)
ToggleByInsert(connect) ==
    Send([kind |-> "integration", table |-> "integrations", op |-> "insert",
          data |-> [type |-> "slack", connected |-> connect]])

Toggle(connect) ==
    \/ \E r \in Card(seen) :
          Send([kind |-> "integration", table |-> "integrations", op |-> "update", id |-> r.id,
                data |-> [connected |-> connect]])
    \/ /\ Card(seen) = {}
       /\ Send([kind |-> "integration", table |-> "integrations", op |-> "insert",
                data |-> [type |-> "slack", connected |-> connect]])

\* The timeout runs with the rows of the render that set it up, or of the tab's last one;
\* what the query holds by now is the same unless the tab was left meanwhile.
ConnectTimeout ==
    /\ timers > 0
    /\ timers' = timers - 1
    /\ Toggle(TRUE)
    /\ UNCHANGED <<tab, ui, doubts, resets>>

Disconnect ==
    /\ tab = "integrations" /\ ~Pending("integration")
    /\ Connected(seen)
    /\ Toggle(FALSE)
    /\ UNCHANGED ui /\ Stays
-----------------------------------------------------------------------------
(* Data privacy: redaction rules.                                          *)

\* The Add rule buttons open the dialog with an empty draft, which is then filled in.
OpenDraft(kind) ==
    /\ tab = "redaction" /\ ~ui.open
    /\ ui' = [ui EXCEPT !.open = TRUE, !.draft = kind]
    /\ UNCHANGED store /\ Stays

AddRule ==
    /\ tab = "redaction" /\ ui.open /\ ~Pending("rule_create")
    /\ Send([kind |-> "rule_create", table |-> "redaction_rules", op |-> "insert",
             data |-> [kind |-> ui.draft, enabled |-> TRUE]])
    /\ UNCHANGED ui /\ Stays

\* RuleList: the switch and the bin of a rule.
ToggleRule ==
    /\ tab = "redaction" /\ ~ui.open
    /\ \E r \in seen["redaction_rules"] :
          Send([kind |-> "rule_toggle", table |-> "redaction_rules", op |-> "update", id |-> r.id,
                data |-> [enabled |-> ~r.data.enabled]])
    /\ UNCHANGED ui /\ Stays

RemoveRule ==
    /\ tab = "redaction" /\ ~ui.open
    /\ \E r \in seen["redaction_rules"] :
          Send([kind |-> "rule_remove", table |-> "redaction_rules", op |-> "delete", id |-> r.id])
    /\ UNCHANGED ui /\ Stays
-----------------------------------------------------------------------------
(* Team.                                                                   *)

TypeEmail ==
    /\ tab = "team" /\ ui.draft = "empty"
    /\ ui' = [ui EXCEPT !.draft = "member"]
    /\ UNCHANGED store /\ Stays

Invite ==
    /\ tab = "team" /\ ui.draft # "empty" /\ ~Pending("invite")
    /\ Send([kind |-> "invite", table |-> "team_members", op |-> "insert",
             data |-> [role |-> ui.draft]])
    /\ UNCHANGED ui /\ Stays

ChangeRole(role) ==
    /\ tab = "team"
    /\ \E r \in seen["team_members"] :
          /\ r.data.role # role
          /\ Send([kind |-> "role", table |-> "team_members", op |-> "update", id |-> r.id,
                   data |-> [role |-> role]])
    /\ UNCHANGED ui /\ Stays

RemoveMember ==
    /\ tab = "team"
    /\ \E r \in seen["team_members"] :
          Send([kind |-> "member_remove", table |-> "team_members", op |-> "delete", id |-> r.id])
    /\ UNCHANGED ui /\ Stays
-----------------------------------------------------------------------------
(* Admin: delete all data.                                                 *)

OpenWipe ==
    /\ tab = "admin" /\ ~ui.open
    /\ ui' = [ui EXCEPT !.open = TRUE]
    /\ UNCHANGED store /\ Stays

TypeDelete ==
    /\ tab = "admin" /\ ui.open /\ ~ui.text
    /\ ui' = [ui EXCEPT !.text = TRUE]
    /\ typings' = typings + 1
    /\ typings < MaxOps
    /\ UNCHANGED <<store, tab, timers, doubts, wipes, unheard>>

\* Escape, the cross or a click outside: onOpenChange() also clears the text.
DismissDialog ==
    /\ tab \in {"redaction", "admin"} /\ ui.open
    /\ ui' = [ui EXCEPT !.open = FALSE, !.text = FALSE]
    /\ UNCHANGED store /\ Stays

\* The Cancel buttons only close the dialog.
CancelDialog ==
    /\ tab \in {"redaction", "admin"} /\ ui.open
    /\ ui' = [ui EXCEPT !.open = FALSE]
    /\ UNCHANGED store /\ Stays

DeleteEverything ==
    /\ tab = "admin" /\ ui.open /\ ui.text /\ ~Pending("wipe")
    /\ Send([kind |-> "wipe", op |-> "wipe"])
    /\ UNCHANGED ui /\ Stays
-----------------------------------------------------------------------------
\* What the onSuccess of a mutation does to the tab that sent it: it shows the raw
\* token, closes the dialog, empties the form.  (Mutated form: the confirmation
\* stays in the closed dialog.)
AfterSuccessKeepingText(q) ==
    CASE q.kind = "mint"        -> [ui EXCEPT !.raw = q.id]
      [] q.kind = "rule_create" -> [ui EXCEPT !.open = FALSE, !.draft = "empty"]
      [] q.kind = "invite"      -> [ui EXCEPT !.draft = "empty"]
      [] q.kind = "wipe"        -> [ui EXCEPT !.open = FALSE]
      [] OTHER                  -> ui

AfterSuccess(q) ==
    CASE q.kind = "mint"        -> [ui EXCEPT !.raw = q.id]
      [] q.kind = "rule_create" -> [ui EXCEPT !.open = FALSE, !.draft = "empty"]
      [] q.kind = "invite"      -> [ui EXCEPT !.draft = "empty"]
      [] q.kind = "wipe"        -> [ui EXCEPT !.open = FALSE, !.text = FALSE]
      [] OTHER                  -> ui

TabAnswered(m) ==
    /\ mut[m].table # "alert_rules"
    /\ Succeed(m, TablesOnView)
    /\ ui' = IF mut[m].of THEN AfterSuccess(mut[m]) ELSE ui
    /\ Stays

TabsNext ==
    \/ \E t \in Tabs : SwitchTab(t)
    \/ \E role \in {"ingest", "viewer"} : Generate(role)
    \/ Dismiss \/ Revoke
    \/ Connect \/ ConnectTimeout \/ Disconnect
    \/ \E kind \in {"pattern", "identifier"} : OpenDraft(kind)
    \/ AddRule \/ ToggleRule \/ RemoveRule
    \/ TypeEmail \/ Invite \/ RemoveMember
    \/ \E role \in {"member", "admin"} : ChangeRole(role)
    \/ OpenWipe \/ TypeDelete \/ DismissDialog \/ CancelDialog \/ DeleteEverything
    \/ \E m \in Slots : TabAnswered(m)
=============================================================================
