------------------------------ MODULE AlertRules ------------------------------
(***************************************************************************)
(* The alerts page (routes/_authenticated/alerts.tsx): the list of rules   *)
(* with its switches, the dialog that creates and edits a rule from a form *)
(* of its own, and the confirmation of a deletion.  Together with          *)
(* SettingsTabs it makes up the pages that change the configuration.       *)
(*                                                                         *)
(* The name and the destination of a rule are abstracted to whether both   *)
(* are filled in.  The name of an event is trimmed when a rule is saved,   *)
(* but not in the sentence that describes its condition.                   *)
(***************************************************************************)
EXTENDS SettingsTabs, Integers

CONSTANTS
    Names,      \* what may be entered for the name of an event
    Trim,       \* String.prototype.trim(), on these
    MaxEdits    \* bound: fields changed in one opening of the dialog, with ops before it

pagesVars == <<store, tabs>>

PagesInit == TabsInit /\ StoreInit(TablesOnView)

OnAlerts == tab = "alerts"
-----------------------------------------------------------------------------
(* The form and the row.                                                   *)

EmptyForm == [filled |-> FALSE, enabled |-> TRUE, trigger |-> "new_event", scope |-> "all",
              application |-> "", deployment |-> "", threshold |-> 50, event |-> ""]

Absent == -1

\* fromRow(): what a field has no value for gets its default.  (Mutated form: the
\* name of an event is not read back.)
FromRowDefaulting(d) ==
    [filled |-> TRUE, enabled |-> d.enabled, trigger |-> d.trigger,
     scope |-> IF d.application # "" THEN "app" ELSE IF d.deployment # "" THEN "deployment" ELSE "all",
     application |-> d.application, deployment |-> d.deployment,
     threshold |-> IF d.threshold = Absent THEN 50 ELSE d.threshold, event |-> ""]

FromRow(d) ==
    [filled |-> TRUE, enabled |-> d.enabled, trigger |-> d.trigger,
     scope |-> IF d.application # "" THEN "app" ELSE IF d.deployment # "" THEN "deployment" ELSE "all",
     application |-> d.application, deployment |-> d.deployment,
     threshold |-> IF d.threshold = Absent THEN 50 ELSE d.threshold, event |-> d.event]

\* describeCondition()
Condition(f) ==
    <<f.trigger, CASE f.trigger = "volume_threshold" -> f.threshold
                   [] f.trigger = "event_reoccurs"   -> f.event
                   [] OTHER                          -> "">>

\* The payload of save: a field is kept only for the trigger and the scope it
\* belongs to.
Payload(f) ==
    [enabled |-> f.enabled, trigger |-> f.trigger,
     application |-> IF f.scope = "app" THEN f.application ELSE "",
     deployment |-> IF f.scope = "deployment" THEN f.deployment ELSE "",
     threshold |-> IF f.trigger = "volume_threshold" THEN f.threshold ELSE Absent,
     event |-> IF f.trigger = "event_reoccurs" THEN Trim[f.event] ELSE "",
     condition |-> Condition(f)]

\* canSave
CanSave(f) ==
    /\ f.filled
    /\ f.scope = "app" => f.application # ""
    /\ f.scope = "deployment" => f.deployment # ""

\* A rule as this page stores it: a value for its trigger and one for its scope, and
\* none for the others; its condition is of the name that was entered.
RuleData(d) ==
    /\ DOMAIN d = {"enabled", "trigger", "application", "deployment", "threshold", "event",
                   "condition"}
    /\ d = [field \in DOMAIN d |-> d[field]]
    /\ d.application = "" \/ d.deployment = ""
    /\ d.trigger = "volume_threshold" <=> d.threshold # Absent
    /\ d.trigger # "event_reoccurs" => d.event = ""
    /\ \E entered \in Names :
          d.event = Trim[entered] /\ d.condition = Condition([d EXCEPT !.event = entered])

\* The rules there are at first were saved from this page, and an integration has a row
\* at most.
ASSUME RulesAssumption ==
    /\ MaxEdits \in Nat
    /\ Trim \in [Names -> Names] /\ \A n \in Names : Trim[Trim[n]] = Trim[n]
    /\ "" \in Names /\ Trim[""] = ""
    /\ \A r \in FirstRows["alert_rules"] : RuleData(r.data)
    /\ \A r, s \in FirstRows["integrations"] :
          r = s /\ r.data \in [type : {"slack"}, connected : BOOLEAN]

\* What a field of the form may be set to.
FieldValues(field) ==
    CASE field \in {"filled", "enabled"}          -> BOOLEAN
      [] field = "trigger"                        -> {"new_event", "volume_threshold", "deploy_regression", "event_reoccurs"}
      [] field = "scope"                          -> {"all", "app", "deployment"}
      [] field \in {"application", "deployment"}  -> {"app1"}
      [] field = "threshold"                      -> {0, 10}
      [] field = "event"                          -> Names
-----------------------------------------------------------------------------
(* The page.                                                               *)

\* The dialog opens on an empty form, or on the row as the page shows it.
OpenNew ==
    /\ OnAlerts /\ ui.editing = "closed" /\ ui.deleteId = 0
    /\ ui' = [ui EXCEPT !.editing = "new", !.base = {}, !.form = EmptyForm, !.edits = 0]
    /\ UNCHANGED store /\ Stays

OpenEdit ==
    /\ OnAlerts /\ ui.editing = "closed" /\ ui.deleteId = 0
    /\ \E r \in seen["alert_rules"] :
          ui' = [ui EXCEPT !.editing = "row", !.base = {r}, !.form = FromRow(r.data), !.edits = 0]
    /\ UNCHANGED store /\ Stays

Edit(field) ==
    /\ OnAlerts /\ ui.editing # "closed" /\ ops + ui.edits < MaxEdits
    /\ \E v \in FieldValues(field) : ui' = [ui EXCEPT !.form[field] = v, !.edits = @ + 1]
    /\ UNCHANGED store /\ Stays

CloseDialog ==
    /\ OnAlerts /\ ui.editing # "closed"
    /\ ui' = [ui EXCEPT !.editing = "closed"]
    /\ UNCHANGED store /\ Stays

\* save.mutate(): the whole payload goes out, whatever else has changed meanwhile.
Save ==
    /\ OnAlerts /\ ui.editing # "closed"
    /\ CanSave(ui.form) /\ ~Pending("alert_save")
    /\ LET request == [kind |-> "alert_save", table |-> "alert_rules", data |-> Payload(ui.form),
                       base |-> ui.base, touched |-> ui.edits > 0]
       IN \/ ui.editing = "new" /\ Send(Spread(request, [op |-> "insert"]))
          \/ /\ ui.editing = "row"
             /\ \E r \in ui.base : Send(Spread(request, [op |-> "update", id |-> r.id]))
    /\ UNCHANGED ui /\ Stays

\* The switch of a row.
ToggleEnabled ==
    /\ OnAlerts /\ ui.editing = "closed" /\ ui.deleteId = 0
    /\ \E r \in seen["alert_rules"] :
          Send([kind |-> "alert_toggle", table |-> "alert_rules", op |-> "update", id |-> r.id,
                data |-> [enabled |-> ~r.data.enabled]])
    /\ UNCHANGED ui /\ Stays

\* The bin of a row asks for confirmation.
AskDelete ==
    /\ OnAlerts /\ ui.editing = "closed" /\ ui.deleteId = 0
    /\ \E r \in seen["alert_rules"] : ui' = [ui EXCEPT !.deleteId = r.id]
    /\ UNCHANGED store /\ Stays

CancelDelete ==
    /\ ui.deleteId # 0
    /\ ui' = [ui EXCEPT !.deleteId = 0]
    /\ UNCHANGED store /\ Stays

ConfirmDelete ==
    /\ ui.deleteId # 0
    /\ Send([kind |-> "alert_delete", table |-> "alert_rules", op |-> "delete", id |-> ui.deleteId])
    /\ ui' = [ui EXCEPT !.deleteId = 0]
    /\ Stays

\* The onSuccess of a mutation of this page; that of a save closes the dialog,
\* whichever rule it is open for by now.
AlertAnswered(m) ==
    /\ mut[m].table = "alert_rules"
    /\ Succeed(m, TablesOnView)
    /\ ui' = IF mut[m].of /\ mut[m].kind = "alert_save" THEN [ui EXCEPT !.editing = "closed"] ELSE ui
    /\ Stays

AlertsNext ==
    \/ OpenNew \/ OpenEdit \/ CloseDialog \/ Save
    \/ \E field \in DOMAIN EmptyForm : Edit(field)
    \/ ToggleEnabled \/ AskDelete \/ CancelDelete \/ ConfirmDelete
    \/ \E m \in Slots : AlertAnswered(m)

\* The collector's side of the mutations, and the queries.
Committed(m) ==
    /\ Commit(m)
    /\ wipes' = IF mut[m].kind = "wipe" THEN wipes + 1 ELSE wipes
    /\ UNCHANGED unheard

Failed(m) ==
    /\ Fail(m)
    /\ unheard' = IF mut[m].kind = "wipe" /\ mut[m].of /\ mut[m].stage = "done" THEN unheard + 1 ELSE unheard
    /\ UNCHANGED wipes

StoreNext ==
    /\ \/ \E m \in Slots : Committed(m) \/ Failed(m)
       \/ (\E t \in Tables : Read(t) \/ Fetched(t)) /\ UNCHANGED <<wipes, unheard>>
    /\ UNCHANGED <<tab, ui, timers, doubts, typings>>

PagesNext == TabsNext \/ AlertsNext \/ StoreNext

PagesSpec == PagesInit /\ [][PagesNext]_pagesVars
-----------------------------------------------------------------------------
(* Properties                                                              *)

PagesTypeOK ==
    /\ loaded \cup failed \cup missed \subseteq Tables
    /\ \A t \in Tables : \A r, s \in rows[t] : r.id = s.id => r = s
    /\ \A m \in Slots : mut[m].stage \in {"none", "sent", "done"}
    /\ tab \in Tabs
    /\ ui.raw # 0 => tab \in {"agent", "tokens"}
    /\ ui.editing # "closed" \/ ui.deleteId # 0 => OnAlerts
    /\ ops <= MaxOps

\* A page at rest shows what is stored: once its mutations are answered and its
\* queries fetched, in whatever order and across whatever changes of tab, what it
\* displays is what it would display of the collector's rows.  The exceptions are a
\* fetch that failed, and a mutation that nothing made the page read: its answer was
\* lost, or came while a fetch that had read before it was not to be restarted, being
\* the first or off view.  (The state keeps its types on the way.)
RestShowsStored ==
    /\ PagesTypeOK
    /\ (/\ \A t \in TablesOnView : t \in loaded \ (failed \cup missed) /\ fetch[t] = "none"
        /\ \A m \in Slots : mut[m].stage = "none" \/ mut[m].table \notin TablesOnView)
         => TabView(tab, seen) = TabView(tab, rows)

\* There is one row per integration, however it is connected and disconnected and
\* whichever requests fail, as long as every Connect was clicked on rows that were not
\* in doubt: with no other connect waiting or under way, none being fetched, and none
\* that a fetch failed to bring or a lost answer left out.
OneRowPerIntegration == Cardinality(rows["integrations"]) > 1 => doubts # {}

\* DELETE was typed at least once for every time all data was deleted, not counting
\* again one whose answer was lost to the dialog that waited for it: there the word is
\* still typed, and one more click deletes again.
WipesAreTyped == wipes <= typings + unheard

\* Opening a rule and saving it untouched changes nothing, unless the rule changed
\* while the dialog was open: the form keeps everything the row has, except that the
\* condition is described anew, of the name of the event as it is stored, trimmed.
Described(r) == [r EXCEPT !.data.condition = Condition(FromRow(r.data))]

Resaved(base) ==
    [rows EXCEPT !["alert_rules"] = {IF r \in base THEN Described(r) ELSE r : r \in @}]

UntouchedSaveChangesNothing ==
    [][\A m \in Slots :
          (/\ mut[m].kind = "alert_save" /\ mut[m].op = "update" /\ ~mut[m].touched
           /\ mut[m].base \subseteq rows["alert_rules"]
           /\ mut[m].stage = "sent" /\ mut'[m].stage = "done")
              => rows' = Resaved(mut[m].base)]_pagesVars
=============================================================================
