------------------------------ MODULE MCAlertRules ------------------------------
(* An instance of AlertRules: one alert rule, saved with blanks around the name  *)
(* of its event, one token and one member.                                       *)
EXTENDS AlertRules

SomeNames == {"", "NPE", " NPE "}

SomeTrim == [n \in SomeNames |-> IF n = " NPE " THEN "NPE" ELSE n]

SomeRows ==
    [integrations    |-> {},
     redaction_rules |-> {},
     api_tokens      |-> {[id |-> 1, data |-> [role |-> "ingest", revoked |-> FALSE]]},
     team_members    |-> {[id |-> 1, data |-> [role |-> "member"]]},
     alert_rules     |-> {[id |-> 1,
                           data |-> Payload([EmptyForm EXCEPT !.filled = TRUE, !.event = " NPE ",
                                                 !.trigger = "event_reoccurs"])]}]
=============================================================================
