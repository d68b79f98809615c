-------------------------------- MODULE MCBrowse -------------------------------
(* An instance of Browse: an application that no instance has announced, with   *)
(* an event of one occurrence and one more to come; one in an environment that  *)
(* the dashboard does not know, with a row without a fingerprint; and one       *)
(* without rows.                                                                *)
EXTENDS Browse

Pay(id, at) ==
    [id |-> id, fp |-> "P", app |-> "pay", inst |-> "none", env |-> "none",
     caught |-> FALSE, error |-> TRUE, hits |-> id, n |-> 1, at |-> at]

Cart(id, at) ==
    [id |-> id, fp |-> "", app |-> "cart", inst |-> "i2", env |-> "qa",
     caught |-> TRUE, error |-> FALSE, hits |-> 0, n |-> 1, at |-> at]

SomeRows == <<Pay(2, 1490), Cart(1, 1400)>>
OneMore == <<Pay(3, 1495)>>

SomeInstances == <<[inst |-> "i1", app |-> "shop", env |-> "production", at |-> 1495],
                   [inst |-> "i2", app |-> "cart", env |-> "qa", at |-> 1400]>>

Lib == [user |-> FALSE, source |-> FALSE, vars |-> {}]
User == [user |-> TRUE, source |-> TRUE, vars |-> {"x"}]

SomeFrames == <<<<User>>, <<Lib, Lib, User>>, <<User, Lib>>>>

\* Either the reader moves among the pages, without that of an event, while time passes;
\* or opens that of an event from the list, and looks at it, while rows go.
OnPages == {"go", "follow", "context", "filter", "select", "cards", "clock"}
AtEvent == {"read", "look", "cache", "gone"}

Bookmarks == {<<"dashboard", "", OnPages>>, <<"events", "", OnPages>>, <<"application", "pay", OnPages>>,
              <<"events", "", AtEvent>>}

Times == {1500, 3000}
=============================================================================
