SPECIFICATION Spec
CONSTANTS
    Triggers = {"new_event", "event_reoccurs"}
    Fingerprints = {f1}
    Ingests = {i1, i2}
    Editors = {e1}
    QueueMax = 1
    TTL = 1
    Cooldown = 2
    MaxBatch = 2
    MaxRows = 3
    MaxTime = 5
INVARIANTS NewEventOnce
PROPERTIES CooldownUnlessOverwritten DisabledIsQuiet
CHECK_DEADLOCK FALSE
