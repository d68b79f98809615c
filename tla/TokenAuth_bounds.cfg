SPECIFICATION Spec
CONSTANTS
    Tokens = {k1}
    Admins = {r1, r2}
    Auths = {a1, a2}
    TTL = 1
    BootTime = 2
    MaxTime = 5
INVARIANTS AnswersBounded
PROPERTY DeletedForGood
CHECK_DEADLOCK FALSE
