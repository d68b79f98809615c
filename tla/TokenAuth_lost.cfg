SPECIFICATION Spec
CONSTANTS
    Tokens = {k1}
    Admins = {r1, r2}
    Auths = {a1, a2}
    TTL = 2
    BootTime = 3
    MaxTime = 8
INVARIANT RevocationSticks
CHECK_DEADLOCK FALSE
