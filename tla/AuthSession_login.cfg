SPECIFICATION Spec
CONSTANTS
    Keys = {k1}
    Shells = {s1, s2}
    MaxLogins = 2
    MaxReloads = 1
INVARIANTS SignedInAsAccepted LogoutSticks SocketKeyIsUsers OneSocket NeverStranded
PROPERTY SubmitEnds
CHECK_DEADLOCK FALSE
