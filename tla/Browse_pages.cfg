SPECIFICATION Spec
CONSTANTS
    FirstRows <- SomeRows
    Arrivals <- OneMore
    FramesOf <- SomeFrames
    Instances <- SomeInstances
    Later <- Times
    Ranges = {"24h", "1h"}
    MaxGone = 1
    MaxOps = 2
    FirstPages <- Bookmarks
INVARIANTS EachEventInOneEnvironment NothingHiddenSilently ScoreIsOfRegressions PanesAgree ShowsNewest
PROPERTY FrameSettles
CHECK_DEADLOCK FALSE
