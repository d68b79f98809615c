SPECIFICATION AttemptsSpec
CONSTANTS
    MaxQueue = 3
    BatchSize = 2
    SendRetries = 1
    MaxEvents = 5
INVARIANTS NothingForgotten LossesCounted DrainComplete AtMostTwoPostsAfterStop
PROPERTIES OutageLosesNothing LedgerSpec StopReturns EarlyEventsSettle
CHECK_DEADLOCK FALSE
