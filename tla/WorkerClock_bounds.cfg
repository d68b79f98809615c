SPECIFICATION ClockSpec
CONSTANTS
    BatchSize = 2
    SendRetries = 3
    FlushTicks = 2
    BackoffTicks = 1
    HttpTicks = 5
    DrainTicks = 3
    MaxQueued = 3
    Throwers = 2
INVARIANTS StopBounded FullBatchWakes
CHECK_DEADLOCK FALSE
