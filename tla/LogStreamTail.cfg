SPECIFICATION FairSpec
CONSTANTS
    LogCap = 2
    MaxLines = 4
    MaxRuns = 2
    MaxDrops = 1
INVARIANTS
    OneGap
    StatusCurrent
PROPERTIES
    ClosesAfterSubscription
CHECK_DEADLOCK FALSE
