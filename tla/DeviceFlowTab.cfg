SPECIFICATION FairSpec
CONSTANTS
    None = None
    Interval = 2
    SlowDown = 1
    MinPause = 1
    Lifetime = 8
    MaxFaults = 4
INVARIANTS
    PaceAgreed
    CodeAgreed
PROPERTIES
    PaceKept
    ApprovalCompletes
