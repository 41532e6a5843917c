SPECIFICATION FairSpec
CONSTANTS
    fix = fix
    evolve = evolve
    amend = amend
    review = review
    Job = {fix, evolve, amend, review}
    Kind <- MCKind
    Sandboxed = {fix, review}
    Branch <- MCBranch
    Base = "master"
    Asked <- MCAsked
    PullOf <- MCPullOf
    File = {"a"}
    MaxTries = 2
    MaxTurns = 2
    Life = 2
    Margin = 1
    MaxTime = 2
    Backlog <- Pairs
    Budget <- Once
    MaxFaults = 1
INVARIANTS
    OnlyOwnWork
    WorkGetsPull
    BoxesStopped
PROPERTIES
    EditsReachCommit
    DeniedOnlyLate
    RunsEnd
CHECK_DEADLOCK FALSE
