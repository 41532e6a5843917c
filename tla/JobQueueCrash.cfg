SPECIFICATION FairSpec
CONSTANTS
    j1 = j1
    j2 = j2
    w1 = w1
    w2 = w2
    r1 = r1
    NoJob = NoJob
    Job = {j1, j2}
    Repo = {r1}
    Worker = {w1, w2}
    Admin = {admin}
    WorkerId = {"a", "b"}
    RepoOf <- MCRepoOf
    Ids <- OwnIds
    MaxAttempts = 3
    Budget <- Deadly
INVARIANTS
    NoJobLost
    RepoMutex
    RunOwnsLock
PROPERTIES
    EventuallySettled
