SPECIFICATION FairSpec
CONSTANTS
    j1 = j1
    j2 = j2
    w1 = w1
    i1 = i1
    r1 = r1
    r2 = r2
    Job = {j1, j2}
    Repo = {r1, r2}
    RepoOf <- MCRepoOf
    Worker = {w1}
    WorkerId = {"a"}
    Ids <- MCIds
    NoJob = NoJob
    MaxAttempts = 3
    Budget <- Faults
    Inst = {i1}
    NoInst = NoInst
    InstOf <- MCInstOf
    Actionable = {j1, j2}
    Server = {s1}
    NoDelivery = NoDelivery
    Limit <- OneAtATime
    Window <- MCWindow
    Horizon = 0
    IntakeBudget <- LongRun
INVARIANTS
    CounterBacked
    CounterNotNegative
PROPERTIES
    CounterNeverStuck
