SPECIFICATION Spec
CONSTANTS
    None = None
    ann = ann
    ben = ben
    Session <- Sessions
    LocalModels <- Local
    RouterModels <- Router
    HostedModels <- Hosted
    Url <- Urls
    DefaultModel = "qwen"
    DefaultShown = "claude"
    StartModels <- AnyStart
    MaxApplies = 2
    MaxCuts = 1
SYMMETRY Admins
INVARIANTS
    RunsFollowSettings
    CacheCurrent
    
