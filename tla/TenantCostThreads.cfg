SPECIFICATION Spec
CONSTANTS
    None = None
    i1 = i1
    j1 = j1
    j2 = j2
    w1 = w1
    w2 = w2
    c1 = c1
    c2 = c2
    c3 = c3
    Threads = {w1, w2}
    Jobs = {j1, j2}
    Insts = {i1}
    InstOf <- MCInstOf
    Calls = {c1, c2, c3}
    Models = {"gpt-4o"}
    Provider <- MCProvider
    Catalog <- MCCatalog
    StashCap = 2
    StashDrop = 1
    Budget <- Once
SYMMETRY Alike
INVARIANTS
    UnitsAttributed
    KnownBelowCap
    UsageCoherent
CHECK_DEADLOCK FALSE
