SPECIFICATION IntakeSpec
CONSTANTS
    d1 = d1
    d2 = d2
    d3 = d3
    pat = pat
    other = other
    i1 = i1
    s1 = s1
    s2 = s2
    Delivery = {d1, d2, d3, pat, other}
    Inst = {i1}
    NoInst = NoInst
    NoDelivery = NoDelivery
    InstOf <- MCInstOf
    Actionable <- MCActionable
    Server = {s1, s2}
    Limit <- AllThree
    Window <- MCWindow
    Horizon = 3
    IntakeBudget <- Faults
INVARIANTS
    OneJobPerDelivery
    ChargedOnSuccess
    WindowRespected
SYMMETRY Alike
