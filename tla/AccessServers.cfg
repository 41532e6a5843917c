SPECIFICATION Spec
CONSTANTS
    alice = alice
    ta = ta
    root = root
    None = None
    p1 = p1
    p2 = p2
    r1 = r1
    r2 = r2
    Insts = {1, 2}
    Users = {alice}
    Tokens = {ta, root}
    AdminTokens = {root}
    Owner <- MCOwner
    AdminLogins = {}
    FirstAccess <- MCFirst
    FirstRoles <- MCRoles
    Procs = {p1, p2}
    Reqs = {r1, r2}
    PageSize = 1
    MaxPages = 2
    TTL = 1
    CacheCap = 1
    CacheDrop = 1
    RoleAuditCap = 1
    GlobalCap = 2
    PerInstallCap = 1
    Asked <- MCAsked
    Slack = 1
    Budget <- Once
SYMMETRY Alike
INVARIANTS
    AccessEnds
    MembersServed
    RoleHeld
    TrailExplains
    ListsAgree
    ChangesRecorded
