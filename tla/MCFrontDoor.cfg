SPECIFICATION Spec
CONSTANTS
    User = {u1, u2}
    Name = {n1, n2}
    Invite = {i1}
    Proc = {p1, p2}
    Nobody = Nobody
    MaxSessions = 2
    MaxPassword = 2
    MaxBans = 1
    MaxRefresh = 2
    Key = {k1, k2}
    Caller = {c1, c2, c3}
    MaxRate = 1
    Window = 2
    Capacity = 1
    Threshold = 2
    Cooldown = 1
    MaxClock = 5
    MaxGateFaults = 3
SYMMETRY Symmetry
INVARIANTS
    FrontDoorTypeOK
    LoginSessionsCurrent
    InviteOnce
    RefreshOnce
    LocalBudget
    ProbeUnderWay
CHECK_DEADLOCK FALSE
