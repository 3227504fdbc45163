SPECIFICATION FairSpec
CONSTANTS
    Proc = {p1, p2}
    Flight = {f1, f2}
    None = None
    Req = {r1, r2}
    Writer = {w1}
    Missing = {}
    LockExpiry = FALSE
    MaxWrites = 0
    MaxEpoch = 0
    MaxFaults = 0
INVARIANT
    OneQuery
PROPERTY
    EveryRequestEnds
