SPECIFICATION Spec
CONSTANTS
    Proc = {p1}
    Flight = {f1, f2}
    None = None
    Req = {r1}
    Writer = {w1}
    Missing = {}
    LockExpiry = FALSE
    MaxWrites = 1
    MaxEpoch = 0
    MaxFaults = 0
INVARIANT
    InvalidatedStaysOut
