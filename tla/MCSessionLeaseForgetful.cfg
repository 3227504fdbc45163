SPECIFICATION Spec
CONSTANTS
    Sid = {s1}
    Req = {r1}
    Rev = {p1, p2}
    Lease = 2
    MarkerTTL = 2
    MaxTime = 5
    MaxWire = 1
    RedisKeepsKeys = FALSE
    Expiry <- MCExpiry
SYMMETRY Symmetry
INVARIANTS
    RetiredNeverAccepted
CHECK_DEADLOCK FALSE
