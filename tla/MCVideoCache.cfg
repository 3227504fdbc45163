SPECIFICATION Spec
CONSTANTS
    Proc = {p1}
    Flight = {f1, f2}
    None = None
    Req = {r1}
    Writer = {w1}
    Missing = {1}
    LockExpiry = TRUE
    MaxWrites = 2
    MaxEpoch = 1
    MaxFaults = 1
SYMMETRY Symmetry
INVARIANTS
    TypeOK
    L2Coherent
    L1Fenced
    AnswerFenced
