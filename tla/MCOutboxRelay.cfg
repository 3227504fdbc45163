SPECIFICATION Spec
CONSTANTS
    Ev = {1, 2}
    Consumer = {c1, c2}
    BatchSize = 2
    MaxAttempt = 1
    MaxFaults = 4
SYMMETRY Symmetry
INVARIANTS
    TypeOK
    NoEventLost
    DeadOnlyAfterRetries
    VisibleVideoNotSkipped
CHECK_DEADLOCK FALSE
