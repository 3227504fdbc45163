SPECIFICATION Spec
CONSTANTS
    Ev = {1, 2}
    Consumer = {c1}
    BatchSize = 2
    MaxAttempt = 1
    MaxFaults = 4
INVARIANT
    RelaysReliably
CHECK_DEADLOCK FALSE
