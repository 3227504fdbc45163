SPECIFICATION Spec
CONSTANTS
    Upload = {u1}
    Caller = {c1, c2, c3}
    Chunks = 2
    Name = {n1, n2}
    Capacity = 2
    MaxFaults = 2
    Media = {m1, m2}
    MaxWrites = 3
    MaxStops = 2
SYMMETRY Symmetry
INVARIANTS
    MediaTypeOK
    LibrarySound
    Publishable
    CutoverWhole
CHECK_DEADLOCK FALSE
