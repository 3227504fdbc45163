SPECIFICATION Spec
CONSTANTS
    Person = {p1, p2, p3}
    Hand = {h1, h2}
    NoHand = NoHand
    Note = {n1}
    NoNote = NoNote
    MaxFollows = 3
    Viewer = {1, 2}
    Crowd = {0, 2}
    Clip = {1, 2}
    BigThreshold = 3
    BatchSize = 1
    InboxMax = 2
    BackfillMax = 2
    MaxUpsets = 1
    Post = {1, 2, 3}
    Guest = {g1, g2}
    PageLimit = 1
    MaxEdits = 1
    Song = {1, 2}
    Browser = {b1, b2}
    HotLimit = 1
    WindowSpan = 2
    LastMinute = 1
    MaxHeat = 1
    MaxOutages = 2
    Movie = {1, 2, 3, 4, 5}
    Maker = {x, y}
    RecLimit = {3, 5}
    PoolFactor = 1
    MinPool = 4
    MaxPool = 5
    Measure <- OneAhead
    MaxMeasure = 1
    Epsilon = 1
    MaxViews = 1
    Relay = {r1, r2}
    MaxTexts = 2
    MaxStatus = 2
    MaxFailures = 2
SYMMETRY Symmetry
INVARIANTS
    FeedsTypeOK
    NobodyMissed
    ModerationApplies
    TimelineWhole
    HotNoRepeat
    PicksSound
PROPERTIES
    FollowTally
CHECK_DEADLOCK FALSE
