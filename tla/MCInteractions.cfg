SPECIFICATION Spec
CONSTANTS
    Fan = {f1, f2}
    Kind = {like}
    Desk = {d1, d2}
    Token = {t1}
    NoToken = NoToken
    MaxPress = 3
    MaxUpset = 1
    Writer = {w1, w2}
    Film = {v1}
    AuthorOf <- Authors
    Clerk = {c1, c2}
    Slip = {k1}
    NoSlip = NoSlip
    PageSize = 2
    MaxComments = 3
    Reader = {r1, r2}
    Happening <- Happenings
    Mentioner = {m1, m2}
    ListLimit = 1
    MaxMessages = 3
    MaxStamp = 2
    Period = 3
    RedisTimeout = 1
SYMMETRY Symmetry
INVARIANTS
    InteractionsTypeOK
    Converged
    CommentOnce
    PagesComplete
    ToldOnce
    ListComplete
    NeverFarBehind
PROPERTIES
    ActionTally
    CommentTally
CHECK_DEADLOCK FALSE
