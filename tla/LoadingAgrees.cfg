SPECIFICATION FairSpec
CONSTANTS
    k1 = k1
    k2 = k2
    w1 = w1
    w2 = w2
    v1 = v1
    b1 = b1
    Keys = {k1, k2}
    NumLocks = 2
    PartOf <- MCPartOf
    Threads = {w1, w2, b1}
    Class <- MCClass
    Script <- MCScript
    Faulty = {w1, w2}
    Lossy = {k2}
    None = None
CHECK_DEADLOCK FALSE
INVARIANTS
    TypeOK
    StoreAgrees
    NoFalseAlarm
PROPERTY ThreadsEnd
