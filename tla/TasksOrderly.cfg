SPECIFICATION FairSpec
CONSTANTS
    ta = ta
    th = th
    tl = tl
    c1 = c1
    c2 = c2
    c3 = c3
    Tasks = {ta, tl}
    Loaders = {tl}
    Hasty = {}
    Clients = {c1, c2, c3}
    TaskOf <- PolledAndLoading
    Schedulers = {c1, c3}
    Timed = {c2}
    MaxPolls = 1
    MaxBatches = 1
    Forced = FALSE
    Orderly = TRUE
    NoTask = NoTask
CHECK_DEADLOCK FALSE
INVARIANTS
    TypeOK
    TaskTracked
    GetNeverBlocks
    AllAgree
PROPERTIES
    PromiseSpec
    ClientsReturn
    ManagerStops
