SPECIFICATION Spec
CONSTANTS
    ta = ta
    th = th
    tl = tl
    c1 = c1
    c2 = c2
    c3 = c3
    Tasks = {ta, th}
    Loaders = {}
    Hasty = {th}
    Clients = {c1, c2, c3}
    TaskOf <- PolledAndHasty
    Schedulers = {c1, c2}
    Timed = {c3}
    MaxPolls = 1
    MaxBatches = 0
    Forced = TRUE
    Orderly = FALSE
    NoTask = NoTask
CHECK_DEADLOCK FALSE
INVARIANT TaskTracked
PROPERTY
    CancelledIsFinal
    PromiseSpec
