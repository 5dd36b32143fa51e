SPECIFICATION Spec
CONSTANTS
    r1 = r1
    r2 = r2
    h1 = h1
    h2 = h2
    qe = qe
    NoHost = NoHost
    NoLabel = NoLabel
    Hosts <- MCHosts
    MaxOf <- OneEach
    RoomOf <- TwoEach
    LabelsOf <- QeHosts
    Requests = {r1, r2}
    CountOf <- TwoAndOne
    LabelsFor <- QeRequests
    IgnoreLabels = {}
    PinnedTo <- SecondPinned
    AllOrNone = {r1, r2}
    CheckVms = {r1}
    Releasing = {r2}
    Timed = {}
    MaxFaults = 1
CHECK_DEADLOCK FALSE
INVARIANTS
    TypeOK
    ReservedReturns
    PromisedVms
