SPECIFICATION FairSpec
CONSTANTS
    r1 = r1
    r2 = r2
    h1 = h1
    h2 = h2
    qe = qe
    NoHost = NoHost
    NoLabel = NoLabel
    Hosts <- OneHost
    MaxOf <- OneMax
    RoomOf <- TwoRoom
    LabelsOf <- QeHost
    Requests = {r1}
    CountOf <- OneVm
    LabelsFor <- QeRequest
    IgnoreLabels = {}
    PinnedTo <- NotPinned
    AllOrNone = {r1}
    CheckVms = {r1}
    Releasing = {r1}
    Timed = {r1}
    MaxFaults = 3
CHECK_DEADLOCK FALSE
PROPERTIES
    RecordSettles
    RequestsEnd
