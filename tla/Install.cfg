SPECIFICATION FairSpec
CONSTANTS
    n1 = n1
    n2 = n2
    Nodes <- TwoNodes
    Tasks <- AllTasks
    Columnar = {n2}
    AllColumnar = FALSE
    Clusters = {{n1}}
    QueryLimit = TRUE
CHECK_DEADLOCK FALSE
INVARIANTS
    TypeOK
    ZeroMeansInstalled
    PhasesApart
PROPERTIES
    InstallerEnds
