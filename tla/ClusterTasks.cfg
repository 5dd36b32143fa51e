SPECIFICATION FairSpec
CONSTANTS
    t1 = t1
    t2 = t2
    c1 = c1
    c2 = c2
    NoTask = NoTask
    Tasks = {t1, t2}
    Clients = {c1, c2}
    TaskOf <- TwoClients
    Timed = {c2}
    MayBe <- AnyBesideFew
    Limits <- SmallLimits
    Forgetful = {"N1QLQuery", "CreateIndex", "BuildIndex", "DropIndex", "MonitorViewQueryResults", "NodeMonitorsAnalyser"}
    Hasty = {"CBRecovery", "ViewCreate", "MonitorViewQueryResults", "MonitorActive", "MonitorViewCompaction", "MonitorDBFragmentation", "MonitorDiskSizeFragmentation", "NodesFailure", "AutoFailoverNodesFailure", "NodeDownTimer", "SDKLoadDocuments"}
    Holding = {"AutoFailoverNodesFailure", "NodeMonitorsAnalyser"}
CHECK_DEADLOCK FALSE
INVARIANTS
    TypeOK
    NotAbandoned
    NobodyMisled
PROPERTIES
    TasksAnswered
