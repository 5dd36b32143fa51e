SPECIFICATION Spec
CONSTANTS
  s1 = s1 s2 = s2 s3 = s3 d1 = d1 d2 = d2 reg = reg add = add ta = ta tb = tb
  NoUser = NoUser
  Servers = {s1, s2, s3}
  Pools = {reg, add}
  PoolIdOf <- MCPoolIdOf
  Memory <- MCMemory
  Tests = {ta, tb}
  Stamps = {1}
  Dispatchers = {d1, d2}
  TestsOf <- TwoAndOne
  ServerCount <- TwoOne
  AddCount <- AllAddl
  PoolIds <- MCPoolIds
  AddPool = add
  Monitored = {reg}
  JobIds = {1, 2}
  FreshRun = FALSE
  CheckVm = TRUE
  MaxAttempts = 1
  TrackSelect = TRUE
  Faults = TRUE
  UniqueNames = TRUE
  Punctual = TRUE
  LostReply = FALSE
  OverdueStates = {"booked"}
INVARIANTS RunningJobsOwnServers CleanerSparesBooked NoDeadServerUsed
CHECK_DEADLOCK FALSE
