SPECIFICATION Spec
CONSTANTS
  s1 = s1 s2 = s2 s3 = s3 d1 = d1 d2 = d2 reg = reg add = add ta = ta tb = tb
  NoUser = NoUser
  Servers = {s1, s2}
  Pools = {reg, add}
  PoolIdOf <- MCPoolIdOf
  Memory <- MCMemory
  Tests = {ta, tb}
  Stamps = {1}
  Dispatchers = {d1, d2}
  TestsOf <- OneEach
  ServerCount <- TwoTwo
  AddCount <- NoAddl
  PoolIds <- MCPoolIds
  AddPool = add
  Monitored = {reg}
  JobIds = {1, 2}
  FreshRun = TRUE
  CheckVm = FALSE
  MaxAttempts = 2
  TrackSelect = TRUE
  Faults = FALSE
  UniqueNames = TRUE
  Punctual = TRUE
  LostReply = FALSE
  OverdueStates = {"booked"}
INVARIANT RunningJobsOwnServers
CHECK_DEADLOCK FALSE
