SPECIFICATION FairSpec
CONSTANTS
  s1 = s1 s2 = s2 s3 = s3 d1 = d1 d2 = d2 reg = reg add = add ta = ta tb = tb
  NoUser = NoUser
  Servers = {s1, s2}
  Pools = {reg, add}
  PoolIdOf <- OnePoolIdOf
  Memory <- MCMemory
  Tests = {ta, tb}
  Stamps = {1}
  Dispatchers = {d1}
  TestsOf <- OneEach
  ServerCount <- TwoTwo
  AddCount <- NoAddl
  PoolIds <- MCPoolIds
  AddPool = add
  Monitored = {reg}
  JobIds = {1, 2}
  FreshRun = FALSE
  CheckVm = TRUE
  MaxAttempts = 1
  TrackSelect = TRUE
  Faults = FALSE
  UniqueNames = TRUE
  Punctual = TRUE
  LostReply = FALSE
  OverdueStates = {"booked"}
PROPERTY HoldResolves
CHECK_DEADLOCK FALSE
