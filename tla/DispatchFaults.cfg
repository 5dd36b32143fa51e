SPECIFICATION Spec
CONSTANTS
  s1 = s1 s2 = s2 s3 = s3 d1 = d1 d2 = d2 reg = reg add = add ta = ta tb = tb
  NoUser = NoUser
  Servers = {s1, s2}
  Pools = {reg}
  PoolIdOf <- OnePoolIdOf
  Memory <- SameMemory
  Tests = {ta}
  Stamps = {1}
  Dispatchers = {d1, d2}
  TestsOf <- SameTest
  ServerCount <- OneOne
  AddCount <- NoAddl
  PoolIds <- MCPoolIds
  AddPool = reg
  Monitored = {reg}
  JobIds = {1}
  FreshRun = TRUE
  CheckVm = FALSE
  MaxAttempts = 2
  TrackSelect = FALSE
  Faults = TRUE
  UniqueNames = FALSE
  Punctual = FALSE
  LostReply = TRUE
  OverdueStates = {"booked"}
SYMMETRY Symmetry
INVARIANTS TypeOK BookingsAccounted
PROPERTIES BookingSpec
CHECK_DEADLOCK FALSE
