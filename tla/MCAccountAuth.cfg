SPECIFICATION Spec
CONSTANTS
  Requests = {r1}
  Sched = Sched
  Instances = {i1, i2}
  NoInst = NoInst
  NoProc = NoProc
  FailedThreshold = 2
  NetThreshold = 1
  SaveKinds = {"same"}
  MaxSaves = 1
INVARIANTS  TokenKept EventsFollow BackoffLimitsFailures
PROPERTIES FreshTokenIsReused
SYMMETRY InstanceSymmetry
CHECK_DEADLOCK FALSE
