SPECIFICATION Spec
CONSTANTS
  Requests = {r1}
  Sched = Sched
  Instances = {i1, i2}
  NoInst = NoInst
  NoProc = NoProc
  FailedThreshold = 2
  NetThreshold = 1
  SaveKinds = {"new"}
  MaxSaves = 1
INVARIANTS EventsFollow
CHECK_DEADLOCK FALSE
