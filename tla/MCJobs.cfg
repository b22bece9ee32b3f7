SPECIFICATION SumSpec
CONSTANTS
  one = one
  two = two
  three = three
  StrmIds = {one}
  StrmAccount <- OneAccount
  StrmLimit = 1
  StrmCallers = {three}
  StrmRuns = 2
  StrmRestarts = 1
  Rules = {one, two}
  NoRule = NoRule
  MaxSubmits = 3
  OrganizeCallers = {three}
  MaxPlans = 1
  MaxEdits = 1
  Tasks = {one, two}
  Magnets = {two}
  Savers = {three}
  MaxLimit = 2
  MaxEvents = 1
  Unreliable = FALSE
INVARIANTS ClientStaysOpen AcceptedIsKept RunsQueueUp FilesAndMarksMatch OnePlanOneRunner
PROPERTIES CleanUpKeepsData HttpIsServed AcceptedIsStarted ScanEndKeepsPause AccountIsFreed ProgressSettles
CHECK_DEADLOCK FALSE
