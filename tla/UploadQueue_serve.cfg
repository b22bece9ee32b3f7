SPECIFICATION FairSpec
CONSTANTS
  t1 = t1
  t2 = t2
  Tasks = {t1, t2}
  Cross = {}
  Batches <- Pair
  Callers = {c1}
  Limits = {1}
  Gated = FALSE
  WritesFail = FALSE
  Shutdown = TRUE
  MaxRun = 1
PROPERTIES PendingIsServed
CHECK_DEADLOCK FALSE
