SPECIFICATION Spec
CONSTANTS
  t1 = t1
  t2 = t2
  Tasks = {t1}
  Cross = {}
  Batches <- SingleBatches
  Callers = {c1, c2}
  Limits = {1}
  Gated = FALSE
  WritesFail = FALSE
  Shutdown = FALSE
  MaxRun = 3
INVARIANTS OneRunPerTask
CHECK_DEADLOCK FALSE
