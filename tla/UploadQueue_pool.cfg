SPECIFICATION Spec
CONSTANTS
  t1 = t1
  t2 = t2
  Tasks = {t1, t2}
  Cross = {t1, t2}
  Batches <- SingleBatches
  Callers = {c1}
  Limits = {1, 2}
  Gated = FALSE
  WritesFail = FALSE
  Shutdown = FALSE
  MaxRun = 1
INVARIANTS SlotAccounting
PROPERTIES SlotsArePooled
CHECK_DEADLOCK FALSE
