SPECIFICATION Spec
CONSTANTS
  t1 = t1
  t2 = t2
  Tasks = {t1}
  Cross = {t1}
  Batches <- SingleBatches
  Callers = {c1}
  Limits = {1}
  Gated = TRUE
  WritesFail = TRUE
  Shutdown = TRUE
  MaxRun = 3
INVARIANTS OneRunPerTask ChannelClosedOnce NoTransferAfterDelete
CHECK_DEADLOCK FALSE
