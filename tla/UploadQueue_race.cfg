SPECIFICATION CancelFairSpec
CONSTANTS
  t1 = t1
  t2 = t2
  Tasks = {t1}
  Cross = {t1}
  Batches <- SingleBatches
  Callers = {c1, c2}
  Limits = {1}
  Gated = TRUE
  WritesFail = TRUE
  Shutdown = TRUE
  MaxRun = 2
INVARIANTS NoSilentOrphan
PROPERTIES StopsAreObeyed ResumeIsAnswered
CHECK_DEADLOCK FALSE
