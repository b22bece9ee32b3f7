SPECIFICATION Spec
CONSTANTS
  t1 = t1
  t2 = t2
  Tasks = {t1}
  Batches <- SingleBatch
  Callers = {c1}
  Calls = {"pause", "resume", "delete"}
  MaxCkpt = 1
  MaxBoot = 1
  Failing = {"upsert", "delete"}
  SlowStop = FALSE
INVARIANTS TypeOK PromisesAreKept ActiveHasWorker
CHECK_DEADLOCK FALSE
