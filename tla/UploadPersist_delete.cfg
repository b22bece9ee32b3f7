SPECIFICATION Spec
CONSTANTS
  t1 = t1
  t2 = t2
  Tasks = {t1, t2}
  Batches <- PairBatch
  Callers = {c1}
  Calls = {"rename", "delete"}
  MaxCkpt = 0
  MaxBoot = 0
  Failing = {"upsert"}
  SlowStop = TRUE
INVARIANTS NoRowComesBack
CHECK_DEADLOCK FALSE
