SPECIFICATION FairSpec
CONSTANTS
  Tasks = {t1}
  Magnets = {t1}
  Savers = {c1,c2}
  MaxLimit = 1
  MaxEvents = 2
  Unreliable = FALSE
PROPERTIES MagnetsAreServed
CHECK_DEADLOCK FALSE
