SPECIFICATION FairSpec
CONSTANTS
  t1 = t1
  t2 = t2
  t3 = t3
  Threads = {t1, t2, t3}
  Scenarios <- PairsAndTriples
  MinGroups = 2
  MaxGroups = 4
  MayRemount = TRUE
INVARIANTS Released ResizeComplete SuccessIsDurable Quiet
PROPERTIES CallsReturn
CHECK_DEADLOCK FALSE
