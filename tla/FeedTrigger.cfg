SPECIFICATION FairSpec
CONSTANTS
  Items = {i1, i2}
  Keys = {i1, i2}
  Threads = {t1, t2}
  None = None
  MaxCrashes = 1
  MaxReloads = 1
  MaxFailures = 1
INVARIANTS DuplicatesNeedReloads LossesNeedFaults
PROPERTIES EveryItemIsEnqueued
CHECK_DEADLOCK FALSE
