SPECIFICATION FairSpec
CONSTANTS
  Items = {m1, m2}
  Keys = {1, 2}
  Threads = {t1, t2}
  None = None
  MaxCrashes = 1
  MaxReloads = 1
  MaxFailures = 1
  MaxExpunges = 1
  MaxUnread = 1
INVARIANTS DuplicatesHaveCauses
PROPERTIES EveryMailIsEnqueued
CHECK_DEADLOCK FALSE
