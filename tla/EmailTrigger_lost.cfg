SPECIFICATION FairSpec
CONSTANTS
  Items = {m1}
  Keys = {1}
  Threads = {t1}
  None = None
  MaxCrashes = 0
  MaxReloads = 0
  MaxFailures = 1
  MaxExpunges = 0
  MaxUnread = 0
PROPERTIES AtLeastOnce
CHECK_DEADLOCK FALSE
