SPECIFICATION Spec
CONSTANTS
  Jobs = {j1, j2}
  Sources = {s1}
  Threads = {t1, t2}
  Operators = {o1, o2}
  None = None
  MaxRetries = 1
  Once = FALSE
  MaxCrashes = 0
  MaxDbErrors = 0
  MaxCommands = 2
SYMMETRY Symmetry
PROPERTIES RetryResetsOnlyFailed
CHECK_DEADLOCK FALSE
