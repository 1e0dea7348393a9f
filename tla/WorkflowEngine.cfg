SPECIFICATION FairSpec
CONSTANTS
  a = a
  b = b
  Names = {a, b}
  Top = a
  None = None
  Programs <- MCPrograms
  MaxThreads = 4
  MaxItems = 2
  MaxDepth = 5
  MaxTimeouts = 1
INVARIANTS CallsAreTracked OriginalErrorIsRaised
PROPERTIES Terminates
CHECK_DEADLOCK FALSE
