SPECIFICATION FairSpec
CONSTANTS
  Commands = {c1, w1}
  WebHandlers = {w1}
  Pids = {p1, p2, p3}
  None = None
  Shell = Shell
  Kinds = {"start", "stop", "status", "repair"}
  MaxCommands = 3
  MaxFaults = 1
INVARIANTS OneWorker VerdictIsSound RunningWorkerIsKnown
PROPERTIES CommandsTakeEffect
CHECK_DEADLOCK FALSE
