SPECIFICATION QueueSpec
CONSTANTS
  Jobs = {j1, j2}
  Sources = {s1}
  Threads = {t1, t2}
  Operators = {o1}
  None = None
  MaxRetries = 1
  Once = TRUE
  MaxCrashes = 1
  MaxDbErrors = 1
  MaxCommands = 1
SYMMETRY Symmetry
CONSTRAINT OneFault
INVARIANTS ExclusiveExecution ProcessingIsOwned RetryBudget NoRepeatedSideEffects
PROPERTIES FinalStatusStays ImplementsLifecycle
CHECK_DEADLOCK FALSE
