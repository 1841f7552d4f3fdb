CONSTANTS
  Actors = {a1}
  Calls = {c1, c2}
  Stoppers = {n1, n2}
  QueueCapacity = 1
  None = None
SPECIFICATION LiveSpec
INVARIANTS TypeOK OutcomeMeansRan ShutdownLeavesNone
PROPERTIES KeepsPromise StopIsFinal CallsReturn ShutdownReturns
CHECK_DEADLOCK FALSE
