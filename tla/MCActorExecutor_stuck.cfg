CONSTANTS
  Actors = {a1}
  Calls = {c1, c2}
  Stoppers = {n1}
  QueueCapacity = 1
  None = None
SPECIFICATION FairSpec
PROPERTY ShutdownReturns
CHECK_DEADLOCK FALSE
