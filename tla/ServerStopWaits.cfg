\* A request past the running check when Stop looks at the counter.
CONSTANTS
  Handlers = {h1, h2}
  ConnIDs = {i1}
  MaxRequests = 2
  HasLimiter = TRUE
  MayTimeOut = FALSE
  MaxCalls = 3
  MaxStarts = 2
SPECIFICATION Spec
INVARIANT StopWaitsForAll
CHECK_DEADLOCK FALSE
