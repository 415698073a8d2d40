\* Two handlers that share an identifier, while the server is stopped.
CONSTANTS
  Handlers = {h1, h2}
  ConnIDs = {i1}
  MaxRequests = 2
  HasLimiter = TRUE
  MayTimeOut = TRUE
  MaxCalls = 4
  MaxStarts = 1
SPECIFICATION FairSpec
INVARIANTS
  RequestLedger
  ConnectionLedger
  OverrunBounded
  WornIsClosed
  StopDrains
PROPERTY
  StopTerminates
CHECK_DEADLOCK FALSE
