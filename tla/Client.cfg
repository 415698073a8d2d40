\* Pooled, per-request and dedicated connections, a switch of the mode, and
\* everything that may fail.
CONSTANTS
  Workers = {w1, w2}
  Modes = {"hybrid", "dedicated"}
  MaxConcurrency = 2
  MaxConnections = 1
  MaxRequests = 2
  HybridEvery = 2
  Requests = 3
  HasRate = TRUE
  PickerFails = TRUE
  MayTimeOut = TRUE
  MayStop = TRUE
  MayClose = TRUE
  MaxSwitches = 1
SPECIFICATION FairSpec
INVARIANTS
  Exclusive
  OnlyStrays
  RequestsExact
PROPERTY
  WorkersFinish
CHECK_DEADLOCK FALSE
