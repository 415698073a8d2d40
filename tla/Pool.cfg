\* Three users, two connections, a picker that may fail, and Close.
CONSTANTS
  Users = {u1, u2, u3}
  MaxTotal = 2
  MaxRequests = 2
  Lifo = FALSE
  PickerFails = TRUE
  MayClose = TRUE
  MaxCalls = 2
SPECIFICATION FairSpec
INVARIANTS
  SlotsExact
  NoStrandedWaiter
PROPERTY
  GetReturns
CHECK_DEADLOCK FALSE
