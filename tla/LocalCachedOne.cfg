\* Three callers behind one limiter.
CONSTANTS
  l1 = l1  l2 = l2  c1 = c1  c2 = c2  c3 = c3
  Limiters = {l1}
  Callers = {c1, c2, c3}
  LimiterOf <- OneLimiter
  Costs = {1, 2}
  Prefetch = 1
  MaxResets = 1
  Unit = 3
  Rate = 2
  Burst = 1
  MaxBatch = 2
  MaxTime = 5
SPECIFICATION Spec
SYMMETRY SymmetryOne
INVARIANTS
  SingleFlight
  NoStrandedWaiter
  TokenConservation
  Accounting
  AdmittedWithinLimit
  BackOffSuffices
PROPERTIES
  RemoteSpec
  GrantOnlyAfterWait
