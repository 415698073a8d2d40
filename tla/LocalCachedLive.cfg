\* Two limiters share the remote server; a Reset may fall anywhere.
CONSTANTS
  l1 = l1  l2 = l2  c1 = c1  c2 = c2  c3 = c3
  Limiters = {l1, l2}
  Callers = {c1, c2, c3}
  LimiterOf <- TwoLimiters
  Costs = {1}
  Prefetch = 1
  MaxResets = 1
  Unit = 1
  Rate = 1
  Burst = 1
  MaxBatch = 2
  MaxTime = 1
SPECIFICATION FairSpec
INVARIANT
  AdmissionBounded
PROPERTY
  CallReturns
