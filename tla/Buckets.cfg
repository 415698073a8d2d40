\* Four ticks per second, three tokens per second; the burst is left out and
\* defaults to the rate.
CONSTANTS
  Keys = {k1}
  Costs = {1, 2, 4}
  Unit = 4
  Rate = 3
  ConfigBurst = 0
  MaxTime = 7
  MaxResets = 1
SPECIFICATION Spec
INVARIANTS
  IntervalBound
  RetryAfterTight
PROPERTY IsTokenBucket
