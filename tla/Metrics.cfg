\* Two recorders, a reader, a Reset, and a clock that steps back once.
CONSTANTS
  w1 = w1  w2 = w2
  Workers = {w1, w2}
  Kinds = {"Success", "RateLimitChecks"}
  Keep = 1
  MaxTime = 3
  MaxBacks = 1
  MaxRecords = 3
  MaxSnapshots = 1
  MaxResets = 1
SPECIFICATION Spec
SYMMETRY SymmetryWorkers
INVARIANTS
  EveryBucketFound
  NeverEarlier
  FewLateRecords
  TotalsAgree
CHECK_DEADLOCK FALSE
