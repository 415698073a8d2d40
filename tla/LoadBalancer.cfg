\* The four algorithms, while servers come, go and fail.
CONSTANTS
  s1 = s1  s2 = s2  s3 = s3
  Servers = {s1, s2, s3}
  Weight <- MixedWeights
  Pickers = {p1, p2}
  Algorithms = {"round_robin", "random", "weighted", "least_conn"}
  Reports = TRUE
  Disconnects = TRUE
  MaxPicks = 5
  MaxChanges = 2
SPECIFICATION BalancerSpec
INVARIANTS
  FairShare
  AvoidsDown
  SpreadBounded
CHECK_DEADLOCK FALSE
