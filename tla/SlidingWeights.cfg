\* The window is left out and defaults to a second of three ticks.
CONSTANTS
  Keys = {k1}
  Costs = {1, 2}
  Rate = 3
  Second = 3
  ConfigWindow = 0
  MaxTime = 7
  MaxBacks = 2
SPECIFICATION Spec
INVARIANT
  PreviousWeighted
