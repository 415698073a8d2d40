\* Two calls of Run, with workers that end in each of the three ways.
CONSTANTS
  Workers = {w1, w2}
  EndsBy = {"requests", "time", "context"}
  PerClient = 2
  MaxSent = 2
  MaxSnapshots = 1
  MaxRuns = 2
SPECIFICATION FairSpec
INVARIANTS
  LifeCycle
  ReportComplete
PROPERTY
  CallsReturn
CHECK_DEADLOCK FALSE
