CONSTANTS
  Rebuilders = {p1, p2}
  Cleaners = {c1}
  Keeps = {1}
  Batch = 1
  MaxRuns = 3
  MaxEvents = 1
  MaxFaults = 1
SYMMETRY Processes
SPECIFICATION Spec
INVARIANTS LatestIsWhole AnswerHolds RowsHaveRun
PROPERTY BoundaryForward
CHECK_DEADLOCK FALSE
