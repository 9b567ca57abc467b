CONSTANTS
  App = {a}
  a = a r = r s = s
  Relay = {r, s}
  Conn = {a, r, s}
  Worker = {w1}
  Epochs = {1}
  Bytes = {1}
  Types = {"New", "Seen", "Gone", "Residual"}
  Spans = {}
  FramesPerHour = 2
  Chunk = 2
  MaxLog = 6
  MaxFrames = 3
  MaxSessions = 1
  MaxGens = 1
  MaxFaults = 0
SYMMETRY Candidates
SPECIFICATION Spec
INVARIANTS RowsFollowClasses HoursFollowRows ClosureIsEnough
CHECK_DEADLOCK FALSE
