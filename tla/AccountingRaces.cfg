CONSTANTS
  App = {"a"}
  Relay = {"r"}
  Conn = {"a", "r"}
  Worker = {w1, w2}
  Epochs = {1}
  Bytes = {1}
  Types = {"New", "Residual"}
  Spans = {}
  FramesPerHour = 1
  Chunk = 2
  MaxLog = 3
  MaxFrames = 2
  MaxSessions = 1
  MaxGens = 2
  MaxFaults = 1
SPECIFICATION FairSpec
INVARIANTS StateFollowsJournal FramesWhole
PROPERTY LagCloses
CHECK_DEADLOCK FALSE
