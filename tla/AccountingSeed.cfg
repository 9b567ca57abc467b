CONSTANTS
  App = {"a"}
  Relay = {"r"}
  Conn = {"a", "r"}
  Worker = {w1}
  Epochs = {1}
  Bytes = {1}
  Types = {"New", "Seen", "Gone", "Residual", "Other"}
  Spans = {}
  FramesPerHour = 1
  Chunk = 2
  MaxLog = 4
  MaxFrames = 2
  MaxSessions = 1
  MaxGens = 1
  MaxFaults = 0
SPECIFICATION FairSpec
PROPERTY SeedCompletes
CHECK_DEADLOCK FALSE
