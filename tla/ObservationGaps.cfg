CONSTANTS
  Conn = {1}
  Dir = {"up"}
  Meta <- TwoRoutes
  MaxTombstones = 1
  PresenceInterval = 2
  MinGap = 2
  MaxCounter = 1
  MaxTotal = 2
  MaxStarts = 2
  MaxTime = 4
  MaxFrames = 3
  MaxSeq = 2
  Anomalies = FALSE
SPECIFICATION Spec
INVARIANTS PresenceEvidence GapCoversSilence
