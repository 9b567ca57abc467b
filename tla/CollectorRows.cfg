CONSTANTS
  Conn = {1, 2}
  Dir = {"up"}
  Meta <- AppAndRelay
  MaxTombstones = 1
  PresenceInterval = 2
  MinGap = 2
  Grace = 1
  MaxCounter = 1
  MaxTotal = 1
  MaxStarts = 1
  MaxTime = 1
  MaxFrames = 3
  MaxSeq = 0
  MaxSessions = 1
  MaxJournal = 99
SPECIFICATION Spec
INVARIANTS NoContractViolation RowsFollowEngine ResidualBalances FrameComplete
