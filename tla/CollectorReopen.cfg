CONSTANTS
  Conn = {1}
  Dir = {"up"}
  Meta <- OneApp
  MaxTombstones = 1
  PresenceInterval = 2
  MinGap = 2
  Grace = 1
  MaxCounter = 1
  MaxTotal = 2
  MaxStarts = 1
  MaxTime = 1
  MaxFrames = 4
  MaxSeq = 0
  MaxSessions = 1
  MaxJournal = 99
SPECIFICATION Spec
INVARIANTS ReobservedRowReopens
