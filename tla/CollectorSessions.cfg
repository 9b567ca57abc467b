CONSTANTS
  Conn = {1}
  Dir = {"up"}
  Meta <- OneApp
  MaxTombstones = 1
  PresenceInterval = 1
  MinGap = 2
  Grace = 1
  MaxCounter = 1
  MaxTotal = 1
  MaxStarts = 1
  MaxTime = 3
  MaxFrames = 2
  MaxSeq = 1
  MaxSessions = 2
  MaxJournal = 3
SPECIFICATION Spec
INVARIANTS  ClosedWithSession SilenceRecorded GapsHoldNoWatchedTime
 
