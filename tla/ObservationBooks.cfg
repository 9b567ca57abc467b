CONSTANTS
  Conn = {1, 2}
  Dir = {"up"}
  Meta <- OneApp
  MaxTombstones = 1
  PresenceInterval = 2
  MinGap = 2
  MaxCounter = 1
  MaxTotal = 2
  MaxStarts = 1
  MaxTime = 1
  MaxFrames = 4
  MaxSeq = 0
  Anomalies = TRUE
SPECIFICATION Spec
INVARIANTS TypeOK NoDoubleCount CounterConservation TombstonesBounded FreshTombstoneHeld
