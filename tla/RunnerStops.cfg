CONSTANTS
  Capacity = 1
  MaxConns = 2
SPECIFICATION FairSpec
INVARIANTS AcceptedInTimeIsProcessed LossBetweenConnections ResultAgrees EndIsLast
PROPERTY RunEnds
