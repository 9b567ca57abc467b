CONSTANTS
  Runtimes = {r1, r2}
  Supervisors = {s1}
  Free = free
  InitialDelay = 1
  MaxDelay = 3
  MaxStarts = 2
  MaxMishaps = 2
SPECIFICATION FairSpec
INVARIANTS OneAuthority FlushAlone QuiescentAfterTrip NoChildLeft RestartsBackOff
PROPERTIES StopMeansQuiet RuntimeReturns StopEnds
