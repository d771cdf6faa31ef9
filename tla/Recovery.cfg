SPECIFICATION RecoverySpec
CONSTANTS
  c1 = c1
  c2 = c2
  NoCaller = NoCaller
  Callers = {c1, c2}
  FailureThreshold = 2
  SuccessThreshold = 2
  HalfOpenMaxCalls = 1
  g1 = g1
  g2 = g2
  GreySessions = {g1, g2}
  MinDelay = 3
  MaxRowAge = 5
  RetryEvery = 2
  MaxGreyFaults = 1
INVARIANTS TypeOK GreyTypeOK SlotLeft NoLostTransition AllowedAfterDelay
PROPERTIES RecoversWhenUp OpensWhenDown RetryingIsAllowed
