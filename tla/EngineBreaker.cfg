SPECIFICATION EngineFairSpec
CONSTANTS
  c1 = c1
  c2 = c2
  NoCaller = NoCaller
  Callers = {c1, c2}
  FailureThreshold = 2
  SuccessThreshold = 1
  HalfOpenMaxCalls = 2
PROPERTY HalfOpensAgain
