SPECIFICATION Spec
CONSTANTS
  m1 = m1
  m2 = m2
  b1 = b1
  f1 = f1
  fb = fb
  Recovery = Recovery
  Admin = Admin
  NoMsg = NoMsg
  Workers = {w1}
  Msgs = {m1, m2, b1}
  Bounces = {b1}
  Files = {f1, fb}
  FileOf <- TwoDomains
  MaxAttempts <- OneAttempt
  EventKinds = {"stop", "crash"}
  MaxEvents = 1
INVARIANTS
  FileUntilOutcome
PROPERTIES
  ContractSpec
CHECK_DEADLOCK FALSE
