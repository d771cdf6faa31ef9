SPECIFICATION Spec
CONSTANTS
  m1 = m1
  m2 = m2
  b1 = b1
  f1 = f1
  fb = fb
  Recovery = Recovery
  Admin = Admin
  NoMsg = NoMsg
  Workers = {w1}
  Msgs = {m1}
  Bounces = {}
  Files = {f1, fb}
  FileOf <- OneDomain
  MaxAttempts <- TwoAttempts
  EventKinds = {"admin"}
  MaxEvents = 1
INVARIANT DeletedLeavesQueues
CHECK_DEADLOCK FALSE
