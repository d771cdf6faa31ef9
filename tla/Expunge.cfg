SPECIFICATION ScopedSpec
CONSTANTS
  inbox = inbox
  work = work
  INBOX = INBOX
  Work = Work
  Home = Home
  c1 = c1
  c2 = c2
  k1 = k1
  k2 = k2
  NoKey = NoKey
  NoRow = NoRow
  NoFile = NoFile
  NoClient = NoClient
  Inbox = inbox
  InboxName = INBOX
  PathOf <- OwnDirectory
  Keys = {k1, k2}
  Clients = {c1}
  Boxes = {inbox}
  Names = {INBOX}
  Paths = {INBOX}
  Flags = {"Seen", "Deleted"}
  EventKinds = {}
  MaxEvents = 0
SYMMETRY KeySymmetry
INVARIANT PermanentlyRemoved
CHECK_DEADLOCK FALSE
