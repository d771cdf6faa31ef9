SPECIFICATION ScopedSpec
CONSTANTS
  inbox = inbox
  work = work
  INBOX = INBOX
  Work = Work
  Home = Home
  c1 = c1
  c2 = c2
  k1 = k1
  k2 = k2
  NoKey = NoKey
  NoRow = NoRow
  NoFile = NoFile
  NoClient = NoClient
  Inbox = inbox
  InboxName = INBOX
  PathOf <- OwnDirectory
  Keys = {k1, k2}
  Clients = {c1, c2}
  Boxes = {inbox, work}
  Names = {INBOX, Work, Home}
  Paths = {INBOX, Work, Home}
  Flags = {"Seen", "Deleted"}
  EventKinds = {"db", "fs", "crash"}
  MaxEvents = 2
SYMMETRY Symmetry
INVARIANTS TypeOK  ExpungedIsGone
PROPERTIES AscendingUids ClientSpec
CHECK_DEADLOCK FALSE
