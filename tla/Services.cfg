SPECIFICATION ServicesSpec
CONSTANTS
  s1 = s1
  s2 = s2
  d1 = d1
  d2 = d2
  i1 = i1
  r1 = r1
  r2 = r2
  u1 = u1
  u2 = u2
  v1 = v1
  v2 = v2
  a1 = a1
  a2 = a2
  x1 = x1
  x2 = x2
  Parts = {"sieve", "inbound", "dav", "login", "view", "mx", "life"}
  SieveTests <- SomeTests
  SieveActions <- SomeActions
  SieveMsg <- OneMsg
  SieveMatch <- SomeMatches
  MaxArraySize = 3
  MaxConditionDepth = 4
  MaxScriptTokens = 9
  Sessions = {s1, s2}
  Submitters = {s2}
  LocalAddrs = {"bob"}
  ForwardAddrs = {"fwd"}
  Scripts <- SomeScripts
  Quota = 2
  Envelopes <- SomeEnvelopes
  MaxMishaps = 1
  DavItems = {i1}
  DavReqs = {d1, d2}
  MaxDavTags = 5
  MaxDavFaults = 1
  AdminUsers = {u1, u2}
  AdminReqs = {r1, r2}
  NoUser = NoUser
  MaxLoginAttempts = 2
  WindowSize = 1
  BlockDuration = 2
  SessionLife = 1
  MaxEdits = 1
  ImapSessions = {v1, v2}
  Appenders = {a1, a2}
  MaxAppends = 2
  MaxNotifyFaults = 1
  NoTracker = NoTracker
  Resolvers = {x1, x2}
  CacheTTL = 3
  MaxAnswer = 2
  Versions = 3
  Workers = 2
  MaxStarts = 2
INVARIANTS
  ServicesTypeOK
  
  RefusedLeavesNoCopy AcknowledgedIsSafe SubmittedIsQueued QuotaOverrunBounded 
  CreateNeverReplaces SyncSound
  AttemptsBounded ServedToAdmins
  WatchesTheTracker 
  RecordsFresh
   StoresOutliveUsers MigratedOnce
CHECK_DEADLOCK FALSE
