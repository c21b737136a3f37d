SPECIFICATION MCSpec
CONSTANTS
  Me = "me"
  Them = "them"
  Room = "room"
  Browsers = {b1, b2}
  Subjects = {s1}
  Tako = "tako"
  Base = "ann"
  Spare = {}
  OwnerSub = "null"
  Allowed = {s1}
  Unpinned = FALSE
  SingleOwner = TRUE
  MaxFailed = 2
  MaxSubs = 1
  MaxGens = 2
  MaxRequests = 3
  MaxRows = 2
  MaxTime = 2
  Limit = 1
  CleanupBatch = 1
  Workers = {w1, w2}
INVARIANTS
  SurfacesSound
  LoginIsSound
  ListIsSteady
PROPERTIES
  RepliesReadable
CHECK_DEADLOCK FALSE
