SPECIFICATION MCSpec
CONSTANTS
  Effects = {e1, e2, e3}
  MaxGen = 2
  MaxPending = 2
  MaxJobs = 2
  Low = "l"
  High = "h"
  MaxCalls = 1
  MaxPosts = 2
  MaxFaults = 1
  Retain = 2
  MaxOutstanding = 2
  MaxEvents = 4
  MaxTickets = 3
  MaxDown = 3
INVARIANTS
  CallsAgree
  CaughtUp
PROPERTIES
  RelayIsOwn
CHECK_DEADLOCK FALSE
