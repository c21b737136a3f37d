SPECIFICATION Spec
CONSTANTS
  N = 2
  Local = {1}
  Members = {1, 2}
  Followers = {2}
  Stages <- MCStages
  PageSize = 2
  Runners = {w1, w2}
  MaxRedrives = 1
  MaxEvents = 2
CHECK_DEADLOCK FALSE
INVARIANTS
  FanoutComplete
PROPERTIES
  FanoutSettles
