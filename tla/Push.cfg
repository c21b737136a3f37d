SPECIFICATION PushSpec
CONSTANTS
  N = 1
  Local = {}
  Members = {}
  Followers = {}
  Stages <- MCStages
  PageSize = 1
  Runners = {}
  MaxRedrives = 0
  MaxEvents = 0
  Keys = {k1}
  Workers = {w1, w2}
  MaxAttempts = 2
  MaxRegs = 2
  MaxTries = 2
PROPERTIES
  OvertakenHarmless
  JobSettles
CHECK_DEADLOCK FALSE
