SPECIFICATION Spec
CONSTANTS
  Updates = {"u1", "u2"}
  Refused = {"u2"}
  Once = {"u1", "u2", "create", "delete"}
  Twice = {}
  Nobody = Nobody
  MaxPending = 1
  MaxCrashes = 0
  MaxFaults = 0
INVARIANTS
  TypeOK
  DeletedIsGone
  EditsFollowAdmission
  DoneUpdateIsApplied
  CreateHasNotified
CHECK_DEADLOCK FALSE
