SPECIFICATION Spec
CONSTANTS
  Updates = {"u1", "u2"}
  Refused = {"u2"}
  Once = {"u1", "create"}
  Twice = {}
  Nobody = Nobody
  MaxPending = 1
  MaxCrashes = 1
  MaxFaults = 0
INVARIANTS
  NothingBlackHoled
CHECK_DEADLOCK FALSE
