SPECIFICATION FairSpec
CONSTANTS
  Updates = {"u1", "u2"}
  Refused = {"u2"}
  Once = {"announce"}
  Twice = {"create"}
  Nobody = Nobody
  MaxPending = 1
  MaxCrashes = 1
  MaxFaults = 1
INVARIANTS
  AckedIsDispatched
PROPERTIES
  DeliveriesEnd
CHECK_DEADLOCK FALSE
