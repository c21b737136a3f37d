SPECIFICATION MCSpec
CONSTANTS
  Recipients = {r1}
  CoRecipients = {r2}
  Runners = {w1, w2}
  Nobody = Nobody
  MaxResolve = 2
  MaxEvents = 2
  Workers = {w1, w2, w3}
  GlobalLimit = 2
  HostLimit = 1
  Threshold = 2
  Window = 3
  Probes = 2
INVARIANTS
  GateAccounts
  NoWorkForTombstoned
  ResolutionSound
PROPERTIES
  RecipientsSettle
  GateOpens
CHECK_DEADLOCK FALSE
