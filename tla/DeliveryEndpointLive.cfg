SPECIFICATION FairSpec
CONSTANTS
  Jobs = {j1}
  Runners = {r1}
  Tokens = {t1, t2}
  NoToken = NoToken
  MaxAttempts = 2
  MaxReconcile = 1
  MaxFaults = 2
  j1 = j1
  r1 = r1
  r2 = r2
  t1 = t1
  t2 = t2
  t3 = t3
  Responses <- MCResponses
PROPERTIES
  ComesToRest
  IntentIsConsumed
