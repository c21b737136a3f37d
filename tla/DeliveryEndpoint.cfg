SPECIFICATION Spec
CONSTANTS
  Jobs = {j1}
  Runners = {r1, r2}
  Tokens = {t1, t2, t3}
  NoToken = NoToken
  MaxAttempts = 2
  MaxReconcile = 1
  MaxFaults = 1
  j1 = j1
  r1 = r1
  r2 = r2
  t1 = t1
  t2 = t2
  t3 = t3
  Responses <- MCResponses
SYMMETRY Symmetry
INVARIANTS
  TypeOK
  SingleLiveClaimant
  RepairIntent
  BudgetBounded
PROPERTIES
  RefinesLedger
  LostClaimWritesNothing
