CONSTANTS
  r1 = r1
  r2 = r2
  f1 = f1
  f2 = f2
  t1 = t1
  t2 = t2
  FP <- MCFP
  Tenants <- MCTenants
  Requests <- MCRequests
  Tenant <- MCTenant
  Body <- MCBody
  Malformed = {r2}
  RetryAttempts = 2
  Modes = {TRUE, FALSE}
  MaxFaults = 2
  MaxLost = 1
SPECIFICATION MCSpec
INVARIANTS AnswersAreTrue DuplicatesNeedFailure IndexLossHasCulprit
PROPERTIES EveryRequestAnswered
CHECK_DEADLOCK FALSE
