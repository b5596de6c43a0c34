SPECIFICATION X402Spec
CONSTANTS
  DAY_MS = 4
  EnvThreshold = 0
  g1 = g1
  n1 = n1
  n2 = n2
  n3 = n3
  own = own
  other = other
  Grants = {g1}
  AuthIds = {a1, a2, a3}
  Keys <- MCKeys
  Policies <- MCPolicies
  Amounts <- MCAmounts
  MaxAmount = 2
  Currencies = {"USD"}
  Categories = {"api"}
  TTL = 1
  ApprovalTTL = 1
  GRACE = 1
  MaxTime = 2
  None = None
  Procs = {p1, p2}
  Nonces = {n1, n2, n3}
  Offers <- MCOffers
  Divisor = 10
INVARIANTS OneResolution AllowIsBacked RefusalStands
PROPERTIES AllowFitsBudget AllowIsHeld EveryProcessSpeaks
CHECK_DEADLOCK FALSE
