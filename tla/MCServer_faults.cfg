CONSTANTS
  g1 = g1
  g2 = g2
  mint2 = mint2
  k1 = k1
  k2 = k2
  mint = mint
  r1 = r1
  r2 = r2
  r3 = r3
  r4 = r4
  USD = USD
  api = api
  a1 = a1
  a2 = a2
  a3 = a3
  a4 = a4
  a5 = a5
  None = None
  Garbage = Garbage
  Grants = {g1}
  Keys = {k1, k2}
  Requests = {mint, r1, r2, r3, r4}
  AuthIds = {a1, a2, a3, a4}
  Clients <- Everything
  Policies <- MCPolicies
  Amounts = {1, 2}
  Currencies = {USD}
  Categories = {api}
  MaxAmount = 2
  DAY_MS = 100
  EnvThreshold = 0
  TTL = 1
  ApprovalTTL = 1
  GRACE = 1
  Faults = {"power", "write"}
  MaxFaults = 1
SPECIFICATION Spec
INVARIANTS CachesMatchLog LogBalances
CHECK_DEADLOCK FALSE
