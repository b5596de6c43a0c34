SPECIFICATION Spec
CONSTANTS
  DAY_MS = 4
  EnvThreshold = 0
  Grants = {g1}
  AuthIds = {a1, a2, a3}
  Keys = {k1, k2, k3}
  Policies <- TightPolicy
  Amounts <- MCAmounts
  MaxAmount = 2
  Currencies = {"USD"}
  Categories = {"api"}
  TTL = 2
  ApprovalTTL = 2
  GRACE = 1
  MaxTime = 5
  None = None
SYMMETRY symm
INVARIANTS TypeOK BooksBalance BudgetBound OutcomeMatchesHold
PROPERTIES TerminalIsFinal OnlyRailOrTTLReleases DeadlineNeverShrinks
CHECK_DEADLOCK FALSE
