SPECIFICATION Spec
CHECK_DEADLOCK FALSE
CONSTANTS
  k1 = k1
  k2 = k2
  k3 = k3
  a = a
  b = b
  c = c
  NoKid = NoKid
  NoKey = NoKey
  Kids = {k1, k2, k3}
  Keys = {a, b, c}
  Caps <- MCCaps
  Bar = "|"
  Rank <- MCRank
  Ladder = {}
  SCHEMA = 4
  ACCEPTED_SCHEMAS = {2, 3, 4}
  Allowed <- MCCaps
  Category <- MCCategory
  Strays <- MCStrays
SYMMETRY symm
CONSTRAINT WhileCareful
INVARIANTS OneSigner ReceiptsVerify RevokedStays VerifiersAgree OnlyIssuedVerifies
