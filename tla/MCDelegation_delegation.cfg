SPECIFICATION Spec
CONSTANTS
  alice = alice
  bob = bob
  Caps <- MCCaps
  Bar = "|"
  Rank <- MCRank
  Ladder = {1, 2}
  Parties = {alice, bob}
  Nonces = {n1, n2}
  Limits = {1, 3}
  Mandates <- MCMandates
  Fakes = {2, 9}
  MaxGrants = 3
  None = None
SYMMETRY symm
INVARIANTS RootsAreExact NarrowNeverWiden BandsStayHome
CHECK_DEADLOCK FALSE
