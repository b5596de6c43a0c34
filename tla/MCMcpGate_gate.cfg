SPECIFICATION FairSpec
CHECK_DEADLOCK FALSE
CONSTANTS
  c1 = c1
  c2 = c2
  Calls = {c1, c2}
  MaxExits = 1
INVARIANTS
  RunsOnlyAllowed
  RefusedNeverRuns
  OutOfBandIsOpen
  DenialIsFinal
PROPERTIES
  CallsEnd
