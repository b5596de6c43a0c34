SPECIFICATION FairSpec
CONSTANTS
  p1 = p1
  p2 = p2
  Boot = Boot
  Payments = {p1, p2}
  MaxInFlight = 2
  MaxOutages = 1
  Faults = {"kill", "torn", "disk"}
  MaxFaults = 2
INVARIANTS NothingLost OnlyOutagesDelay
PROPERTIES RightOutcome PaymentsEnd
CHECK_DEADLOCK FALSE
