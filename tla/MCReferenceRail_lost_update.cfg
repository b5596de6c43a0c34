SPECIFICATION Spec
CONSTANTS
  p1 = p1
  p2 = p2
  Boot = Boot
  Payments = {p1, p2}
  MaxInFlight = 2
  MaxOutages = 1
  Faults = {}
  MaxFaults = 0
SYMMETRY symm
INVARIANTS QueuedIsOwed
CHECK_DEADLOCK FALSE
