SPECIFICATION Spec
CONSTANTS
  cp1 = cp1
  cp2 = cp2
  Chargers = {cp1}
  MaxSockets = 2
  MaxSolves = 0
  MaxFaults = 1
INVARIANTS ConnectedIsReachable
CHECK_DEADLOCK FALSE
