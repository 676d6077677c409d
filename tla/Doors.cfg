SPECIFICATION DoorsSpec
CONSTANTS
  Chargers = {cp1, cp2}
  MaxSockets = 3
  MaxSolves = 1
  MaxFaults = 1
  Driver = Driver
  Operator = Operator
  Nobody = Nobody
  Snapshot = Snapshot
INVARIANTS MapHoldsOpenRpc
PROPERTIES ShutdownCompletes GoneIsOffline RefusedGoesToGate EverythingStops ChargersComeBack
CHECK_DEADLOCK FALSE
