SPECIFICATION Spec
CONSTANTS
  van = van
  shopper = shopper
  Sessions = {van}
  Levels = {0, 1}
  Lookahead = 1
  SlotLength = 2
  MaxNow = 0
  MaxSolves = 3
  MaxFaults = 2
PROPERTIES RunsFreeWhileMarked
CHECK_DEADLOCK FALSE
