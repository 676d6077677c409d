SPECIFICATION Spec
CONSTANTS
  van = van
  shopper = shopper
  Sessions = {van}
  Levels = {0, 1}
  Lookahead = 3
  SlotLength = 1
  MaxNow = 1
  MaxSolves = 2
  MaxFaults = 0
PROPERTIES ImmediateSlotIsBinding
CHECK_DEADLOCK FALSE
