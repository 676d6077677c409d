SPECIFICATION ServerSpec
CONSTANTS
  van = van
  shopper = shopper
  newCar = newCar
  first = first
  second = second
  Sessions = {van, shopper}
  OrdinaryInterval = 2
  AtRiskInterval = 1
  MaxVersion = 2
  MaxFaults = 1
  Homes <- MCHomes
  Members <- MCMembers
  Tags <- MCTags
  Cars = {newCar}
  SessionIds = {first, second}
  MaxStarts = 2
  MaxLosses = 1
  MaxMoves = 4
INVARIANTS NoTriggerLost Remembered
PROPERTIES EveryChangeIsPlanned CalmsDown DoesNotFeedItself SolveAlwaysEnds
CHECK_DEADLOCK FALSE
