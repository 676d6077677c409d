CONSTANTS
  Cars = {1, 2}
  SlotLength = 4
  Slots = 3
  MinWindow = 2
  MinPower = 8
  Connection = 64
  MarginShare = 4
  BuildingKw <- MCBuilding
  Price <- MCPrice
  Carbon <- MCCarbon
  NormUnit = 2
  Modes <- MCModes
  SiteMode = "cheapest"
  WeightUnit = 10
  ShortfallPenalty = 1000
  Times = {0, 2, 3}
  CarStates <- MCCarStates
  FlexEvents <- MCFlexEvents
  Peaks = {0, 40}
  LpLevels = {0, 4}
  CeilingSteps = 2
SPECIFICATION PlanningSpec
CHECK_DEADLOCK FALSE
INVARIANTS PlanIsSafe ShortfallIsForced ShavingCostsNobody IntakeHolds SolversAgree ToldAsItIs RememberedIsInForce
PROPERTIES PlanIsInForce
