CONSTANTS
  Sites = {"x", "y"}
  FirstSite = "x"
  MaxLoads = 2
  MaxSockets = 3
  MaxChanges = 1
  MaxSwitches = 1
  MaxFaults = 1
  Candidates = 2
  MaxCalls = 3
  MaxSessions = 1
  MaxMoves = 2
  MaxLapses = 1
  Cars = {1, 2, 3}
  AppCars = {1}
  UnknownCars = {3}
  Arrive <- ArriveAt
  Depart <- DepartAt
  Room <- RoomOf
  MaxPower = 2
  Share = 1
  Limits = {0, 2}
  ProfileTime = 1
  MaxTick = 1
  MaxNow = 4
  MaxBayFaults = 1
  Scenarios <- TheFiles
  DayLength = 8
  Targets = {1}
  SimStarts <- StartsAsked
  Scales = {1, 3}
  Jumps = {2, 30}
  MaxReal = 2
  MaxControls = 1
  MaxSyncs = 2
  MaxDays = 2
SPECIFICATION ClientsSpec
CHECK_DEADLOCK FALSE
INVARIANTS OneLine DayIsSound
PROPERTIES BayIsTold DayEnds PageConverges NeverInvented PhoneRecovers
