SPECIFICATION Spec
CONSTANTS
  amara = amara
  ben = ben
  bay1 = bay1
  bay2 = bay2
  Drivers = {amara, ben}
  Bays = {bay1, bay2}
  DwellHours = 1
  MaxSessions = 3
  MaxNow = 1
  MaxWh = 1
  MaxFaults = 1
SYMMETRY Symmetry
INVARIANTS OneOpenPerBay ChargingIsActive EnergyCountedOnce
PROPERTIES FinishedStaysFinished
CHECK_DEADLOCK FALSE
