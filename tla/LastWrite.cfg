CONSTANTS
  s1 = s1  s2 = s2  b1 = b1  b2 = b2
  Sessions = {s1, s2}
  Bays = {b1, b2}
  NoSession = NoSession
  MaxQueue = 4
  MaxBatch = 2
  MaxDeferrals = 3
  MaxWrites = 7
  MaxFaults = 1
SPECIFICATION Spec
CHECK_DEADLOCK FALSE

PROPERTY LastWriteWins
