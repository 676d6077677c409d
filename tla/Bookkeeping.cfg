CONSTANTS
  a = a  b = b
  c1 = c1  c2 = c2
  s1 = s1  s2 = s2  b1 = b1  b2 = b2
  Sessions = {s1, s2}
  Bays = {b1, b2}
  NoSession = none
  Callers = {c1, c2}
  Step = 2
  LiveStep = 4
  Refresh = 4
  Lookback = 4
  Horizon = 12
  Jumps = {5}
  MaxTime = 10
  MaxQueue = 3
  MaxBatch = 2
  MaxDeferrals = 3
  MaxWrites = 7
  MaxFaults = 2
SPECIFICATION BooksSpec
CHECK_DEADLOCK FALSE
INVARIANTS BooksAreTrue SignalsAreTrue MirrorIsTrue
PROPERTIES EndIsReported DrainEnds
