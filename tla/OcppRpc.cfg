SPECIFICATION ConnectionSpec
CONSTANTS
  c1 = c1
  c2 = c2
  c3 = c3
  p1 = p1
  Calls = {c1, c2, c3}
  PeerCalls = {p1}
  MaxInbox = 1
INVARIANTS NoCallForgotten AnswersAreOwn UnderstoodAlike
PROPERTIES LineSpec
CHECK_DEADLOCK FALSE
