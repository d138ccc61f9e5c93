SPECIFICATION MCSpec
CONSTANTS
  None = None
  Garbled = Garbled
  a = a  b = b  c = c  x = x  y = y
  p = p  q = q  w1 = w1  w2 = w2
  Attempts = {a, b, c}
  Requests = {1, 2, 3, 4, 5, 6}
  Kinds = {x, y}
  FinalOnly = {c}
  Calls <- MCCalls
  Procs = {p, q}
  Player = p
  MaxRequests = 3
  MaxTroubles = 3
  Kind = x
  MaxScore = 3
  Replaced = {a}
  Workers = {w1, w2}
  Tries = 2
  MaxLosses = 4
INVARIANT RevisionsRise
CHECK_DEADLOCK FALSE
