SPECIFICATION MCFairSpec
CONSTANTS
  p1 = p1
  p2 = p2
  Ids = {1, 2, 3, 4, 5, 6, 7, 8, 9}
  Levels = {"a", "b", "c", "d"}
  Kind = "progress"
  Refused = {8}
  Ops <- StoreOps
INVARIANTS RowIsReference NoConflict
PROPERTIES ReplayIsHarmless JournalMovesForward Drains
CHECK_DEADLOCK FALSE
