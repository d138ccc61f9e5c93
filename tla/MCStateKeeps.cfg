SPECIFICATION MCSpec
CONSTANTS
  p0 = p0
  p1 = p1
  p2 = p2
  Ids = {1, 2, 3, 4}
  Levels = {"a", "b", "c"}
  Kind = "slot"
  Refused = {}
  Ops <- SlotOps
  MaxTime = 5
  Directs <- DirectValues
  Damages = {"lost", "garbled"}
  MaxDamage = 1
SYMMETRY Symmetry
INVARIANTS  RowFollowsBaseline ReceiptDescribesRow NoResurrection
PROPERTIES DuplicateIsPresent HighWaterKept
CHECK_DEADLOCK FALSE
