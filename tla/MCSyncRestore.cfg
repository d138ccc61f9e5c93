SPECIFICATION Spec
CONSTANTS
  Ids = {1, 2, 3}
  Levels = {1, 2, 3}
  Kind = "slot"
  Refused = {2, 3}
  Procs = {p1, p2}
  Launchers = {p1}
  Methods = {"set"}
  Intents = FALSE
  Readings = {0}
  MaxOps = 3
  MaxFaults = 1
  MaxCrashes = 1
INVARIANT NothingIsLost
CHECK_DEADLOCK FALSE
