SPECIFICATION Spec
CONSTANTS
  Ids = {1, 2}
  Levels = {1, 2}
  Kind = "progress"
  Refused = {}
  Procs = {p1}
  Launchers = {p1}
  Methods = {"merge"}
  Intents = FALSE
  Readings = {0}
  MaxOps = 2
  MaxFaults = 2
  MaxCrashes = 0
INVARIANT PromiseIsKept
CHECK_DEADLOCK FALSE
