SPECIFICATION Spec
CONSTANTS
  Ids = {1, 2, 3}
  Levels = {1, 2, 3}
  Kind = "progress"
  Refused = {}
  Procs = {p1}
  Launchers = {p1}
  Methods = {"set", "merge"}
  Intents = FALSE
  Readings = {0}
  MaxOps = 3
  MaxFaults = 1
  MaxCrashes = 0
INVARIANT NoOldMergeCrossesReset
CHECK_DEADLOCK FALSE
