SPECIFICATION MCSpec
CONSTANTS
  Procs = {p1, p2}
  Nobody = Nobody
  MaxCalls = 0
PROPERTY InstancesCoexist
