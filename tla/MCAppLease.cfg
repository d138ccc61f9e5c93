SPECIFICATION MCFairSpec
CONSTANTS
  Procs = {p1, p2, p3}
  Nobody = Nobody
  MaxCalls = 3
INVARIANTS LeaseInv Exclusion MaintenanceNeverBusy LeaseCoversWork HandOverIsWritten
PROPERTIES StartupEnds CloseEnds
