SPECIFICATION FairSpec
CONSTANTS
  Targets = 2
  MaxImports = 2
  MaxFaults = 3
  Bare = Bare
INVARIANTS ImportInv SessionsSeeWhole OutcomesAreTrue
PROPERTIES ImportIsAtomic RecoveryEnds
