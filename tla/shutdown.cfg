\* Deadlock: the system stops when all its processes have ended.
CONSTANTS
  JobWorks = TRUE
  MaxRestarts = 1
  MaxFaults = 2
SPECIFICATION FairSpec
INVARIANTS TypeOK ExitLeavesNothing CrashTakesChildren
PROPERTIES ExitEnds FlagEnds
CHECK_DEADLOCK FALSE
