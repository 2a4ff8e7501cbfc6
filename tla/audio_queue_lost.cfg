CONSTANTS
  MaxSwitches = 2
  MaxEdits = 0
  MaxFaults = 0
  SlowRestarts = FALSE
SPECIFICATION Spec
INVARIANTS QueueSurvives
