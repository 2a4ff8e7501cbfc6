\* Deadlock: budgets are used up only for users and faults; the poll thread
\* never stops, so no state is a deadlock.
CONSTANTS
  MaxSwitches = 2
  MaxEdits = 1
  MaxFaults = 1
  SlowRestarts = TRUE
SPECIFICATION FairSpec
INVARIANTS TypeOK UndisturbedSwitch RestartServesRequest
PROPERTIES SwitchEnds
