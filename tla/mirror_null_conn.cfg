CONSTANTS
  a = a
  b = b
  Songs <- OneSong
  Playable <- OneSong
  MaxBatch = 1
  MaxInputs = 1
  MaxFaults = 0
  MpdRestarts = FALSE
SPECIFICATION MalformedSpec
INVARIANTS MalformedSurvives
CHECK_DEADLOCK FALSE
