CONSTANTS
  a = a
  b = b
  Songs <- BothSongs
  Playable <- BothSongs
  MaxBatch = 1
  MaxInputs = 3
  MaxFaults = 1
  MpdRestarts = TRUE
SPECIFICATION Spec
INVARIANTS SidNamesSong
CHECK_DEADLOCK FALSE
