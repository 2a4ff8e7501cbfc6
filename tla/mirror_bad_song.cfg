CONSTANTS
  a = a
  b = b
  Songs <- BothSongs
  Playable <- OneSong
  MaxBatch = 1
  MaxInputs = 4
  MaxFaults = 0
  MpdRestarts = FALSE
SPECIFICATION FairSpec
PROPERTIES Converges
CHECK_DEADLOCK FALSE
