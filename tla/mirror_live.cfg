\* Liveness: no symmetry.  mpd may restart; Converges speaks of the behaviours
\* in which it does not.
CONSTANTS
  a = a
  b = b
  Songs <- OneSong
  Playable <- OneSong
  MaxBatch = 1
  MaxInputs = 3
  MaxFaults = 2
  MpdRestarts = TRUE
SPECIFICATION FairSpec
PROPERTIES Converges Recovers
CHECK_DEADLOCK FALSE
