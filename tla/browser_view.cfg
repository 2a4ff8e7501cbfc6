\* Liveness: no symmetry.  Pages do not act on one another, so one is enough;
\* the requests of the others are requests of the mirror's model.
CONSTANTS
  a = a
  p1 = p1
  Songs <- OneSong
  Playable <- OneSong
  Pages <- OnePage
  MaxBatch = 1
  MaxInputs = 2
  MaxFaults = 1
  MpdRestarts = FALSE
  PipeSlots = 1
  MaxOpenings = 1
  Overtaking = TRUE
  GetsFail = TRUE
SPECIFICATION FairViewSpec
INVARIANTS ViewTypeOK StaleOnlyIf
PROPERTIES Follows
CHECK_DEADLOCK FALSE
