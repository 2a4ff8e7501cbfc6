CONSTANTS
  a = a
  b = b
  Songs <- BothSongs
  Playable <- BothSongs
  MaxBatch = 1
  MaxInputs = 4
  MaxFaults = 1
  MpdRestarts = FALSE
SPECIFICATION Spec
SYMMETRY SongSymmetry
INVARIANTS TypeOK MirrorCurrent SidNamesSong MirrorSidsUnique ConnectedHasConn
PROPERTIES AddDropsOnlyUnseen AnnouncedAfterSync ImplementsFeed
CHECK_DEADLOCK FALSE
