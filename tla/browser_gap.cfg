\* No fault, answers in order, room for several announcements: one edit of the
\* queue while a page is loading is enough.
CONSTANTS
  a = a
  p1 = p1
  Songs <- OneSong
  Playable <- OneSong
  Pages <- OnePage
  MaxBatch = 1
  MaxInputs = 1
  MaxFaults = 0
  MpdRestarts = FALSE
  PipeSlots = 2
  MaxOpenings = 1
  Overtaking = FALSE
  GetsFail = FALSE
SPECIFICATION FairViewSpec
PROPERTIES PagesAgree
CHECK_DEADLOCK FALSE
