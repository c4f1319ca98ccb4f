SPECIFICATION FairSpec
CONSTANTS
  Process = {p1, p2}
  Target = 3
INVARIANTS
  RecordedOnce
  NoGaps
  DoneIsComplete
  RowMatchesDatabase
PROPERTIES
  RunEnds
CHECK_DEADLOCK FALSE
