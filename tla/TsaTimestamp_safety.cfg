SPECIFICATION FairSpec
CONSTANTS
  File = {f1}
  Slot = {s1, s2}
  MaxRetries = 1
  MaxPosts = 2
  MaxScheduled = 2
  MaxRedelivered = 2
  NoFile = NoFile
INVARIANTS
  InProgressIsOutstanding
  RequestsBounded
  NoRequestOnceStamped
PROPERTIES
  InProgressEnds
CHECK_DEADLOCK FALSE
