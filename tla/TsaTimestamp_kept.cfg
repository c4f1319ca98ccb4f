SPECIFICATION FairSpec
CONSTANTS
  File = {f1}
  Slot = {s1}
  MaxRetries = 3
  MaxPosts = 2
  MaxScheduled = 1
  MaxRedelivered = 1
  NoFile = NoFile
PROPERTIES
  TimestampKept
CHECK_DEADLOCK FALSE
