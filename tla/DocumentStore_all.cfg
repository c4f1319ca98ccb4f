SPECIFICATION FairSpec
CONSTANTS
  Worker = {w1, w2}
  Hash = {h1}
  FileId = {f1, f2, f3}
  DocId = {d1, d2}
  None = None
INVARIANTS
  DuplicatesBounded
  NoDanglingDocument
  FileHasObject
  DownloadFindsObject
  TsaQueuedAfterCommit
PROPERTIES
  RequestsFinish
  ImplementsLibrary
CHECK_DEADLOCK FALSE
