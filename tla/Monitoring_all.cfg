SPECIFICATION FairSpec
CONSTANTS
  Order <- KafkaCelery
  Worker = {w1, w2}
  RetryCount = 2
INVARIANTS
  ProbesTypeOK
PROPERTIES
  OutageIsReported
  RecoveryIsReported
