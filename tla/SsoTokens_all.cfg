SPECIFICATION FairSpec
CONSTANTS
  Identity = {i1, i2}
  Celery = {w1, w2}
  MaxRetries = 1
  MaxEvents = 2
  Acting = {i1}
  MinEnabled = 1
  MaxToken = 5
  NoToken = NoToken
  NoneToken = NoneToken
INVARIANTS
  StoredIsValid
  AttemptsBounded
PROPERTIES
  RefreshedDespiteOthers
