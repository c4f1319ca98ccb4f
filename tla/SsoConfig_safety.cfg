SPECIFICATION Spec
CONSTANTS
  Worker = {w1, w2}
  User = {u1}
  ConfigId = {c1, c2, c3}
  NoConfig = NoConfig
INVARIANTS
  OneWorkerAuthMatches
  OneWorkerNoStrayIdentity
PROPERTIES
  ChangesOwnConfig
  LoginProvisions
SYMMETRY Symmetry
CHECK_DEADLOCK FALSE
