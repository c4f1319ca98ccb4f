SPECIFICATION Spec
CONSTANTS
  User = {u1, u2, u3}
  Worker = {w1, w2}
  NoUser = NoUser
SYMMETRY Symmetry
INVARIANTS
  TenantHasDatabase
  OneWorkerKeepsAdmin
PROPERTIES
  RoleIsFixed
CHECK_DEADLOCK FALSE
