SPECIFICATION Spec
CONSTANTS
  Login = {l1, l2}
  Tenant = {t1, t2}
  Process = {p1, p2}
  Slot = {s1, s2}
  MaxChanges = 1
  None = None
SYMMETRY Symmetry
INVARIANTS
  CompletedWhereBegun
  RefusedForAReason
  VerifierIsConsumed
CHECK_DEADLOCK FALSE
