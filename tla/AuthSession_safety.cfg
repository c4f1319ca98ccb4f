SPECIFICATION Spec
CONSTANTS
  Process = {p1, p2}
  User = {u1}
  Token = {t1, t2, t3}
  Nobody = Nobody
  AccessLife = 1
  RefreshLife = 3
  BlacklistLife = 2
  MaxTime = 4
SYMMETRY Symmetry
INVARIANTS
  RevokedIsRefused
PROPERTIES
  AccountKeepsOwner
