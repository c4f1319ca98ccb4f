SPECIFICATION Spec
CONSTANTS
  Service = {s1, s2}
  Uuid = {u1, u2, u3}
  Admin = {a1, a2}
  Process = {p1, p2}
  MaxRuns = 2
  MaxEvents = 2
  NoId = NoId
  NoCheck = NoCheck
SYMMETRY Symmetry
INVARIANTS
  TypeOK
PROPERTIES
  NamedCheckIsKept
  EndsReconciled
