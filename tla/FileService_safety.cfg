SPECIFICATION FilesSpec
CONSTANTS
  File = {f1, f2, f3, f4}
  Doc = {d1, d2}
  Client = {c1}
  BatchSize = 2
  Nowhere = Nowhere
  Gone = Gone
  MaxShifts = 3
SYMMETRY Symmetry
INVARIANTS
  DocumentsHaveFiles
  MissedIsBounded
