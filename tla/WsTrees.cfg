SPECIFICATION Spec
CONSTANTS
  None = None
  HeadRef = HeadRef
  app = app
  w1 = w1
  w2 = w2
  k1 = k1
  k2 = k2
  p1 = p1
  p2 = p2
  Name = {app}
  Workspace = {w1, w2}
  Commit = {k1, k2}
  Proc = {p1, p2}
SYMMETRY Symmetry
INVARIANTS TypeOK DirectoriesAsRecorded RestoreAllOrNothing CheckedOutAsRecorded
CHECK_DEADLOCK FALSE
