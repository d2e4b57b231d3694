SPECIFICATION Spec
CONSTANTS
  None = None
  r1 = r1
  r2 = r2
  s1 = s1
  s2 = s2
  o1 = o1
  p1 = p1
  p2 = p2
  Repo = {r1, r2}
  Session = {s1, s2}
  Proc = {p1, p2}
  Kind = {"transcript"}
  Origin = {o1}
  Native = {s1, s2}
  MaxSources = 3
SYMMETRY Symmetry
INVARIANTS IndexExact NewestSearched
PROPERTIES DeletionIsDurable ClosedGainsNothing
CHECK_DEADLOCK FALSE
