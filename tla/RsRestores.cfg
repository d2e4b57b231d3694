SPECIFICATION Spec
CONSTANTS
  None = None
  Target = Target
  Staged = Staged
  d1 = d1
  d2 = d2
  d3 = d3
  d4 = d4
  n1 = n1
  n2 = n2
  p1 = p1
  p2 = p2
  Dir = {d1, d2, d3, d4}
  Name = {n1, n2}
  Proc = {p1, p2}
SYMMETRY Symmetry
INVARIANTS NothingDestroyed
PROPERTIES ReplacedOnlyAsAllowed FailureKeepsTarget
