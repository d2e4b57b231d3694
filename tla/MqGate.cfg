SPECIFICATION Spec
CONSTANTS
  None = None
  main = main
  x = x
  t = t
  p1 = p1
  p2 = p2
  Main = main
  Branch = {main}
  Change = {x}
  Name = {t}
  Required <- OneOrNone
  Hosted = TRUE
  Resets = FALSE
  MaxTip = 2
  MaxReviews = 1
  MaxRules = 1
  MaxRuns = 2
  MaxReports = 1
  Proc = {p1, p2}
SYMMETRY Symmetry
INVARIANTS GateHeld PreparedOnSaid
CHECK_DEADLOCK FALSE
