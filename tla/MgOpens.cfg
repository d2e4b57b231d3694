SPECIFICATION Spec
CONSTANTS
  None = None
  NoRow = NoRow
  Unknown = Unknown
  old = old
  new = new
  newest = newest
  edited = edited
  a = a
  b = b
  c = c
  p1 = p1
  p2 = p2
  Binary = {old, new, newest, edited}
  Sum = {a, b, c}
  Manifest <- MCManifest
  MaxVersion = 3
  Proc = {p1, p2}
SYMMETRY Symmetry
INVARIANTS RanAsRecorded OpenFits RefusedForCause
PROPERTIES NotLockedOut
