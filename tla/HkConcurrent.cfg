SPECIFICATION HookSpec
CONSTANTS
  NoFile = NoFile
  u1 = u1
  u2 = u2
  p1 = p1
  p2 = p2
  UserHook = {u1}
  Command = {p1, p2}
  Concurrent = TRUE
INVARIANTS NeverOverwritten
