SPECIFICATION Spec
CONSTANTS
  None = None
  HeadRef = HeadRef
  app = app
  lib = lib
  tree = tree
  s1 = s1
  s2 = s2
  p1 = p1
  p2 = p2
  k1 = k1
  k2 = k2
  main = main
  AutoMessage = "post-commit checkpoint"
  Place = {app, lib, tree}
  Repo = {app, lib}
  Rank <- MCRank
  CommonDir <- ClonedCommonDir
  PathPrefix <- TreeInsideApp
  Linked = {tree}
  ObjectDb <- MCObjectDb
  Hooked = {lib, tree}
  Session = {s1}
  Proc = {p1}
  Commit = {k1, k2}
  RevName = {main}
  Message = {"post-commit checkpoint"}
  MaxCheckpoints = 1
  MayFail = FALSE
INVARIANTS HookOwnRepository
