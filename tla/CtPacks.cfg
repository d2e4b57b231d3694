SPECIFICATION Spec
CONSTANTS
  None = None
  r1 = r1
  s1 = s1
  p1 = p1
  p2 = p2
  Repo = {r1}
  Session = {s1}
  RepoOf <- OneSession
  Proc = {p1, p2}
  Cost <- Costs
  Budget = {2}
  MemoryLimit <- Limits
  EvidenceLimit <- Limits
  MaxMemories = 2
  MaxCheckpoints = 2
  MaxEvidence = 1
  MaxDocuments = 2
SYMMETRY Symmetry
INVARIANTS IndexExact NothingStale BudgetHeld LinkIsLast
PROPERTIES SupersededIsFinal
CHECK_DEADLOCK FALSE
