SPECIFICATION Spec
CONSTANTS
  Writers = {"w1", "w2"}
  Nodes <- TwoNodes
  Rels <- TwoRels
  BatchSize = 2
  CleanDb = TRUE
  FreshIds = TRUE
  Faults = {}
  MaxAttempts <- Once
INVARIANTS
  SuccessIsWhole
