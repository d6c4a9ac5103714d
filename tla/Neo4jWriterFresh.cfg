SPECIFICATION Spec
CONSTANTS
  Writers = {"w1"}
  Nodes <- OneNodes
  Rels <- OneRels
  BatchSize = 2
  CleanDb = TRUE
  FreshIds = TRUE
  Faults = {"client", "other", "row"}
  MaxAttempts <- Twice
INVARIANTS
  WritesInPhases
  SuccessIsComplete
PROPERTIES
  WritesEnd
  CleanedStayApart
