SPECIFICATION Spec
CONSTANTS
  Writers = {"w1", "w2"}
  Nodes <- SharedNodes
  Rels <- SharedRels
  BatchSize = 2
  CleanDb = TRUE
  FreshIds = FALSE
  Faults = {"client", "other", "row"}
  MaxAttempts <- SecondTwice
INVARIANTS
  WritesInPhases
  SuccessIsComplete
PROPERTIES
  WritesEnd
  CleanedStayApart
