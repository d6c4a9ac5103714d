SPECIFICATION Spec
CONSTANTS
  Names = {"a", "b", "c"}
  Components <- MCComponents
  Configs <- MCConfigs
  MaxEdges = 3
INVARIANTS
  CycleDetection
  GraphViewsAgree
  ValidationIsFresh
