SPECIFICATION Spec
CONSTANTS
  Runs = {1, 2}
  Graphs <- NumberedGraphs
  Parts <- MCParts
  Prefix <- NoPrefix
  NodesPath = "out"
  RelsPath = "out"
  WritesFail = FALSE
INVARIANTS
  NothingOverwritten
