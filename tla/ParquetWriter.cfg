SPECIFICATION Spec
CONSTANTS
  Runs = {1, 2, 3}
  Graphs <- PlainGraphs
  Parts <- MCParts
  Prefix <- NoPrefix
  NodesPath = "out"
  RelsPath = "out"
  WritesFail = TRUE
INVARIANTS
  NothingOverwritten
  FilesDescribed
