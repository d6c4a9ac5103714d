SPECIFICATION Spec
CONSTANTS
  Runs = {1}
  Graphs <- NamesakeGraphs
  Parts <- MCParts
  Prefix <- NoPrefix
  NodesPath = "nodes"
  RelsPath = "rels"
  WritesFail = FALSE
INVARIANTS
  EachDescribesItsOwn
