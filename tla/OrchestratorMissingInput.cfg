SPECIFICATION Spec
CONSTANTS
  Main = Main
  Tasks <- KGTasks
  Edges <- KGEdges
  Mappings <- KGMappings
  Notifies = TRUE
  StoreSuspends = FALSE
  FailableTasks <- NoTasks
INVARIANT InputsAvailable
