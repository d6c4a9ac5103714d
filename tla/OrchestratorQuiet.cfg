SPECIFICATION FairSpec
CONSTANTS
  Main = Main
  Tasks <- CrossTasks
  Edges <- CrossEdges
  Mappings <- CrossMappings
  Notifies = FALSE
  StoreSuspends = FALSE
  FailableTasks <- CrossTasks
INVARIANTS
  TypeOK
  InputsAvailable
PROPERTIES
  ImplementsByResult
