SPECIFICATION FairSpec
CONSTANTS
  Main = Main
  Tasks <- JoinTasks
  Edges <- JoinEdges
  Mappings <- JoinMappings
  Notifies = TRUE
  StoreSuspends = TRUE
  FailableTasks <- JoinTasks
INVARIANTS
  DependenciesReturned
  OneCompletion
  NothingLost
PROPERTIES
  RunEnds
  FailureReported
