CONSTANTS
  Pipelines <- MCPipelines
  Childless <- MCChildless
SPECIFICATION Spec
INVARIANTS
  ElementsAccounted
  ObserversAreTold
PROPERTIES
  Delivers
