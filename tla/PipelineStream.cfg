SPECIFICATION StreamSpec
CONSTANTS
  RunEvents = 4
  OtherEvents = 3
INVARIANTS
  StreamIsFaithful
PROPERTIES
  BothEnd
