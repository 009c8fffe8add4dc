SPECIFICATION Spec
CONSTANTS
  Types <- SixTypes
  Registries <- ThreeCompounds
INVARIANTS
  RejectsInfiniteTypes
  OrderIndependent
  OwnershipExact
  ViewsExactOffCycles
CHECK_DEADLOCK FALSE
