SPECIFICATION Spec
CONSTANTS
  Types <- SixTypes
  Registries <- ThreeCompounds
INVARIANTS
  SiblingsParticipate
CHECK_DEADLOCK FALSE
