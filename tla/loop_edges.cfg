SPECIFICATION Spec
CONSTANTS
  Symbols <- Owners
  TypeOf <- OwnersType
  Mutable = {"x", "i"}
  Params = {"x", "i"}
  Constructs = {"back edges", "jump edges"}
  MaxStatements = 4
  MaxDepth = 1
INVARIANTS
  NoFault
CHECK_DEADLOCK FALSE
