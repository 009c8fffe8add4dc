SPECIFICATION Spec
CONSTANTS
  Symbols <- Owners
  TypeOf <- OwnersType
  Mutable = {"x", "i"}
  Params = {"x", "i"}
  Constructs = {}
  MaxStatements = 6
  MaxDepth = 2
INVARIANTS
  NoFault
  ScopesNest
CHECK_DEADLOCK FALSE
