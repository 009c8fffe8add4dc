SPECIFICATION Spec
CONSTANTS
  Symbols <- LentAggregates
  TypeOf <- LentAggregatesType
  Mutable = {"n", "q", "a", "r", "w", "x"}
  Params = {"n", "p", "x"}
  Constructs = {"views of carriers", "stored views", "bound views", "initialized parts"}
  MaxStatements = 6
  MaxDepth = 1
INVARIANTS
  NoFault
CHECK_DEADLOCK FALSE
