SPECIFICATION Spec
CONSTANTS
  Symbols <- Aggregates
  TypeOf <- AggregatesType
  Mutable = {"n", "q", "a", "r"}
  Params = {"n", "p"}
  Constructs = {}
  MaxStatements = 9
  MaxDepth = 0
INVARIANTS
  NoFault
  Covered
  WriterAlone
  BorrowsBacked
CHECK_DEADLOCK FALSE
