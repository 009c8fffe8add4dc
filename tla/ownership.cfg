SPECIFICATION Spec
CONSTANTS
  Symbols <- OwnersAndRefs
  TypeOf <- OwnersAndRefsType
  Mutable = {"x", "n"}
  Params = {"x"}
  Constructs = {}
  MaxStatements = 5
  MaxDepth = 2
INVARIANTS
  TypeOK
  NoFault
  Covered
  ScopesNest
  WriterAlone
  BorrowsBacked
CHECK_DEADLOCK FALSE
