SPECIFICATION Spec
CONSTANTS
  Symbols <- Locals2
  TypeOf <- Locals2Type
  Mutable = {"x", "y", "n"}
  Params = {"x", "y", "n", "p"}
  Entries <- CallEntries
  Calls <- RelatedCalls
INVARIANTS
  AlwaysExclusive
CHECK_DEADLOCK FALSE
