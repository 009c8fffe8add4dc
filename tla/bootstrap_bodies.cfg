SPECIFICATION BodiesSpec
CONSTANTS
  Wide = 4
  CharBits = 3
  ByteBits = 2
  LocalTypes <- MCLocalTypes
  Texts <- MCTexts
  Declarations <- MCDeclarations
  Matches <- MCMatches
  Scalars = {0, 1}
  Functions <- MCFunctions
  MaxBlocks = 3
  MaxLoans = 2
  MaxStores = 5
INVARIANTS
  ComputesExactly
  FirstMatchWins
  RefusedMatchesFail
  ReadsAreSound
  ReturnsOutliveTheCall
  FlowInvariant
CHECK_DEADLOCK FALSE
