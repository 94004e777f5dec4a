SPECIFICATION Spec
CONSTANTS
  DecodeLimits <- MCDecodeLimits
  MaxCount = 3
  Names = {"text"}
INVARIANTS
  BudgetTracksStack
  ConsumedIsWellFormed
  CompleteIsWhole
PROPERTIES
  SyntaxErrorIsReal
