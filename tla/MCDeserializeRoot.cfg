SPECIFICATION RootSpec
CONSTANTS
  DecodeLimits <- MCDecodeLimits
  MaxCount = 3
  Names <- MCNames
  Records <- MCRecords
  Policies <- MCPolicies
INVARIANTS
  PublishedIsDecoded
PROPERTIES
  RejectionIsJustified
  DeserializeIsTransactional
