SPECIFICATION Spec
CONSTANTS
  Fold <- MCFold
  LogicalNames <- MCLogicalNames
  StandardBoolean = "boolean"
  MinSigned <- MCMinSigned
  MaxSigned = 1
  MaxUnsigned = 1
  Documents <- MCDocuments
  TheOverlays <- MCOverlays
  Unset = unset
  MaxDepth = 3
CHECK_DEADLOCK FALSE
INVARIANTS
  RoundTrips
  FaithfulModel
PROPERTIES
  CommitIsOwn
