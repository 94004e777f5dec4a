SPECIFICATION Spec
CONSTANTS
  e1 = e1
  e2 = e2
  none = none
  invalid = invalid
  depth = depth
  syntax = syntax
  Elements <- MCElements
  Codes <- MCCodes
  NoError <- none
  InvalidState <- invalid
  DepthExceeded <- depth
  MaxPathDepth = 2
  MaxOmitted = 2
  MaxOpen = 5
INVARIANTS
  PathFollowsTraversal
  PathNamesFailure
PROPERTY FirstFailureWins
