SPECIFICATION Spec
CONSTANTS
  MaxSupportedNesting = 2
  NaturalLast = 2
  Limits <- MCLimits
  MaxRoom = 7
  MaxHeads = 6
  MaxItems = 2
INVARIANTS
  DeliveredIsJson
  DeliveredIsCbor
  EmittedFollowsGrammar
PROPERTY ImplementsLifecycle
