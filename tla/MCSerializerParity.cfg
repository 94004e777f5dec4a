SPECIFICATION ParitySpec
CONSTANTS
  MaxSupportedNesting = 2
  NaturalLast = 8
  Limits <- MCLimits
  MaxRoom = 16
  MaxItems = 3
CHECK_DEADLOCK FALSE
INVARIANTS
  PreflightSuffices
  PreflightIsNotStricter
  StacksAgree
