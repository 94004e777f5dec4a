SPECIFICATION RootSpec
CONSTANTS
  MaxSupportedNesting = 3
  NaturalLast = 8
  Limits <- MCLimits
  MaxRoom = 5
  MaxItems = 1
  TraversalEvents <- MCTraversalEvents
  ClientEvents <- MCClientEvents
INVARIANTS
  OnlyStorageFails
  PublishedIsWhole
PROPERTIES
  AcceptedIsPublished
  OutcomeIsReported
  SerializeIsAtomic
