SPECIFICATION ReadersSpec
CONSTANTS
  g1 = g1
  g2 = g2
  Generators <- MCGenerators
  SpecFile = spec
  BodyFile = body
  Manifest = manifest
  Foreign = foreign
  Edited = edited
  Nobody = nobody
  MaxDisturbances = 2
INVARIANTS
  ManifestMeansWhole
  RejectedLeavesNothing
  VerifiedIsWhole
  CleanIsClean
PROPERTIES
  ImplementsAtomicPublication
  Settles
  SomeoneWins
