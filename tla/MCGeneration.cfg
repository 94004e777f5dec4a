SPECIFICATION Spec
CONSTANTS
  g1 = g1
  g2 = g2
  impl1 = impl1
  impl2 = impl2
  reviewed = reviewed
  reformatted = reformatted
  changed = changed
  Generators <- MCGenerators
  Nobody = nobody
  Implementations <- MCImplementations
  Documents <- MCDocuments
  Reviewed = reviewed
  Meaning <- MCMeaning
  Admitted <- MCAdmitted
  Overlays <- MCOverlays
  Pinned = pinned
  Altered = altered
  Unread = unread
  MaxEdits = 2
CHECK_DEADLOCK FALSE
INVARIANTS
  AttestedIsUsed
  PublishedIsReviewed
  AcceptedIsCurrent
