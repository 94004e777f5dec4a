CHECK_DEADLOCK FALSE
SPECIFICATION Spec
CONSTANTS
  Runners = {r1, r2}
  Pids = {p1, p2}
  Nobody = Nobody
  NoChild = NoChild
  AbortPoints <- MCAbortPoints
INVARIANTS
  NoForeignDescriptors
  KillsOwnGroup
  NothingLeftBehind
  PublishedIsTrue
PROPERTIES
  CallsEnd
