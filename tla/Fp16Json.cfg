SPECIFICATION Spec
CHECK_DEADLOCK FALSE
CONSTANTS
  Halves <- Half
  Nudges <- MCNudges
INVARIANTS
  TypeOK
  WidensExactly
  EchoIsExact
  NarrowsTowardZero
