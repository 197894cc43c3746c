SPECIFICATION Spec
CONSTANTS
  Connections = {c1, c2}
  MaxDescriptor = 3
  MaxRetries = 2
INVARIANTS
  TypeOK
  WaitingIsWatched
  StaleOnlyIfLost
  NoDescriptorLeak
PROPERTIES
  CrashOnlyIfLost
CHECK_DEADLOCK FALSE
