SPECIFICATION FairSpec
CONSTANTS
  N = 3
  MaxSignals = 2
INVARIANTS
  TypeOK
  NoneLeftBehind
  CodeTellsCrash
PROPERTIES
  OneEndsAllEnd
  SignalEndsListed
CHECK_DEADLOCK FALSE
