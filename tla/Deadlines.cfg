SPECIFICATION Spec
CONSTANTS
  Conns = {c1, c2, c3}
  NoConn = NoConn
  Ids = {1, 2}
  NoId = 0
  Timeout <- ShortTimeouts
  SelectCap = 2
  MaxGen = 3
  MaxTime = 3
SYMMETRY Symmetry
INVARIANTS
  TypeOK
  LiveAreScheduled
  NeverOverdue
PROPERTY
  EarlyOnlyByReuse
