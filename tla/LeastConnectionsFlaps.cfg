SPECIFICATION TSpec
CONSTANTS
  a = a
  b = b
  c = c
  Configured <- ThreeBackends
  NoBackend = NoBackend
  MaxTiebreak = 8
PROPERTY
  Rotation
