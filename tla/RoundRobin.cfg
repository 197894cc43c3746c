SPECIFICATION TSpec
CONSTANTS
  a = a
  b = b
  c = c
  Configured <- ThreeBackends
  NoBackend = NoBackend
  MaxIndex = 13
INVARIANT
  TypeOK
PROPERTIES
  ImplementsPool
  Rotation
