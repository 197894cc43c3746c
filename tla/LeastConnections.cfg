SPECIFICATION TSpec
CONSTANTS
  a = a
  b = b
  c = c
  Configured <- ThreeBackends
  NoBackend = NoBackend
  MaxTiebreak = 7
INVARIANTS
  TypeOK
  TiebreaksUnique
  HealthyAreSelectable
PROPERTIES
  ImplementsLeastLoaded
  RotationBeforeFlaps
