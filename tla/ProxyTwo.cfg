SPECIFICATION Spec
CONSTANTS
  Connections = {c1, c2}
  Backends = {a, b, c}
  NoBackend = NoBackend
  Algorithm = "least_connections"
  HealthChecks = TRUE
  MaxRetries = 2
  ReqLen = 1
  HeaderLen = 1
  Shapes <- EmptyShapes
SYMMETRY Symmetry
INVARIANTS
  CountsExact
  AttemptsDistinct
