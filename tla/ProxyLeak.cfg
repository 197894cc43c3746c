SPECIFICATION Spec
CONSTANTS
  Connections = {c1}
  Backends = {a, b}
  NoBackend = NoBackend
  Algorithm = "least_connections"
  HealthChecks = FALSE
  MaxRetries = 1
  ReqLen = 1
  HeaderLen = 1
  Shapes <- AllShapes
INVARIANT
  CountsOnlyActive
