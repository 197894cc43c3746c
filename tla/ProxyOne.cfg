SPECIFICATION FairSpec
CONSTANTS
  Connections = {c1}
  Backends = {a, b, c}
  NoBackend = NoBackend
  Algorithm = "round_robin"
  HealthChecks = TRUE
  MaxRetries = 1
  ReqLen = 2
  HeaderLen = 2
  Shapes <- AllShapes
INVARIANTS
  TypeOK
  AttemptsDistinct
  WholeRequestSent
  RelayIsOneResponse
PROPERTIES
  UnansweredHasReason
  ImplementsExchange
  EveryConnectionEnds
