CONSTANTS
  Intakes <- MCIntakes
  a1 = a1
  a2 = a2
  Actors <- MCActors
  RequestIds = {"r1", "r2"}
  MaxAttempts = 2
  MaxRequests = 3
  Contract = "c"
  MediaTypes = {"plain", "markdown", "html"}
  ParserMediaTypes = {"plain", "markdown", "html"}
  MaxSize = 2
  None = None
  w1 = w1
  w2 = w2
  NoValue = NoValue
  Workers <- MCWorkers
  Points <- MCPoints
  Sizes <- MCSizes
  Similarity <- MCSimilarity
  Contracts <- MCContracts
  Policies <- MCPolicies
  BuildRequests <- MCBuildRequests
  Attempts <- MCAttempts
  Modes = {"NORMAL", "ACK_ONLY", "PARTIAL_WRITE", "WRONG_VECTOR", "WRONG_PAYLOAD", "CROSS_TENANT_POINT", "TIMEOUT_UNKNOWN", "MISSING_ACK", "DUPLICATE_ACK", "UNKNOWN_ACK", "UNCORRELATED_ACK", "REVERSED_ACKS", "WRONG_QUERY_ORDER"}
  PermitTtl = 1
  Fences = {1, 2, 3}
  MaxEvents = 3
  MaxClaims = 2
  MaxBuilds = 2
  MaxBundles = 3
SPECIFICATION StoresSpec
SYMMETRY Symmetry
CHECK_DEADLOCK FALSE
INVARIANTS
  HeadNamesTheActiveVersion
PROPERTIES
  SettledStaysSettled
  ImplementsDocument
  SealedWasAuthorized
  LateWriterIsFenced
  NoLostActivation
