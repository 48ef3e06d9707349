SPECIFICATION MCSpec
CONSTANTS
  Workers = {w1, w2}
  None = None
  ChunkSets = {"s1"}
  MaxBindings = 2
  ChunksOf <- MCChunksOf
  Policies <- MCPolicies
  SupportedActions = {"embed"}
  ChunkAllowMayExpand = TRUE
  PrincipalKind = "SERVICE"
  Requests <- MCEmbedRequests
  PrincipalExpiresAt = 2
  PermitTtl = 1
  CacheTtl = 1
  MaxEvents = 4
  MaxClock = 1
  MaxPermits = 2
  EmbeddingRequests <- MCEmbeddingRequests
  Attempts <- MCAttempts
  Contracts <- MCContracts
  TokensOf <- MCTokensOf
  BytesOf <- MCBytesOf
  Evidence <- MCEvidence
  Weights <- MCWeights
  Modes = {"NORMAL", "REVERSED", "MISSING", "DUPLICATE", "UNKNOWN_ITEM", "BAD_VECTOR", "WRONG_MODEL", "WRONG_USAGE", "PARTIAL", "PROVEN_NOT_EXECUTED", "TIMEOUT_UNKNOWN"}
  Nothing = Nothing
  Records <- MCRecords
  Queries <- MCQueries
  Bundles <- MCBundles
  FilterNodes <- MCFilterNodes
  FilterRules <- MCFilterRules
  AdapterEncoder = "e1"
  ClassroomMode = TRUE
  CursorTtl = 2
  RetrievalCacheTtl = 1
  MaxFaults = 1
  Rewrites <- MCRewrites
  RerankScores <- MCScores
  RankingPolicies <- MCRankingPolicies
  Items = {"i", "j"}
  Extractions <- MCExtractions
  Relations <- MCRelations
  Grounding <- MCGrounding
  RetrievalRequests <- MCRequests
  RankingRequests <- MCRankingRequests
  MaxRequests = 2
  MaxAdministrations = 2
  MaxTurns = 3
SYMMETRY Symmetry
CHECK_DEADLOCK FALSE
INVARIANTS
  SetsAreWhole
  FullAnswerIsGrounded
PROPERTIES
  ReleasedWasAuthorized
  CommittedWasAuthorized
  ReleasesAreCurrent
  WholeSearchIsComplete
