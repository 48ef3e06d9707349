CONSTANTS
  Texts <- MCTexts
  Contracts <- MCContracts
  MaxLength = 5
  Published <- MCPublished
  w1 = w1
  w2 = w2
  Workers <- MCWorkers
  Documents = {"d"}
  Versions = {"v1", "v2"}
  DocumentOf <- MCDocumentOf
  None = None
  MaxRevision = 2
  ChunkSets = {"s1", "s2"}
  VersionOf <- MCVersionOf
  ChunkRequests <- MCChunkRequests
  MetadataOps <- MCMetadataOps
  Candidates <- MCCandidates
  Fields <- MCFields
  AuthorityNames = {"tenant_id"}
  AttemptsOf <- MCAttemptsOf
  MaxSelections = 2
SPECIFICATION CutSpec
SYMMETRY Symmetry
CHECK_DEADLOCK FALSE
INVARIANT GeneratedIsValid
INVARIANT BoundariesAreStructural
INVARIANT SnapshotsFormAChain
PROPERTY RefreshesInOrder
PROPERTY ImplementsProvenance
