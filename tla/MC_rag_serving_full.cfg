SPECIFICATION ServingSpec
CONSTANTS
    Nothing = Nothing
    Records <- MCRecords
    Queries <- MCQueries
    Bundles <- MCBundles
    FilterNodes <- MCFilterNodes
    FilterRules <- MCFilterRules
    AdapterEncoder = "e1"
    ClassroomMode = TRUE
    CursorTtl = 2
    RetrievalCacheTtl = 1
    MaxFaults = 1
    Rewrites <- MCRewrites
    RerankScores <- MCScores
    RankingPolicies <- MCRankingPolicies
    Items = {"i", "j"}
    Extractions <- MCExtractions
    Relations <- MCRelations
    Grounding <- MCGrounding
    RetrievalRequests <- MCRequests
    RankingRequests <- MCRankingRequests
    MaxRequests = 2
    MaxAdministrations = 2
    MaxTurns = 3
CHECK_DEADLOCK FALSE
INVARIANT
    FullAnswerIsUndegraded
