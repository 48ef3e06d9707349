SPECIFICATION Spec
CONSTANTS
  None = None
  t1 = t1 tool1 = tool1 scope1 = scope1 iss1 = iss1 aud1 = aud1 k1 = k1 u1 = u1
  w1 = w1 w2 = w2 id1 = id1 id2 = id2
  Tenant = t1 Tool = tool1 Scope = scope1 Issuer = iss1 Audience = aud1
  Method = "tools/call"
  MaxBody = 1
  ClientVersions <- MCVersions
  Ops = {o1}
  Arrivals <- MCArrivals
  Reads <- MCReads
  Capacity = 1
  RequestIds = {id1, id2}
  ServerIdentity = "server"
  Rejections <- MCRejections
  RetryableKinds <- MCRetryableKinds
  MaxRetries = 1
  MaxGenerations = 2
  MaxInventories = 1
  Workers = {w1, w2}
  Inputs <- MCInputs
  Contexts <- MCContexts
  MaxQueries = 1
  MaxDisturbances = 2
SYMMETRY Symmetry
CHECK_DEADLOCK FALSE
INVARIANT ToolRunsAtMostOnce
INVARIANT FactsMatchTheEffect
