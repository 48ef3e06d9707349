SPECIFICATION MCSpec
CHECK_DEADLOCK FALSE
CONSTANTS
  None = None
  g1 = g1
  d1 = d1
  d2 = d2
  i1 = i1
  v1 = v1
  r1 = r1
  r2 = r2
  Commands <- SomeCommands
  Units = 2
  Usages = {1, 2}
  AttemptLimit = 1
  MaxRaised = 1
  Processes = {p1, p2}
  NoProcess = NoProcess
  NotCancelled = NotCancelled
  MaxPublishes = 2
  MaxFaults = 2
  Verifiers = {p1, p2}
  Cleaners = {c1}
  Nobody = Nobody
  CredentialExpires = 1
  SessionExpires = 2
  HoldTtl = 1
  MaxClockSkew = 0
  SafetyBuffer = 0
  CreateOnly = FALSE
  MaxPuts = 2
  MaxTime = 2
  Clients = {a1, a2}
  Relays = {r1, r2}
  Requests <- MCRequests
  RelayHold = 1
  MaxAttempts = 2
  BackoffCap = 2
SYMMETRY Symmetry
INVARIANTS
  ClaimIsCovered
  NothingIsStranded
  DocumentIsStored
  AcceptedIsBacked
PROPERTIES
  ClosedStaysClosed
