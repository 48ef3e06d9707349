SPECIFICATION MCSpec
CONSTANTS
  NoCandidate = NoCandidate
  Nothing = Nothing
  Controllers = {w1, w2}
  Observations = {o1}
  StepLimit = 2
  TokenLimit = 2
  CostLimit = 2
  Reservations <- MCReservations
  MaxRaised = 1
  MaxFence = 1
  Tenant = "a"
  Catalog <- MCCatalog
  Schemas <- MCSchemas
  Narrowings <- MCNarrowings
  Proposals <- MCProposals
  Reports <- MCReports
  Auths <- MCAuths
  Outcomes <- MCOutcomes
  MaxChanges = 1
  None = None
  Jobs = {j1, j2}
  Workers = {w1, w2}
  Balance = 5
  WorstCase = 2
  Costs = {0, 1, 3}
  Capacity = 2
  fail_threshold = 1
  half_open_max_probes = 1
  needed_to_close = 2
  MaxRounds = 2
  Disturbed = {j1, j2}
  Outages = TRUE
SYMMETRY Symmetry
CHECK_DEADLOCK FALSE
PROPERTY
  ReadyIsCurrent
INVARIANTS
  BudgetRespected
  OneEffectPerVersion
  LedgerConserved
  PermitsAccountedFor
  UncertainStaysFunded
