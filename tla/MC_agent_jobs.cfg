SPECIFICATION MCSpec
CONSTANTS
  Unset = Unset
  AgentWorkers = {w1, w2}
  Recoveries = {r1, r2}
  Reserved = 2
  Usages = {1}
  Absent = Absent
  Handoffs = {r1, r2}
  ChildWorkers = {w1, w2}
  HandoffCandidates <- SmallCandidates
  FactValues = {v1, v2}
  ParentReservation = 3
  MaxFanOut = 2
  ConcurrencyLimit = 1
  MaxFence = 2
CHECK_DEADLOCK FALSE
SYMMETRY MCSymmetry
INVARIANTS
  HistoryIsLinear
  UnknownUsageStaysHeld
  NoSupersededResult
  OneCallPerHandoff
  ReadyIsEarned
