SPECIFICATION FairSpec
CONSTANTS
  None = None
  Jobs = {j1}
  Fingerprints = {f1}
  Relays = {r1, r2}
  Workers = {w1, w2}
  SweepLimit = 1
  MaxFaults = 2
  AckLate = TRUE
  TaskErrors = FALSE
INVARIANTS
  AtMostOneProviderCall
  SafetyInv
PROPERTIES
  StaleWorkerChangesNothing
  ImplementsContract
  AcceptedSettles
