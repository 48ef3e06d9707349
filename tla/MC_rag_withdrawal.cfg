CONSTANTS
  Intakes <- MCIntakes
  a1 = a1
  a2 = a2
  Actors <- MCActors
  RequestIds = {"r1", "r2"}
  MaxAttempts = 2
  MaxRequests = 3
  Contract = "c"
  MediaTypes = {"plain", "markdown", "html"}
  ParserMediaTypes = {"plain", "markdown", "html"}
  MaxSize = 2
  None = None
SPECIFICATION Spec
SYMMETRY ActorSymmetry
CHECK_DEADLOCK FALSE
INVARIANT
  WithdrawalStands
