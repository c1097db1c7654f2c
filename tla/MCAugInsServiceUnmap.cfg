\* One module, one client, one life of the service.
CONSTANTS
  NumModules = 1
  Priority <- OnePriority
  Listed <- OnceListed
  MaxChain = 1
  Clients = {c1}
  MaxStarts = 1
  InitMayFail = FALSE
SPECIFICATION Spec
INVARIANTS NoCallUnmapped
CHECK_DEADLOCK FALSE
