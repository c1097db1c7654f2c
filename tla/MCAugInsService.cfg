\* Three modules, one of them registered twice, a chain cut off at three, one client thread per service life
\* and one to spare, and two lives of the service.
CONSTANTS
  NumModules = 3
  Priority <- ThreePriorities
  Listed <- TwiceListed
  MaxChain = 3
  Clients = {c1, c2}
  MaxStarts = 2
  InitMayFail = TRUE
SPECIFICATION FairSpec
INVARIANTS TypeOK ChainInOrder RegistryConsistent StartsAgain
PROPERTIES FirstModulesCalled ShutdownReturns
CHECK_DEADLOCK FALSE
