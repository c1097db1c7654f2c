\* One slot, used twice; nothing fails.
CONSTANTS
  MaxClients = 1
  MaxConns = 2
  IdWidth = 3
  ExitWhenIdle = FALSE
  ExitOnDisconnect = FALSE
  ShmMayFail = FALSE
  EpollMayFail = FALSE
SPECIFICATION FairSpec
PROPERTIES JoinReturns
CHECK_DEADLOCK FALSE
