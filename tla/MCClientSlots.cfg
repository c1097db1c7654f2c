\* Two slots, four connections: slots are reused, four values of the id
\* make the generator wrap, and both start-up failures may happen.
CONSTANTS
  MaxClients = 2
  MaxConns = 4
  IdWidth = 4
  ExitWhenIdle = TRUE
  ExitOnDisconnect = FALSE
  ShmMayFail = TRUE
  EpollMayFail = TRUE
SPECIFICATION FairSpec
INVARIANTS TypeOK SlotExclusive IdsDistinct CountCoversClients
PROPERTIES OnlyJoinBlocksCleanup IdleServerExits
CHECK_DEADLOCK FALSE
