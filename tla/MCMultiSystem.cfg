\* Two clients, each with an entry of the list, and the warm start that the
\* service asks for.
SPECIFICATION FairSpec
CONSTANTS
  Clients = {c1, c2}
  Nobody = Nobody
  MaxListed = 2
  WarmStart = TRUE
INVARIANTS
  TypeOK
  NativeMatchesState
  CountActive
  ClientsStay
PROPERTIES
  NativeFollows
  StopReturns
CHECK_DEADLOCK FALSE
