\* One client whose compositor goes and one that makes the server speak to all.
CONSTANTS
  MaxClients = 2
  MayRecreate = FALSE
SPECIFICATION Spec
INVARIANTS NoFreedCompositor
CHECK_DEADLOCK FALSE
