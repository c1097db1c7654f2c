\* Beside the runs: the counterexample to PrimaryIsApplication, a primary client
\* whose second session is an overlay.
CONSTANTS
  MaxClients = 2
  MayRecreate = TRUE
SPECIFICATION Spec
INVARIANTS PrimaryIsApplication
CHECK_DEADLOCK FALSE
