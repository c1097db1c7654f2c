\* Beside the runs: the counterexample to EndsOnlyBegun, a warm start that is
\* stopped before its first frame.
SPECIFICATION Spec
CONSTANTS
  Clients = {c1}
  Nobody = Nobody
  MaxListed = 1
  WarmStart = TRUE
INVARIANT
  EndsOnlyBegun
CHECK_DEADLOCK FALSE
