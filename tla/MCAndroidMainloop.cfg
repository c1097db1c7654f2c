\* Three binder threads: one in the hand-over, one at the push mutex and one
\* that comes when the server is going.  Every failure may happen.
CONSTANTS
  Adders = {a1, a2, a3}
  InitMayFail = TRUE
  IoMayFail = TRUE
SPECIFICATION FairSpec
INVARIANTS TypeOK NoDroppedAck OwnershipIffZero
PROPERTIES AddFdReturns ImplementsHandOver
CHECK_DEADLOCK FALSE
