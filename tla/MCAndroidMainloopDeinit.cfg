\* One binder thread, no failures: the hand-over of the last client against the
\* shutdown.
CONSTANTS
  Adders = {a1}
  InitMayFail = FALSE
  IoMayFail = FALSE
SPECIFICATION FairSpec
PROPERTIES DeinitReturns
CHECK_DEADLOCK FALSE
