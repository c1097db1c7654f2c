\* Three frames fill the three slots; two display times, so that a frame can be
\* early, due and late; one layer stands for the references a frame holds.
SPECIFICATION FairSpec
CONSTANTS
  MaxFrames = 3
  MaxTime = 2
  MaxLayers = 1
INVARIANTS
  TypeOK
  ProgressExclusive
  FrameOnce
  NoSyncLeft
PROPERTIES
  NoEarlyDrop
  ImplementsFrameStream
  BlockedReleased
  DestroyReturns
CHECK_DEADLOCK FALSE
