CONSTANTS
  Fibers = {f1, f2, f3}
  NoFiber = NoFiber
  Protection = "reentrant"
  StoreBuffers = FALSE
  MaxLocks = 2
SPECIFICATION FairSpec
INVARIANT NoLostWakeup
PROPERTY WaitersResume
CHECK_DEADLOCK FALSE
