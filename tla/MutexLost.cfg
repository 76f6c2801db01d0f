CONSTANTS
  Fibers = {f1, f2, f3}
  NoFiber = NoFiber
  Protection = "checked"
  StoreBuffers = TRUE
  MaxLocks = 2
SPECIFICATION FairSpec
PROPERTY WaitersResume
CHECK_DEADLOCK FALSE
