CONSTANTS
  f1 = f1
  f2 = f2
  f3 = f3
  Fibers = {f1, f2, f3}
  None = None
  Channels = {1, 2}
  Capacity <- NoBuffers
  Calls <- CrossCalls
  MaxCalls = 1
SPECIFICATION FairSpec
INVARIANTS WokenOnce
PROPERTIES Released NoLockDeadlock ImplementsChannelSpec
CHECK_DEADLOCK FALSE
