CONSTANTS
  f1 = f1
  f2 = f2
  f3 = f3
  Fibers = {f1, f2, f3}
  None = None
  Channels = {1}
  Capacity <- TwoPlaces
  Calls <- BufferCalls
  MaxCalls = 2
SPECIFICATION Spec
SYMMETRY Symmetric
INVARIANTS WokenForAReason NoMissedRendezvous NoDanglingNode
PROPERTIES ImplementsChannelSpec
CHECK_DEADLOCK FALSE
