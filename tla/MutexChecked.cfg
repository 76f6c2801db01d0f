CONSTANTS
  Fibers = {f1, f2, f3}
  NoFiber = NoFiber
  Protection = "checked"
  StoreBuffers = TRUE
  MaxLocks = 2
SPECIFICATION Spec
SYMMETRY FiberSymmetry
INVARIANTS TypeOK MutualExclusion OwnerRecorded WaitersSuspended
CHECK_DEADLOCK FALSE
