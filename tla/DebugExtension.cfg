CONSTANTS
  None = None
  Launches = {l1, l2}
  Programs = {a}
  Ports = {p, q}
  EditorPort = e
SPECIFICATION Spec
INVARIANTS OwnOrEarlier SpawnedWithProgram
PROPERTIES LaunchEnds
CHECK_DEADLOCK FALSE
