SPECIFICATION Spec
CONSTANTS
  N = 3
  Imported = {0, 1}
  Kinds <- AllKinds
  Bodies <- MCBodies
  TopBodies <- MCTopBodies
CHECK_DEADLOCK FALSE
INVARIANTS CallsAreDistinct CyclesReported NoFalseAlarm ImportsFirst
