SPECIFICATION Spec
CONSTANTS
  FrameBytes = 2
  Modulus = 16
  DataSizes = {0, 4, 8, 9}
  Capacities <- HeaderCapacities
  MaxFrames = 3
  MaxSent = 26
INVARIANTS TypeOK UnreadInPlace HeardInOrder InMapping
PROPERTIES QueueSpec
CHECK_DEADLOCK FALSE
