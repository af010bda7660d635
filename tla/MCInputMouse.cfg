SPECIFICATION Spec
CONSTANTS
  Places = {1, 2}
  Buttons = {"left", "right"}
  MaxEvents = 3
INVARIANTS MovementReported
CHECK_DEADLOCK FALSE
