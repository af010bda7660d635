SPECIFICATION FairSpec
CONSTANTS
  Places = {0}
  Buttons = {"left", "right", "other"}
  MaxEvents = 3
INVARIANTS PressNeverLost NoGhostTouch
PROPERTIES PressIsReported
CHECK_DEADLOCK FALSE
