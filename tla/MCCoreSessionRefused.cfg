SPECIFICATION Spec
CONSTANTS
  Plugins = {p1, p2}
  Sizes <- TwoHeights
  MaxPictures = 2
  CoreThread = CoreThread
  NULL = NULL
INVARIANTS RefusedWhileRunning
CHECK_DEADLOCK FALSE
