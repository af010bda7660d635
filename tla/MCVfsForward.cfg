SPECIFICATION Spec
CONSTANTS
  Versions = {0, 1}
  Sizes = {6, 7, 8}
  Threads = {t1, t2}
  MaxHandles = 3
  NULL = NULL
SYMMETRY ThreadSymmetry
INVARIANTS OnlyFieldsThere HandlesStayHome
CHECK_DEADLOCK FALSE
