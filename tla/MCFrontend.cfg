SPECIFICATION FrontendSpec
CONSTANTS
  k1 = k1 k2 = k2 v1 = v1 v2 = v2 NULL = NULL
  Keys = {k1, k2}
  Values = {v1, v2}
  MaxDeclared = 2
  Cores <- Kinds
  Played <- PlayedKinds
  HostActions <- Pressed
  Widths = {2, 640, 32768}
  Columns = {1, 639, 32767}
SYMMETRY Symmetric
INVARIANTS ChoiceWins NoSilentChange DefaultAsDeclared
INVARIANTS ColoursKept OnlyOwnCase NoStuckButton HeldIsPressed TouchedPixel
PROPERTY KeepsOrder
CHECK_DEADLOCK FALSE
