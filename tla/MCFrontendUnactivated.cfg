SPECIFICATION FrontendSpec
CONSTANTS
  k1 = k1 k2 = k2 v1 = v1 v2 = v2 NULL = NULL
  Keys = {k1}
  Values = {v1, v2}
  MaxDeclared = 0
  Cores <- CallbackKinds
  Played = {}
  HostActions <- Pressed
  Widths = {2}
  Columns = {0}
PROPERTIES KeepsContract
CHECK_DEADLOCK FALSE
