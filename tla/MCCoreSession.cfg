SPECIFICATION Spec
CONSTANTS
  Plugins = {p1, p2}
  Sizes <- ThreeHeights
  MaxPictures = 3
  CoreThread = CoreThread
  NULL = NULL
SYMMETRY PluginSymmetry
INVARIANTS
  TypeOK WholePicture SourceRowsInside SizeIsFirstPicture LatestReachesHost
  EndAfterLastPicture OneCore NoLostWakeup
PROPERTIES EndedIsFinal KeepsHostView
CHECK_DEADLOCK FALSE
