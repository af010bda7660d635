SPECIFICATION FairSpec
CONSTANTS
  Plugins = {p1}
  Sizes <- TwoHeights
  MaxPictures = 2
  CoreThread = CoreThread
  NULL = NULL
PROPERTIES StopEndsCore QuestionAnswered StepReturns EndIsSeen
CHECK_DEADLOCK FALSE
