SPECIFICATION Spec
CONSTANTS
  Period = 3
  FarBehind = 4
  RunTimes <- LongRuns
  Oversleeps = {0, 6}
  Reference = 3
  Ahead = 4
  Room = 5
  Sounds = {3}
  CallTimes = {0, 1}
  MaxCalls = 4
  PlayRate = 1
  MaxFrames = 5
INVARIANTS NeverRaces NeverEarly TimeSinceLastRun KeptAhead
CHECK_DEADLOCK FALSE
