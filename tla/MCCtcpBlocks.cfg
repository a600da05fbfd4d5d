SPECIFICATION FairSpec
CONSTANTS
  WindowSizes = {2}
  NumProbe = 1
  ReduceMin = 1
  AckCap = 2
  NumCycles = 1
  FlowSize = 3
  SwitchTypes = {FALSE}
  TrainLength = 1
  WindowFactor = 2
  IdleTimeout = 1
  SlowLoop = TRUE
  MaxSeq = 2
PROPERTIES
  FlowEnds
CHECK_DEADLOCK FALSE
