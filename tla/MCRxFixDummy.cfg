SPECIFICATION Spec
CONSTANTS
  WindowSizes = {2}
  NumProbe = 1
  ReduceMin = 1
  AckCap = 2
  NumCycles = 1
  FlowSize = 2
  SwitchTypes = {FALSE}
  TrainLength = 1
  WindowFactor = 2
  IdleTimeout = 1
  SlowLoop = TRUE
  MaxSeq = 2
  BatchCap = 2
INVARIANTS
  OnlyPacketsAcknowledged
CHECK_DEADLOCK FALSE
