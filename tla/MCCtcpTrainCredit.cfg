SPECIFICATION Spec
CONSTANTS
  WindowSizes = {2}
  NumProbe = 1
  ReduceMin = 1
  AckCap = 2
  NumCycles = 1
  FlowSize = 3
  SwitchTypes = {TRUE}
  TrainLength = 2
  WindowFactor = 1
  IdleTimeout = 1
  SlowLoop = FALSE
  MaxSeq = 6
INVARIANTS
  CreditedHaveArrived
CHECK_DEADLOCK FALSE
