SPECIFICATION FairSpec
CHECK_DEADLOCK FALSE
CONSTANTS
  WindowSizes = {2}
  NumProbe = 1
  ReduceMin = 1
  AckCap = 2
  NumCycles = 2
  FlowSize = 3
  SwitchTypes = {TRUE, FALSE}
  TrainLength = 2
  WindowFactor = 1
  IdleTimeout = 1
  SlowLoop = FALSE
  MaxSeq = 6
INVARIANTS
  TypeOK
  AcceptedAcksAreCurrent
  LossAccounting
  HeldUntilOvertaken
  OutstandingBounded
PROPERTIES
  FlowEnds
  StallRecovers
