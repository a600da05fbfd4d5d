SPECIFICATION SenderSpec
CONSTANTS
  Limit = 8
  Optimizer <- SmallOptimizer
  Builds <- SmallBuilds
  Points = {0, 4}
  Notes <- SmallNotes
  MaxUses = 2
  MaxSteps = 2
  MaxGeneration = 1
  SignalLimit = 8
  CCTypes = {"remy", "tcp"}
  TreeRules <- SmallRules
  LargestWindow = 2
  WindowFactor = 1
  MaxFlows = 2
  MaxSeq = 2
  MaxTime = 4
  MaxGap = 1
  MaxWindow = 5
  MaxDups = 4
  SenderBuild = {21, 22, 23, 24}
  SenderFiles <- SmallFiles
  RelayBuilds <- SmallBuilds
  Made <- SmallMessages
  MaxHops = 3
  LossScale = 10
  NumPackets = 5
  MaxTick = 5
INVARIANTS
  LookupFinds
  OneLeafEach
  MessagesSurvive
  CCTypeOK
  SentTimesAgree
  SignalsNotNegative
  TcpWindowFloor
  SenderGoesOn
  LossesAmongReceived
CHECK_DEADLOCK FALSE
