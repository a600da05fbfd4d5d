SPECIFICATION ProbingSpec
CHECK_DEADLOCK FALSE
CONSTANTS
  NumFlows = 1
  Resend = 2
  MinRTT = 3
  MaxLost = 2
  RemoteUnknown = TRUE
  GroupSize = 3
  MaxGroups = 2
  ProbeTime = 2
  MaxForeign = 2
INVARIANTS
  RightRTT
  MeasuresWholeGroups
PROPERTIES
  Established
