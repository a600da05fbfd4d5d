SPECIFICATION MarkovianSpec
CONSTANTS
  DblMax = 1000
  DblMin = 0
  BaseHorizon = 30
  SampleRTTs = {2, 4, 9}
  Times = {1, 2, 3, 5, 8, 48, 52, 140, 150}
  UtilityMode = "auto"
  DoSlowStart = TRUE
  InvConfigured = 1
  InvDefault = 2
  NumProbe = 3
  ReduceMin = 2
  MaxRTT = 2
  Losses = {0, 1}
  MaxWindow = 8
  MaxInvDelta = 4
  MaxNet = 2
  MaxPkts = 2
INVARIANTS
  MarkovianTypeOK
  MinNotAboveUnjittered
  CopaExtremesOrdered
  DeltaAtMostDefault
  PacingFollowsWindow
PROPERTIES
  MinWindowSpec
  UnjitteredWindowSpec
  CopaMaxWindowSpec
  VelocityNeedsAgreement
  WindowAsCtcpAssumes
