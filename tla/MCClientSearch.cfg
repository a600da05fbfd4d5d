SPECIFICATION Spec
CONSTANTS
  MaxTTI = 32
  NumLog = 4
  Gap = 2
  Padding = 1
  Search = 2
  SearchTTIs = 3
  Hold = 2
  Near = 2
  TimeDiff = 1
  OnewayDiff = 2
  FirstMs = 29
  MaxMs = 34
  MaxReTx = 3
  MaxPkts = 5
  Blocks = {1}
  Oneways = {1, 4}
  Lags = {0, 1}
  Offsets = {1}
  UplinkNews = {TRUE, FALSE}
PROPERTIES
  SearchTimesOut
CHECK_DEADLOCK FALSE
