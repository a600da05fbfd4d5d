SPECIFICATION SyncSpec
CHECK_DEADLOCK FALSE
CONSTANTS
  MaxTTI = 32
  NumLog = 4
  Gap = 2
  Padding = 1
  Search = 2
  SearchTTIs = 3
  Hold = 2
  Near = 2
  TimeDiff = 1
  OnewayDiff = 2
  FirstMs = 29
  MaxMs = 34
  MaxReTx = 3
  MaxPkts = 4
  Blocks = {1}
  Oneways = {1, 4}
  Lags = {0, 1}
  Offsets <- MCOffsets
  UplinkNews = {FALSE}
  Programs = {"dci_copa_rx", "receiver"}
  JumpDelay = 3
  OffsetSteps = 1
  OffsetStep = 1
INVARIANTS
  TypeOK
  BufferSane
  CountedOnce
  NothingHeldInBurst

  
