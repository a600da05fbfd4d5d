SPECIFICATION FairThreadsSpec
CONSTANTS
  MaxTTI = 8
  NumLog = 3
  NumCells = 2
  FirstMs = 6
  LastMs = 9
  MaxSkew = 1
  ReTxMs = {6, 8}
  Garbage = {5}
  Programs = {"dci_copa_rx", "test_dci_recv"}
  Signals = TRUE
INVARIANTS
  ThreadsTypeOK
  SharedInLifetime
  ExtractIsRecent
PROPERTIES
  AnnouncedIsCopied
  InsertKeepsWindow
  ExitEnds
CHECK_DEADLOCK FALSE
