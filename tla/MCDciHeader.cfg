SPECIFICATION Spec
CONSTANTS
  MaxTTI = 8
  NumLog = 3
  NumCells = 2
  FirstMs = 6
  LastMs = 10
  MaxSkew = 2
  ReTxMs = {6, 9}
  Garbage = {5}
PROPERTIES
  HeaderIsTTI
