SPECIFICATION TrainingSpec
CONSTANTS
  Limit = 8
  Optimizer <- OneRule
  Builds <- CommonSignals
  Points = {0, 6}
  MaxUses = 3
  MaxSteps = 3
  MaxGeneration = 0
INVARIANTS
  ReplacesItsOwn
CHECK_DEADLOCK FALSE
