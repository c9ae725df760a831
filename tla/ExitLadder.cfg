SPECIFICATION Spec
CONSTANTS
  MaxPrice = 7
  Atr = 1
  Entry = 3
  StopLoss = 2
  Target1 = 4
  Target2 = 7
  Shares = 2
  Others = 1
  MaxDay = 3
INVARIANTS
  NotOversold
  TrailAhead
PROPERTIES
  RunnerFloor
  SimWorstCase
CHECK_DEADLOCK FALSE
