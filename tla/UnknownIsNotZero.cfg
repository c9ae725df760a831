SPECIFICATION Spec
CONSTANTS
  Name = {1, 2, 3}
  Listed <- TwoExchanges
  Quantity = 1
  MaxCash = 0
  Prices = {1}
  Rate = 1
  MaxOther = 0
  MaxRetries = 0
  FillPages = 1
  KrPages = 3
  UsPages = 2
  Called = {"positions"}
  MaxTrades = 0
  MaxFaults = 1
INVARIANTS UnknownIsNotZero
CHECK_DEADLOCK FALSE
