SPECIFICATION LiveSpec
CONSTANTS
  Ticker = {a}
  MaxEpoch = 2
  MaxTrades = 2
INVARIANTS NoTickForgotten SubscriptionsServed
PROPERTIES LowSold
CHECK_DEADLOCK FALSE
