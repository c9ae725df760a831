SPECIFICATION FairSpec
CONSTANTS
  a = a
  b = b
  c = c
  Ticker <- Names
  Watchlist <- Rows3
  Moving = {a}
  Worker = {w1}
  MaxPositions = 2
INVARIANTS
  CapUnlessRaised
PROPERTIES
  OldUnknownBlocks
  KillStopsBuys
  ExitsDespiteGates
