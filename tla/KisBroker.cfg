SPECIFICATION Spec
CONSTANTS
  Name = {1, 2, 3}
  Listed <- TwoExchanges
  Quantity = 2
  MaxCash = 0
  Prices = {1, 2}
  Rate = 2
  MaxOther = 1
  MaxRetries = 1
  FillPages = 2
  KrPages = 2
  UsPages = 2
  Called = {"positions", "balance", "place", "cancel", "fill"}
  MaxTrades = 2
  MaxFaults = 1
VIEW WhatCounts
INVARIANTS CloseWasSeen CashNotOverstated OnePerCall TerminalExact
CHECK_DEADLOCK FALSE
CONSTRAINT OrderOrTrades
