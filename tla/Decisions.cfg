SPECIFICATION Spec
CONSTANTS
  HighValue = 100000
  StartingCash = 100
  Prices <- MCPrices
  Charts <- MCCharts
  Accounts <- MCAccounts
  Percent <- MCPercent
  Calendars <- MCCalendars
  DaySells <- MCDaySells
  Bases = {0, 100}
  Limits = {0, 3}
  LedgerRows <- MCLedgerRows
  Facts <- MCFacts
  Banners <- MCBanners
  Rows <- MCRows
INVARIANTS PriceOnSafeSide SizeWithinBudget OpenOnlyInSession LossNotOverlooked BooksAgree SignalSound PanelTruthful
CHECK_DEADLOCK FALSE
