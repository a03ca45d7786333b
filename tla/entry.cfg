SPECIFICATION EntryRunSpec
CONSTANTS
  Contexts <- MCContexts
  Quotes = {98, 101, 104}
  Contract = 1
  VolUnit = 100
  Grid = 3
  Broker <- MCBroker
  Fallback <- MCFallback
  Caps = {45, 200}
  RiskKnobs = {0, 500}
  MaxRiskPcts = {0, 900}
  MaxSpread = 20
  SpreadTolerance = 1
  ZoneModes = {TRUE, FALSE}
  Candles <- MCCandles
  Prices = {3, 5}
  Atrs = {2, 4}
  ObLookback = 4
  FvgLookback = 3
  MaxRetests = 1
  MaxBars = 5
  Markets = {"XAUUSD"}
  Readings <- MCReadings
  NoValue = NoValue
  Slower = {1}
  Skews = {0, 1}
  MaxAge = 1
  Tolerance = 0
  MaxTime = 2
INVARIANTS BudgetKept SentKeepsLimits StopOnLosingSide
PROPERTIES NoEntryFromSpentZone NoCrossingMissed
