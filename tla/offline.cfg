SPECIFICATION OfflineSpec
CONSTANTS
  Readers = {r1, r2}
  Models <- MCModels
  FreeModels = {"gemini-free", "deepseek-free"}
  ClientFallbacks <- MCFallbacks
  MaxEscalations = 2
  MaxRetries = 1
  Estimate = 3
  AgentEstimate = 1
  Budgets = {2, 5}
  Totals = {0, 4}
  CacheTtl = 2
  FailureTtl = 1
  MaxTime = 3
  StrategyTypes = {"ema_crossover", "rsi_reversal", "macd_crossover"}
  Prices = {4, 5, 6}
  Atrs = {0, 1}
  StopMultiplier = 2
  RewardRisk = 1
  Cost = 1
  Delay = 1
  ExperimentIds = {e1}
  VersionKeys = {v1}
  LabTypes = {"ema_crossover"}
  Requests = {t1, t2}
  StrategyKeys <- MCStrategyKeys
  LiveKey <- MCLiveKey
  Grids = {g1, g2}
  DefaultGrid = g1
  Trades = {t1, t2}
  MaxNotices = 2
  MaxReboots = 1
  MaxFailures = 1
  MemorySize = 1
  PatternMin = 2
  EvidenceMin = 2
  ValidatedMin = 2
  PaperKeys = {k1, k2}
  PaperSymbols = {"XAUUSD"}
  PaperPrices = {10, 12}
  HalfSpreads = {1}
  Slippages = {1}
  Lots = {0, 1}
  MinLot = 1
  MaxLot = 2
  ContractSizes = {1, 2}
  InitialBalance = 100
  MaxPaperTrades = 3
  DrillTimeout = 300
  MaxRuns = 1
INVARIANTS StopBoundsLoss CompletedHasResult ServicesRestored
  EvidenceIsEarned ClosedIsReviewed
PROPERTIES NoHammering RunningConfigStable PaperBooksBalance
CHECK_DEADLOCK FALSE
