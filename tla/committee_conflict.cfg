SPECIFICATION CommitteeSpec
CONSTANTS
  Markets <- MCMarkets
  Families = {"TREND"}
  Histories <- MCHistories
  MaxCycles = 1
  MinConfidence = 700
INVARIANT ConflictNeverTrades
CHECK_DEADLOCK FALSE
