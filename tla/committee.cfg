SPECIFICATION CommitteeFairSpec
CONSTANTS
  Markets <- MCMarkets
  Families = {"TREND", "NEWS"}
  Histories <- MCHistories
  MaxCycles = 2
  MinConfidence = 700
INVARIANT EvidenceBacked
PROPERTY CycleEnds
CHECK_DEADLOCK FALSE
