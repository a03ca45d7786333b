SPECIFICATION GatesSpec
CONSTANTS
  Threshold = 3
  MaxInFlight = 2
  MaxRestarts = 1
  t1 = t1
  t2 = t2
  Tickets <- MCTickets
  Plain <- MCPlain
  Interval = 2
  FlakyReads <- FailingReads
  ChangesPolled = TRUE
  MaxReboots = 1
  Symbols = {s1, s2}
  ManualSymbols = {s1}
  SingleEntryPolicy = TRUE
  FlakyContext = FALSE
  FlakyMonitor = TRUE
  Exceptions = TRUE
  LostReplies = TRUE
  MaxTickets = 2
  MaxBoots = 1
INVARIANTS TripHalts BootOrphansBlock OneEntry
PROPERTIES OpenBreakerRecovers OrphanEventuallyBlocks KnownCloseClears
