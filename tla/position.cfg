SPECIFICATION CareFairSpec
CONSTANTS
  Tickets = {"t1"}
  Prices = {500, 600, 800, 1000, 1200, 1400, 1500}
  Entry = 1000
  InitialRisk = 200
  ATRs = {0, 100}
  Toggled = {"management", "progressive"}
  DiskFails = TRUE
  FlakyRead = FALSE
  MaxRestarts = 1
INVARIANT ReviewedOnce
PROPERTIES StopOnlyTightens Tp1Secures
CHECK_DEADLOCK FALSE
