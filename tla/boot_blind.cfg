SPECIFICATION RecSpec
CONSTANTS
  Tickets = {t1, t2}
  Plain = {t1, t2}
  Interval = 2
  FlakyReads = {"reconcile"}
  ChangesPolled = FALSE
  MaxReboots = 1
INVARIANT EmptyNeverAssumed
