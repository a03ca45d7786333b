SPECIFICATION DeskSpec
CONSTANTS
  Symbols = {s1, s2}
  PrimaryChats = {c1}
  SignalChats = {}
  Levels = {"sl"}
  MaxTickets = 1
  MaxRecords = 2
  MaxItems = 3
  MaxOrphans = 2
  MaxUpdates = 4
  MaxNoticeBoots = 1
  Optional = {"poller"}
  MaxStarts = 2
  MaxEdits = 1
  Callers = {k1, k2}
  CalendarTtl = 1
  NewsTtl = 1
  MinInterval = 1
  RetryAfters = {2}
  MaxClock = 2
  MaxFeedBoots = 1
  Primaries = {"XAUUSD"}
  Fallbacks = {}
  FeedTypes = {"TREND", "DOJI"}
  MaxSize = 2
  MaxPerPass = 0
  Backpressure = TRUE
  MaxEvents = 4
INVARIANTS OneMessagePerSignal NoCommandLost CapsAreOperators NoLostWake
PROPERTIES QueuedIsFlushed  QueueDrains
CHECK_DEADLOCK FALSE
