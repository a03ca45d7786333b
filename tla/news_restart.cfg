SPECIFICATION NewsFeedSpec
CONSTANTS
  Callers = {k1, k2}
  CalendarTtl = 2
  NewsTtl = 1
  MinInterval = 1
  RetryAfters = {2}
  MaxClock = 2
  MaxFeedBoots = 0
PROPERTIES SavedCalendarStays
CHECK_DEADLOCK FALSE
