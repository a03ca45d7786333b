SPECIFICATION StartupSpec
CONSTANTS
  Optional = {}
  MaxStarts = 1
  MaxEdits = 0
INVARIANT ComparesWithBroker
CHECK_DEADLOCK FALSE
