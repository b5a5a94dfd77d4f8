\* Three trades in a row, without faults: two bars get the same datetime.
SPECIFICATION FeedsSpec
CONSTANTS
  MaxInactivity = 2
  ResponseTimeout = 1
  Reconnect = TRUE
  MaxTrades = 3
  MaxFaults = 0
  MaxEvents = 3
  MaxEventsPerDispatch = 2
  MaxTweets = 3
  Names = {"i", "j"}
  Formats = {"generic"}
  Zones = {NoZone, "UTC", "Eastern"}
  NoZone = NoZone
  NoFilter = NoFilter
  DayLength = 2
  DailyBarTime = 1
  Second = 8
  Files <- TheFiles
  Filters <- TheFilters
  Offset <- TheOffset
  MaxLoads = 0
  Columns <- TheColumns
  TimeDelta = 1
  MaxResets = 0
INVARIANTS
  MovedForward
CHECK_DEADLOCK FALSE
