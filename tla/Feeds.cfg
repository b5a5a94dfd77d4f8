\* Two faults among: a failed connection, a failed ping, a connection closed by the
\* server and a network that goes silent; and a queue of tweets beyond the limit.
SPECIFICATION FeedsSpec
CONSTANTS
  MaxInactivity = 2
  ResponseTimeout = 1
  Reconnect = TRUE
  MaxTrades = 2
  MaxFaults = 2
  MaxEvents = 2
  MaxEventsPerDispatch = 2
  MaxTweets = 5
  Names = {"i", "j"}
  Formats = {"generic", "yahoo", "google", "ninjatrader", "bitcoincharts", "sqlite"}
  Zones = {NoZone, "UTC", "Eastern"}
  NoZone = NoZone
  NoFilter = NoFilter
  DayLength = 2
  DailyBarTime = 1
  Second = 8
  Files <- TheFiles
  Filters <- TheFilters
  Offset <- TheOffset
  MaxLoads = 2
  Columns <- TheColumns
  TimeDelta = 1
  MaxResets = 1
INVARIANTS
  TradesInOrder
  SilenceBounded
  TweetsInOrder
  LoadedOnceInOrder
PROPERTIES
  NoFalseAlarm
  Recovers
\* The run ends.
CHECK_DEADLOCK FALSE
