\* Every order type against bars that open below, in and above its prices;
\* every bar is a session of its own.
SPECIFICATION Spec
CONSTANTS
  Instruments = {"x"}
  Bars <- PriceBars
  NoBar = NoBar
  Tickets <- PriceTickets
  NoTicket = NoTicket
  MaxOrders = 1
  MaxBars = 2
  BarsPerDay = 1
  Frequency = "INTRADAY"
  InitialCash = 1000
  InitialShares <- MCInitialShares
  AllowNegativeCash = TRUE
  CommissionModel = "NoCommission"
  CommissionAmount = 0
  VolumeLimit = 50
INVARIANTS
  FillsHonourBarAndLimit
CHECK_DEADLOCK FALSE
