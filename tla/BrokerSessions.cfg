\* Intraday bars, two to a session: expiry, partial fills that go on in the
\* next session, and handlers that submit and cancel in the middle of onBars.
\* The strategy trades any orders, or limit orders with the broker of Bitstamp.
SPECIFICATION SessionsSpec
CONSTANTS
  Instruments = {"x"}
  Bars <- SessionBars
  NoBar = NoBar
  Tickets <- SessionTickets
  NoTicket = NoTicket
  MaxOrders = 2
  MaxBars = 4
  BarsPerDay = 2
  Frequency = "INTRADAY"
  InitialCash = 1000
  InitialShares <- CoinShares
  AllowNegativeCash = FALSE
  CommissionModel = "TradePercentage"
  CommissionAmount = 10
  VolumeLimit = 100
  BtcSymbol = "x"
  MinTradeUSD = 3
  Requests <- TheRequests
INVARIANTS
  NoLookAhead
  ExecutedInSession
  BitstampChecksHold
PROPERTIES
  FilledOncePerBar
CHECK_DEADLOCK FALSE
