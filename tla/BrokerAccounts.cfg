\* Daily bars on two instruments, thin volume, little cash, a fixed commission.
SPECIFICATION Spec
CONSTANTS
  Instruments = {"x", "y"}
  Bars <- AccountBars
  NoBar = NoBar
  Tickets <- AccountTickets
  NoTicket = NoTicket
  MaxOrders = 3
  MaxBars = 2
  BarsPerDay = 1
  Frequency = "DAY"
  InitialCash = 1000
  InitialShares <- MCInitialShares
  AllowNegativeCash = FALSE
  CommissionModel = "FixedPerTrade"
  CommissionAmount = 150
  VolumeLimit = 50
INVARIANTS
  TypeOK
  RegistryConsistent
  DayOrdersEndWithBar
  CashNeverNegative
  AccountsMatchOrders
PROPERTIES
  ImplementsLifecycle
\* The feed ends after MaxBars and the strategy need not trade.
CHECK_DEADLOCK FALSE
