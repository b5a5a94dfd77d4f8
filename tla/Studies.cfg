\* Five bars of four shapes for the indicators, with gaps, and two of the other
\* instrument; three executions over three bars; four changes of the handlers.
SPECIFICATION StudiesSpec
CONSTANTS
  First = First
  Second = Second
  Bars <- BarsOf
  EventOccurred <- NotFalling
  LookBack = 1
  LookForward = 2
  Period = 2
  LongPeriod = 3
  Weights <- TheWeights
  Frequency = 3
  MaxLen = 3
  MaxTime <- MaxTimeOf
  Fills <- TheFills
  Prices <- ThePrices
  InitialCash = 4
  Traded <- Instruments
  ReturnsMaxLen = 3
  BarsPerDay = 2
  MaxFills = 3
  MaxBars = 3
  Handlers = {"f", "g"}
  MaxDepth = 2
  MaxChanges = 4
INVARIANTS
  IndicatorsAgree
  PriceWithinLines
  DerivedSeriesAgree
  EventsKeepTheirReturns
  AnalyzersAgree
  ChangesTakeEffect
\* The bars end.
CHECK_DEADLOCK FALSE
