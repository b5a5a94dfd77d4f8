\* An order left from an earlier session and a new one, with a call that fails.
SPECIFICATION Spec
CONSTANTS
  Orders = {old, o1}
  Adopted = {old}
  Unknown = Unknown
  Quantities = {2}
  SubmitsIn <- OnFills
  MaxTrades = 2
  MaxFailures = 1
INVARIANTS
  EachTradeOnce
  RemainingAccountedFor
PROPERTIES
  ImplementsLifecycle
  StopsForGood
  TradesReported
\* The run ends.
CHECK_DEADLOCK FALSE
