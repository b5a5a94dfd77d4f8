\* Backtesting: the strategy acts in every callback about positions.
SPECIFICATION Spec
CONSTANTS
  MaxPositions = 2
  MaxOrders = 5
  Quantity = 2
  Sides <- BothSides
  ActsIn <- PositionCallbacks
INVARIANTS
  NoAssertionFails
  SharesMatchOrders
  StateMatchesOrders
  CallbacksInOrder
\* No orders are left to submit and none to execute.
CHECK_DEADLOCK FALSE
