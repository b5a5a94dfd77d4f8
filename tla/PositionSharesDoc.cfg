\* The strategy also acts in onOrderUpdated: a canceled exit hides a fill.
SPECIFICATION Spec
CONSTANTS
  MaxPositions = 1
  MaxOrders = 3
  Quantity = 2
  Sides <- LongOnly
  ActsIn <- EveryCallback
INVARIANTS
  SharesMatchOrders
CHECK_DEADLOCK FALSE
