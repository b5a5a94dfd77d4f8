\* The strategy also submits in the handler of an ACCEPTED event.
SPECIFICATION Spec
CONSTANTS
  Orders = {o1, o2}
  Adopted = {}
  Unknown = Unknown
  Quantities = {1}
  SubmitsIn <- EverySite
  MaxTrades = 1
  MaxFailures = 0
INVARIANTS
  NoTransitionRefused
CHECK_DEADLOCK FALSE
