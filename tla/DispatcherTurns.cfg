\* A stored or live bar feed, a feed of other values and a resampled feed.
SPECIFICATION Spec
CONSTANTS
  Instruments = {"x", "y"}
  MaxTime = 4
  Frequency = 2
  OtherValues <- MCOtherValues
  Modes = {TRUE, FALSE}
INVARIANTS
  DispatchedInOrder
  GroupsPartition
PROPERTIES
  Ends
\* The run ends.
CHECK_DEADLOCK FALSE
