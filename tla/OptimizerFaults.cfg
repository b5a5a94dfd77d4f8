\* Python 2 and 3, runs that fail, a lost request or reply and repeated calls.  Either
\* thread stops the server: the one of local.run_impl, or AutoStopThread.
SPECIFICATION Spec
CONSTANTS
  Workers = {w1, w2, w3}
  Nobody = Nobody
  NumParams = 5
  BatchSize = 2
  Ids = {1, 2, 3}
  ResultOf <- MixedResults
  None = None
  Pythons = {2, 3}
  StopModes = {TRUE, FALSE}
  MaxAttempts = 2
  MaxFaults = 1
INVARIANTS
  ResultIsBest
  NoWorkLost
PROPERTIES
  NoJobInterrupted
  Completes
\* The optimization ends.
CHECK_DEADLOCK FALSE
