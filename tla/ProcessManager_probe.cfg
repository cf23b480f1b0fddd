SPECIFICATION FairSpec
CONSTANTS
  Calls = {c1}
  Kinds = {"start", "stop", "restart"}
  MaxBusy = 1
  Probes = {TRUE}
  NoOne = NoOne
PROPERTIES NeverStuckStarting DeadIsForgotten
CHECK_DEADLOCK FALSE
