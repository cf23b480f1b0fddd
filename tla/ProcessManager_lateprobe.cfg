SPECIFICATION Spec
CONSTANTS
  Calls = {c1, c2}
  Kinds = {"start", "stop", "restart"}
  MaxBusy = 1
  Probes = {TRUE}
  NoOne = NoOne
INVARIANT StopStaysStopped
CHECK_DEADLOCK FALSE
