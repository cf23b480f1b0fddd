SPECIFICATION Spec
CONSTANTS
  Calls = {c1, c2}
  Kinds = {"start", "stop", "restart"}
  MaxBusy = 2
  Probes = {FALSE}
  NoOne = NoOne
INVARIANT NothingIsLost
CHECK_DEADLOCK FALSE
