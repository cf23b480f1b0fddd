SPECIFICATION Spec
CONSTANTS
  Calls = {c1, c2}
  Kinds = {"open", "start", "resolve"}
  MaxBusy = 2
  Faults = {}
  None = None
CHECK_DEADLOCK FALSE
INVARIANT NothingIsLeft
