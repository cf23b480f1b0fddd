SPECIFICATION FairSpec
CONSTANTS
  Calls = {c1, c2}
  Kinds = {"open", "start", "resolve"}
  MaxBusy = 1
  Faults = {"early"}
  None = None
CHECK_DEADLOCK FALSE
PROPERTY DeadIsRetired
