SPECIFICATION FairSpec
CONSTANTS
  Calls = {c1, c2}
  Kinds = {"open", "start", "resolve"}
  MaxBusy = 1
  Faults = {"early", "link", "hang", "flood"}
  None = None
CHECK_DEADLOCK FALSE
INVARIANTS NoAdapterLeak ClosedOnce
PROPERTY EndedIsRetired
