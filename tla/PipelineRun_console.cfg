SPECIFICATION FairSpec
CONSTANTS
  make = make
  push = push
  swap = swap
  check = check
  clean = clean
  Steps = {make, push, clean, check}
  Declared <- ShortDeclared
  Pipelines <- Short
  Viewers = {v1}
  Buffer = 2
  MaxTasks = 3
  MaxLogs = 2
  MaxFaults = 1
CHECK_DEADLOCK FALSE
INVARIANTS
  NoGapBeforeDone
PROPERTIES
  JoinedConsoleEnds
