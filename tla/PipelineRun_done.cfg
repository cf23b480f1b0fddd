SPECIFICATION Spec
CONSTANTS
  make = make
  push = push
  swap = swap
  check = check
  clean = clean
  Steps = {make, push, clean, check}
  Declared <- ShortDeclared
  Pipelines <- Short
  Viewers = {v1}
  Buffer = 2
  MaxTasks = 3
  MaxLogs = 1
  MaxFaults = 0
CHECK_DEADLOCK FALSE
INVARIANTS
  DoneIsComplete
