SPECIFICATION FairSpec
CONSTANTS
  LastLink = 1
  Watchers = {w1, w2}
  MaxDeps = 0
  OutCap = 1
  DoneCap = 1
  MaxFlaps = 2
  NoWatcher = NoWatcher
  Subs = {}
  SubCap = 1
  Prompt = TRUE
  NoNode = NoNode
  MaxChanges = 0
PROPERTY LiveHostReported
CHECK_DEADLOCK FALSE
