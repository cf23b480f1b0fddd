SPECIFICATION ShownSpec
CONSTANTS
  LastLink = 1
  Watchers = {w1, w2}
  MaxDeps = 0
  OutCap = 1
  DoneCap = 2
  MaxFlaps = 2
  NoWatcher = NoWatcher
  Subs = {s1}
  SubCap = 1
  Prompt = TRUE
  NoNode = NoNode
  MaxChanges = 0
PROPERTY DeadHostShown
CHECK_DEADLOCK FALSE
