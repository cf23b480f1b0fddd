SPECIFICATION FairSpec
CONSTANTS
  LastLink = 1
  Watchers = {w1, w2}
  MaxDeps = 1
  OutCap = 1
  DoneCap = 4
  MaxFlaps = 1
  NoWatcher = NoWatcher
  Subs = {}
  SubCap = 1
  Prompt = TRUE
  NoNode = NoNode
  MaxChanges = 1
PROPERTIES ServicesKept HeadPreferred LiveHostReported DeadHostMarked
CHECK_DEADLOCK FALSE
