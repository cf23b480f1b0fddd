SPECIFICATION FairSpec
CONSTANTS
  Deployments = {1, 2}
  Sources = {app}
  Absent = Absent
  Nothing = Nothing
  Handlers = {h1, h2}
  MaxEdits = 2
  MaxFaults = 2
  Kinds = {"unreachable", "timeout", "restart", "unreadable", "probe", "spawn", "save", "exit"}
INVARIANT ConfirmedSurvives
PROPERTY ListsConverge
