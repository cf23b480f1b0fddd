SPECIFICATION FairSpec
CONSTANTS
  Deployments = {1}
  Sources = {app}
  Absent = Absent
  Nothing = Nothing
  Handlers = {h1, h2}
  MaxEdits = 2
  MaxFaults = 1
  Kinds = {"unreachable"}
PROPERTY EmptiedHostCleared
