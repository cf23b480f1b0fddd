SPECIFICATION Spec
CONSTANTS
  Deployments = {1, 2}
  Sources = {app}
  Absent = Absent
  Nothing = Nothing
  Handlers = {h1, h2}
  MaxEdits = 1
  MaxFaults = 1
  Kinds = {"timeout"}
INVARIANT ListsAgree
