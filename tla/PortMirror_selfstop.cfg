SPECIFICATION Spec
CONSTANTS
  Hosts = {1, 2}
  Deployments = {1}
  Ports = {1}
  Programs = {x}
  Agent = Agent
  NoOne = NoOne
  Cooldown = 1
  SubBuffer = 0
  Events = {"stop", "programs"}
PROPERTY NeverStopsItself
CHECK_DEADLOCK FALSE
