SPECIFICATION Spec
CONSTANTS
  Hosts = {1}
  Deployments = {1}
  Ports = {1}
  Programs = {x}
  Agent = Agent
  NoOne = NoOne
  Cooldown = 1
  SubBuffer = 1
  Events = {"switch", "projects", "retry", "stop", "programs", "unreadable"}
INVARIANT NoForwardPastItsService
CHECK_DEADLOCK FALSE
