SPECIFICATION FairSpec
CONSTANTS
  Hosts = {1}
  Deployments = {1, 2}
  Ports = {1}
  Programs = {x}
  Agent = Agent
  NoOne = NoOne
  Cooldown = 1
  SubBuffer = 0
  Events = {"outage", "programs", "close", "unconfigured", "hang"}
INVARIANT ForwardsOwned
PROPERTY Converges
CHECK_DEADLOCK FALSE
