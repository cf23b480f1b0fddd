SPECIFICATION FairSpec
CONSTANTS
  make = make
  push = push
  swap = swap
  check = check
  clean = clean
  Steps = {make, push, swap, check, clean}
  Declared <- MCDeclared
  Pipelines <- MCPipelines
  Viewers = {}
  Buffer = 1
  MaxTasks = 3
  MaxLogs = 0
  MaxFaults = 2
CHECK_DEADLOCK FALSE
INVARIANTS
  PlanCorrect
  DeployNeedsArtifact
  FailureContained
  VerdictTrue
  FinallyRuns
PROPERTIES
  ImplementsDeploymentRun
  AcceptedRunSettles
