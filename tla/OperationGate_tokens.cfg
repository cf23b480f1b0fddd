SPECIFICATION Spec
CONSTANTS
  deploy = deploy
  edit = edit
  ban = ban
  shop = shop
  i1 = i1
  i2 = i2
  t1 = t1
  t2 = t2
  r1 = r1
  r2 = r2
  NoId = NoId
  NoToken = NoToken
  NoPlan = NoPlan
  NoProject = NoProject
  Nobody = Nobody
  Ids = {i1, i2}
  Tokens = {t1, t2}
  Plans = {deploy}
  Projects = {}
  Requests = {r1, r2}
  Requesters = {cli}
  Deciders = {local, remote}
  ProjectOf <- MCGlobalPlan
  DeniedPlans = {}
  ToggledPlans = {}
  ReviewedPlans = {deploy}
  ApprovalTTL = 2
  TokenTTL = 1
  GraceTTL = 1
  Limit = 1
  Floor = 0
  MaxTime = 3
SYMMETRY GateSymmetry
INVARIANTS
  TypeOK
  OneExecutionPerApproval
  NoDuplicatePending
PROPERTIES
  ApprovedSurvives
