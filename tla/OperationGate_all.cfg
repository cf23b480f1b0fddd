SPECIFICATION Spec
CONSTANTS
  deploy = deploy
  edit = edit
  ban = ban
  shop = shop
  i1 = i1
  i2 = i2
  t1 = t1
  t2 = t2
  r1 = r1
  r2 = r2
  NoId = NoId
  NoToken = NoToken
  NoPlan = NoPlan
  NoProject = NoProject
  Nobody = Nobody
  Ids = {i1, i2}
  Tokens = {t1, t2}
  Plans = {deploy, edit, ban}
  Projects = {shop}
  Requests = {r1, r2}
  Requesters = {cli}
  Deciders = {local}
  ProjectOf <- MCOneProject
  DeniedPlans = {ban}
  ToggledPlans = {edit, ban}
  ReviewedPlans = {deploy}
  ApprovalTTL = 1
  TokenTTL = 0
  GraceTTL = 1
  Limit = 1
  Floor = 0
  MaxTime = 1
SYMMETRY GateSymmetry
INVARIANTS
  TypeOK
  OneExecutionPerApproval
  NoDuplicatePending
  AuthorizationSound
PROPERTIES
  ApprovedSurvives
