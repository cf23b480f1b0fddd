SPECIFICATION Spec
CONSTANTS
  l1 = l1  l2 = l2  l3 = l3
  Leases = {l1,l2}
  Wants <- WantsRedisOnly
  Clients = {c1,c2}
  Slots = {1}
  Quota = 3
  TTLs = {3}
  DefaultTTL = 2
  MaxLife = 9
  MaxTries = 2
  Faults = {}
  Actors = {}
  MaxTime = 3
  MaxCrashes = 0
  Dry = Dry  Reaper = Reaper  Empty = Empty  User = User  None = None
CHECK_DEADLOCK FALSE
PROPERTY TenantKeysKept
