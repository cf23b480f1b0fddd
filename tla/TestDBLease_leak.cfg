SPECIFICATION Spec
CONSTANTS
  l1 = l1  l2 = l2  l3 = l3
  Leases = {l1}
  Wants <- WantsPostgresOnly
  Clients = {c1}
  Slots = {1}
  Quota = 3
  TTLs = {2}
  DefaultTTL = 2
  MaxLife = 9
  MaxTries = 2
  Faults = {"store"}
  Actors = {}
  MaxTime = 3
  MaxCrashes = 0
  Dry = Dry  Reaper = Reaper  Empty = Empty  User = User  None = None
CHECK_DEADLOCK FALSE
INVARIANT EveryRowGivenUp
