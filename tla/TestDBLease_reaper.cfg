SPECIFICATION FairSpec
CONSTANTS
  l1 = l1  l2 = l2  l3 = l3
  Leases = {l1}
  Wants <- WantsBoth
  Clients = {}
  Slots = {1}
  Quota = 3
  TTLs = {1}
  DefaultTTL = 1
  MaxLife = 9
  MaxTries = 2
  Faults = {"provision","reclaim","datasource","store"}
  Actors = {"reaper","dryrun","renew"}
  MaxTime = 2
  MaxCrashes = 1
  Dry = Dry  Reaper = Reaper  Empty = Empty  User = User  None = None
CHECK_DEADLOCK FALSE
INVARIANT NoStrandedRow
PROPERTY DatabasesReclaimed
