---------------------------- MODULE TestDBLease ----------------------------
(***************************************************************************)
(* Leases on throw-away test databases: the lease manager                  *)
(* (agent/dbprovision/lease.go), its background reaper (reaper.go), the    *)
(* PostgreSQL and Redis provisioners (postgres.go, redis.go) and the       *)
(* SQLite registry behind them (agent/store/provision.go).                 *)
(*                                                                         *)
(* The manager has no lock.  An SQL statement is atomic, a provisioner     *)
(* call is atomic, and everything between two of them interleaves: each    *)
(* Acquire, each Release, the reaper and a dry run are processes.  The     *)
(* registry and the servers survive a crash of the agent, the processes    *)
(* do not.                                                                 *)
(*                                                                         *)
(* One Acquire call mints one lease id, so leases name their Acquire.      *)
(* A PostgreSQL resource carries a fresh random name and is named by its   *)
(* lease; a Redis resource is a db number (a slot), chosen as the lowest   *)
(* one that has no keys and no row in the registry.                        *)
(***************************************************************************)
EXTENDS Naturals, FiniteSets, Sequences, FiniteSetsExt

CONSTANTS
  Leases,     \* lease ids: one per Acquire call
  Clients,    \* callers of Release (DELETE /api/test-databases/{id})
  Slots,      \* Redis db numbers above db0
  Wants,      \* [Leases -> Seq(Kinds)]: the kinds an Acquire asks for, in order
  Quota,      \* MaxConcurrentLeases of the project
  TTLs,       \* TTLs a request may carry
  DefaultTTL, \* bindingTTL: caps a renewal
  MaxLife,    \* absoluteLeaseLifetime
  MaxTries,   \* maxSlotRetries
  Faults,     \* which failures happen: see FaultKinds
  Actors,     \* which of "reaper", "dryrun", "user", "renew" are present
  MaxTime,    \* bound: the clock stops here, and no TTL reaches past it
  MaxCrashes, \* bound: crashes of the agent
  Dry, Reaper, Empty, User, None

Kinds == {"postgres", "redis"}
FaultKinds == {"provision", "reclaim", "datasource", "store"}

ASSUME LeaseConstants ==
  /\ Wants \in [Leases -> Seq(Kinds)]
  /\ \A l \in Leases : Len(Wants[l]) > 0
  /\ \A l \in Leases : \A i, j \in DOMAIN Wants[l] :    \* selectedKinds drops repetitions
       Wants[l][i] = Wants[l][j] => i = j
  /\ Slots \subseteq Nat \ {0} /\ IsFiniteSet(Slots)
  /\ TTLs \subseteq Nat \ {0}
  /\ Quota \in Nat /\ DefaultTTL \in Nat /\ MaxLife \in Nat /\ MaxTries \in Nat
  /\ MaxTime \in Nat /\ MaxCrashes \in Nat
  /\ Faults \subseteq FaultKinds
  /\ Dry \notin Leases /\ None \notin Leases \cup Kinds
  /\ Empty \notin Leases /\ User \notin Leases /\ Empty # User
  /\ Reaper \notin Clients

VARIABLES
  now,       \* the clock
  crashes,   \* crashes so far
  lease,     \* provision_leases: status, created_at, expires_at
  rows,      \* provision_resources: status of the row of each lease and kind
  slot,      \* the db number planned for, then registered with, a lease's Redis row
  databases, \* PostgreSQL: names of the sdev_eph_ databases that exist
  redis,     \* Redis: whose keys each db holds
  acq,       \* the Acquire calls
  rel,       \* the Release calls: one per client, and the reaper's
  reap,      \* the reaper's Reconcile round
  dry,       \* a dry run
  ended,     \* history: leases some Release has set out to reclaim
  kept       \* history: rows (and with None leases) whose closing was not recorded, or
             \* whose Acquire was still under way when somebody released its lease

registry == <<lease, rows, slot>>
servers == <<databases, redis>>
procs == <<acq, rel, reap, dry>>
vars == <<now, crashes, registry, servers, procs, ended, kept>>

AcqSteps == {"idle", "plan", "insert", "reserve", "provision", "activate",
             "rollback", "close", "held", "failed", "dead"}

LeaseRow == [status : {"none", "active", "released"}, created : Nat, expires : Nat]
AcqState == [pc : AcqSteps, step : Nat, tries : Nat, at : Nat]
RelState == [lease : Leases \cup {None}, todo : SUBSET Kinds, at : Kinds \cup {None}]
Releasers == Clients \cup {Reaper}

TypeOK ==
  /\ now \in 0..MaxTime /\ crashes \in 0..MaxCrashes
  /\ lease \in [Leases -> LeaseRow]
  /\ rows \in [Leases -> [Kinds -> {"none", "creating", "active", "reclaimed"}]]
  /\ slot \in [Leases -> Slots \cup {0}]
  /\ databases \subseteq Leases \cup {Dry}
  /\ redis \in [Slots -> Leases \cup {Empty, User}]
  /\ acq \in [Leases -> AcqState]
  /\ rel \in [Releasers -> RelState]
  /\ reap \in [pc : {"idle", "expire", "list", "sweep"}, work : SUBSET (Leases \cup {Dry})]
  /\ dry \in [pc : {"idle", "planned", "postgres", "redis"}, slot : Slots \cup {0}]
  /\ ended \subseteq Leases
  /\ kept \subseteq Leases \X (Kinds \cup {None})

-----------------------------------------------------------------------------
(* The registry.                                                           *)

\* status <> 'reclaimed': what the partial unique index and the hints look at.
Registered(l, k) == rows[l][k] \in {"creating", "active"}

\* Mistake: the unique index covers finished rows only.
ActiveRowsOnly(l) ==
  \A m \in Leases \ {l} : ~(rows[m]["redis"] = "active" /\ slot[m] = slot[l])

\* Mistake: no index at all.
NoIndex(l) == TRUE

\* idx_provision_resources_slot: no other unreclaimed row has this db number.
SlotUnclaimed(l) ==
  \A m \in Leases \ {l} : ~(Registered(m, "redis") /\ slot[m] = slot[l])

CountActiveLeases == Cardinality({l \in Leases : lease[l].status = "active"})
ListExpiredLeases ==
  {l \in Leases : lease[l].status = "active" /\ lease[l].expires <= now}
ListActiveResourceNames == {slot[l] : l \in {m \in Leases : Registered(m, "redis")}}

\* Mistake: a reclaimed row still hides its database from the sweep.
EveryRowEver == {l \in Leases : rows[l]["postgres"] # "none"}
ListAllActiveResources == {l \in Leases : Registered(l, "postgres")}

SetRow(l, k, status) == rows' = [rows EXCEPT ![l][k] = status]

\* Mistake: the row of a failed provision is left behind.
RowLeftBehind(l, k) == UNCHANGED <<rows, kept>>

\* The statements that close a row and a lease; nobody tries again when they fail.
MarkResourceReclaimed(l, k) ==
  \/ SetRow(l, k, "reclaimed") /\ UNCHANGED kept
  \/ "store" \in Faults /\ UNCHANGED rows /\ kept' = kept \cup {<<l, k>>}

MarkLeaseReleased(l) ==
  \/ lease' = [lease EXCEPT ![l].status = "released"] /\ UNCHANGED kept
  \/ "store" \in Faults /\ UNCHANGED lease /\ kept' = kept \cup {<<l, None>>}

(* The provisioners.                                                       *)

freeDBIndexes ==
  {s \in Slots : redis[s] = Empty /\ s \notin ListActiveResourceNames}

\* Mistake: the planned db is trusted to be still empty.
TrustPlan(s) == TRUE

\* RedisProvisioner.Provision looks at DBSIZE again.
StillEmpty(s) == redis[s] = Empty

DropDatabase(n) == databases' = databases \ {n} /\ UNCHANGED redis
FlushDB(s) == redis' = [redis EXCEPT ![s] = Empty] /\ UNCHANGED databases

ReclaimOf(l, k) == IF k = "postgres" THEN DropDatabase(l) ELSE FlushDB(slot[l])

\* A provisioner's Reclaim: done, or failed and only logged.
Reclaim(l, k) ==
  \/ ReclaimOf(l, k)
  \/ "reclaim" \in Faults /\ UNCHANGED servers

-----------------------------------------------------------------------------
Init ==
  /\ now = 0 /\ crashes = 0
  /\ lease = [l \in Leases |-> [status |-> "none", created |-> 0, expires |-> 0]]
  /\ rows = [l \in Leases |-> [k \in Kinds |-> "none"]]
  /\ slot = [l \in Leases |-> 0]
  /\ databases = {}
  /\ redis = [s \in Slots |-> Empty]
  /\ acq = [l \in Leases |-> [pc |-> "idle", step |-> 1, tries |-> 1, at |-> 0]]
  /\ rel = [c \in Releasers |-> [lease |-> None, todo |-> {}, at |-> None]]
  /\ reap = [pc |-> "idle", work |-> {}]
  /\ dry = [pc |-> "idle", slot |-> 0]
  /\ ended = {} /\ kept = {}

-----------------------------------------------------------------------------
(* Acquire.                                                                *)

GoTo(l, pc) == acq' = [acq EXCEPT ![l].pc = pc]
Current(l) == Wants[l][acq[l].step]
WantsRedis(l) == \E i \in DOMAIN Wants[l] : Wants[l][i] = "redis"

\* The quota check reads the registry; nothing is reserved by it.
CheckQuota(l) ==
  /\ acq[l].pc = "idle"
  /\ acq' = [acq EXCEPT ![l].pc = IF CountActiveLeases < Quota THEN "plan" ELSE "failed",
                        ![l].at = now]
  /\ UNCHANGED <<now, crashes, registry, servers, rel, reap, dry, ended, kept>>

\* planResource picks the lowest free db number.
PickSlot(l) == freeDBIndexes # {} /\ slot' = [slot EXCEPT ![l] = Min(freeDBIndexes)]

\* planResource for every kind; it only reads.
PlanAll(l) ==
  /\ acq[l].pc = "plan"
  /\ IF ~WantsRedis(l) THEN GoTo(l, "insert") /\ UNCHANGED slot
     ELSE \/ PickSlot(l) /\ GoTo(l, "insert")
          \/ freeDBIndexes = {} /\ GoTo(l, "failed") /\ UNCHANGED slot
  /\ UNCHANGED <<now, crashes, lease, rows, servers, rel, reap, dry, ended, kept>>

\* The approval gate passes and InsertLease succeeds.
InsertLease(l) ==
  /\ acq[l].pc = "insert"
  /\ \E ttl \in TTLs :
       /\ acq[l].at + ttl <= MaxTime
       /\ lease' = [lease EXCEPT ![l] = [status |-> "active", created |-> acq[l].at,
                                         expires |-> acq[l].at + ttl]]
  /\ GoTo(l, "reserve")
  /\ UNCHANGED <<now, crashes, rows, slot, servers, rel, reap, dry, ended, kept>>

\* The gate refuses, wants an approval first, or the lease cannot be stored:
\* nothing has been created.
Refuse(l) ==
  /\ acq[l].pc = "insert"
  /\ GoTo(l, "failed")
  /\ UNCHANGED <<now, crashes, registry, servers, rel, reap, dry, ended, kept>>

\* InsertResource registers the resource before it is created; a taken slot is
\* planned again, MaxTries times in all.
InsertResource(l) ==
  /\ acq[l].pc = "reserve"
  /\ \/ /\ Current(l) # "redis" \/ SlotUnclaimed(l)
        /\ SetRow(l, Current(l), "creating")
        /\ GoTo(l, "provision")
        /\ UNCHANGED slot
     \/ /\ ~(Current(l) # "redis" \/ SlotUnclaimed(l))
        /\ acq[l].tries < MaxTries /\ PickSlot(l)
        /\ acq' = [acq EXCEPT ![l].tries = @ + 1]
        /\ UNCHANGED rows
     \/ /\ \/ /\ ~(Current(l) # "redis" \/ SlotUnclaimed(l))
              /\ acq[l].tries = MaxTries \/ freeDBIndexes = {}
           \/ "store" \in Faults
        /\ GoTo(l, "rollback")
        /\ UNCHANGED <<rows, slot>>
  /\ UNCHANGED <<now, crashes, lease, servers, rel, reap, dry, ended, kept>>

\* Provision succeeds: the clone exists, or the db was still empty.
Provision(l) ==
  /\ acq[l].pc = "provision"
  /\ Current(l) = "redis" => StillEmpty(slot[l])
  /\ databases' = IF Current(l) = "postgres" THEN databases \cup {l} ELSE databases
  /\ GoTo(l, "activate")
  /\ UNCHANGED <<now, crashes, registry, redis, rel, reap, dry, ended, kept>>

\* Provision fails: its row is given up.  PostgreSQL may fail with the
\* database created and its own cleanup failing too.
ProvisionFails(l) ==
  /\ acq[l].pc = "provision"
  /\ \/ Current(l) = "redis" /\ ~StillEmpty(slot[l]) /\ UNCHANGED databases
     \/ "provision" \in Faults /\ UNCHANGED databases
     \/ /\ "provision" \in Faults /\ Current(l) = "postgres"
        /\ databases' = databases \cup {l}
  /\ MarkResourceReclaimed(l, Current(l))
  /\ GoTo(l, "rollback")
  /\ UNCHANGED <<now, crashes, lease, slot, redis, rel, reap, dry, ended>>

\* MarkResourceActive does not look at the row's status: it also revives a row
\* a Release has marked reclaimed meanwhile, unless the slot has a new owner.
\* When it fails, the resource is reclaimed, whoever holds it now.
MarkResourceActive(l) ==
  /\ acq[l].pc = "activate"
  /\ \/ /\ Current(l) # "redis" \/ SlotUnclaimed(l)
        /\ SetRow(l, Current(l), "active")
        /\ acq' = [acq EXCEPT ![l].step = @ + 1,
                              ![l].pc = IF acq[l].step = Len(Wants[l])
                                          THEN "held" ELSE "reserve"]
        /\ UNCHANGED <<servers, kept>>
     \/ /\ ~(Current(l) # "redis" \/ SlotUnclaimed(l)) \/ "store" \in Faults
        /\ Reclaim(l, Current(l))
        /\ MarkResourceReclaimed(l, Current(l))
        /\ GoTo(l, "rollback")
  /\ UNCHANGED <<now, crashes, lease, slot, rel, reap, dry, ended>>

\* rollbackCreated: what earlier kinds got is reclaimed and given up.  With two
\* kinds there is at most one of those, so its order does not show.
rollbackCreated(l) ==
  /\ acq[l].pc = "rollback"
  /\ IF acq[l].step = 1
       THEN GoTo(l, "close") /\ UNCHANGED <<rows, servers, kept>>
       ELSE LET k == Wants[l][acq[l].step - 1] IN
            /\ Reclaim(l, k)
            /\ MarkResourceReclaimed(l, k)
            /\ acq' = [acq EXCEPT ![l].step = @ - 1]
  /\ UNCHANGED <<now, crashes, lease, slot, rel, reap, dry, ended>>

\* ... and the lease is closed.
CloseFailed(l) ==
  /\ acq[l].pc = "close"
  /\ MarkLeaseReleased(l)
  /\ GoTo(l, "failed")
  /\ UNCHANGED <<now, crashes, rows, slot, servers, rel, reap, dry, ended>>

Acquire(l) ==
  \/ CheckQuota(l) \/ PlanAll(l) \/ InsertLease(l) \/ Refuse(l)
  \/ InsertResource(l) \/ Provision(l) \/ ProvisionFails(l)
  \/ MarkResourceActive(l) \/ rollbackCreated(l) \/ CloseFailed(l)

Acquiring(l) == acq[l].pc \notin {"idle", "held", "failed", "dead"}

\* Renew: the age of the lease is checked, its new end is not.
Renew(l, ttl) ==
  /\ "renew" \in Actors
  /\ lease[l].status = "active"
  /\ now - lease[l].created <= MaxLife
  /\ LET granted == IF ttl > DefaultTTL THEN DefaultTTL ELSE ttl IN
       /\ now + granted <= MaxTime
       /\ lease' = [lease EXCEPT ![l].expires = now + granted]
  /\ UNCHANGED <<now, crashes, rows, slot, servers, procs, ended, kept>>

-----------------------------------------------------------------------------
(* Release: a snapshot of the rows, then each unreclaimed one in turn.     *)

\* A released lease reads as not found, which ends the call at once; one whose
\* Acquire is still under way does not.
BeginRelease(c, l) ==
  /\ rel[c].lease = None
  /\ lease[l].status = "active"
  /\ rel' = [rel EXCEPT ![c] = [lease |-> l, todo |-> {k \in Kinds : Registered(l, k)},
                                at |-> None]]
  /\ ended' = ended \cup {l}
  /\ kept' = IF Acquiring(l) THEN kept \cup ({l} \X Kinds) ELSE kept

\* Rows of one second have no order, so neither have the reclaims.
ReleaseReclaim(c, k) ==
  /\ k \in rel[c].todo /\ rel[c].at = None
  /\ Reclaim(rel[c].lease, k)
  /\ rel' = [rel EXCEPT ![c].at = k]
  /\ UNCHANGED <<now, crashes, registry, acq, reap, dry, ended, kept>>

\* The row is given up even when the reclaim failed.
ReleaseMark(c) ==
  /\ rel[c].at # None
  /\ MarkResourceReclaimed(rel[c].lease, rel[c].at)
  /\ rel' = [rel EXCEPT ![c].at = None, ![c].todo = @ \ {rel[c].at}]
  /\ UNCHANGED <<now, crashes, lease, slot, servers, acq, reap, dry, ended>>

\* The datasource was renamed or removed: the row is skipped.
ReleaseSkip(c, k) ==
  /\ "datasource" \in Faults
  /\ k \in rel[c].todo /\ rel[c].at = None
  /\ rel' = [rel EXCEPT ![c].todo = @ \ {k}]
  /\ kept' = kept \cup {<<rel[c].lease, k>>}
  /\ UNCHANGED <<now, crashes, registry, servers, acq, reap, dry, ended>>

EndRelease(c) ==
  /\ rel[c].lease # None /\ rel[c].todo = {}
  /\ MarkLeaseReleased(rel[c].lease)
  /\ rel' = [rel EXCEPT ![c].lease = None]
  /\ UNCHANGED <<now, crashes, rows, slot, servers, acq, reap, dry, ended>>

Releasing(c) ==
  \/ \E k \in Kinds : ReleaseReclaim(c, k) \/ ReleaseSkip(c, k)
  \/ ReleaseMark(c)
  \/ EndRelease(c)

ClientRelease(c, l) ==
  /\ BeginRelease(c, l)
  /\ UNCHANGED <<now, crashes, registry, servers, acq, reap, dry>>

-----------------------------------------------------------------------------
(* Reconcile, run by the reaper.                                           *)

ReapExpired ==
  /\ "reaper" \in Actors
  /\ reap.pc = "idle"
  /\ reap' = [pc |-> "expire", work |-> ListExpiredLeases]
  /\ UNCHANGED <<now, crashes, registry, servers, acq, rel, dry, ended, kept>>

\* Each listed lease is released, whatever became of it since the listing.
ReapLease(l) ==
  /\ reap.pc = "expire" /\ l \in reap.work /\ rel[Reaper].lease = None
  /\ reap' = [reap EXCEPT !.work = @ \ {l}]
  /\ \/ BeginRelease(Reaper, l)
     \/ lease[l].status = "released" /\ UNCHANGED <<rel, ended, kept>>
  /\ UNCHANGED <<now, crashes, registry, servers, acq, dry>>

\* The registry is read ...
ReapKnown ==
  /\ reap.pc = "expire" /\ reap.work = {} /\ rel[Reaper].lease = None
  /\ reap' = [pc |-> "list", work |-> ListAllActiveResources]
  /\ UNCHANGED <<now, crashes, registry, servers, acq, rel, dry, ended, kept>>

\* ... and then the server: what it has beyond the reading is an orphan.
Reconcile ==
  /\ reap.pc = "list"
  /\ reap' = [pc |-> "sweep", work |-> databases \ reap.work]
  /\ UNCHANGED <<now, crashes, registry, servers, acq, rel, dry, ended, kept>>

SweepOrphan(n) ==
  /\ reap.pc = "sweep" /\ n \in reap.work
  /\ DropDatabase(n)
  /\ reap' = [reap EXCEPT !.work = @ \ {n}]
  /\ UNCHANGED <<now, crashes, registry, acq, rel, dry, ended, kept>>

SweepFails(n) ==
  /\ "reclaim" \in Faults
  /\ reap.pc = "sweep" /\ n \in reap.work
  /\ reap' = [reap EXCEPT !.work = @ \ {n}]
  /\ UNCHANGED <<now, crashes, registry, servers, acq, rel, dry, ended, kept>>

EndRound ==
  /\ reap.pc = "sweep" /\ reap.work = {}
  /\ reap' = [reap EXCEPT !.pc = "idle"]
  /\ UNCHANGED <<now, crashes, registry, servers, acq, rel, dry, ended, kept>>

-----------------------------------------------------------------------------
(* DryRun: the whole provisioning path without a row in the registry.      *)

DryPlan ==
  /\ "dryrun" \in Actors
  /\ dry.pc = "idle" /\ Dry \notin databases
  /\ freeDBIndexes # {}
  /\ dry' = [pc |-> "planned", slot |-> Min(freeDBIndexes)]
  /\ UNCHANGED <<now, crashes, registry, servers, acq, rel, reap, ended, kept>>

DryDatabase ==
  /\ dry.pc = "planned"
  /\ databases' = databases \cup {Dry}
  /\ dry' = [dry EXCEPT !.pc = "postgres"]
  /\ UNCHANGED <<now, crashes, registry, redis, acq, rel, reap, ended, kept>>

DrySlot ==
  /\ dry.pc = "postgres" /\ StillEmpty(dry.slot)
  /\ dry' = [dry EXCEPT !.pc = "redis"]
  /\ UNCHANGED <<now, crashes, registry, servers, acq, rel, reap, ended, kept>>

\* The deferred clean-up of what was created, in the order of creation.
DryReclaim ==
  /\ \/ dry.pc = "postgres" /\ ~StillEmpty(dry.slot) /\ UNCHANGED redis
     \/ dry.pc = "redis" /\ redis' = [redis EXCEPT ![dry.slot] = Empty]
  /\ \/ databases' = databases \ {Dry}
     \/ "reclaim" \in Faults /\ UNCHANGED databases
  /\ dry' = [pc |-> "idle", slot |-> 0]
  /\ UNCHANGED <<now, crashes, registry, acq, rel, reap, ended, kept>>

-----------------------------------------------------------------------------
(* The environment.                                                        *)

\* A client works in the db it was handed.
TenantWrites(l) ==
  /\ acq[l].pc = "held" /\ l \notin ended /\ WantsRedis(l)
  /\ redis[slot[l]] = Empty
  /\ redis' = [redis EXCEPT ![slot[l]] = l]
  /\ UNCHANGED <<now, crashes, registry, databases, procs, ended, kept>>

\* Somebody uses a db by hand; they keep out of the registered ones.
UserWrites(s) ==
  /\ "user" \in Actors
  /\ redis[s] = Empty /\ s \notin ListActiveResourceNames
  /\ redis' = [redis EXCEPT ![s] = User]
  /\ UNCHANGED <<now, crashes, registry, databases, procs, ended, kept>>

Tick ==
  /\ now < MaxTime
  /\ now' = now + 1
  /\ UNCHANGED <<crashes, registry, servers, procs, ended, kept>>

\* The agent dies with everything it was doing.
Crash ==
  /\ crashes < MaxCrashes
  /\ crashes' = crashes + 1
  /\ acq' = [l \in Leases |-> IF Acquiring(l) THEN [acq[l] EXCEPT !.pc = "dead"] ELSE acq[l]]
  /\ rel' = [c \in Releasers |-> [lease |-> None, todo |-> {}, at |-> None]]
  /\ reap' = [pc |-> "idle", work |-> {}]
  /\ dry' = [pc |-> "idle", slot |-> 0]
  /\ UNCHANGED <<now, registry, servers, ended, kept>>

Round ==
  \/ ReapExpired \/ ReapKnown \/ Reconcile \/ EndRound
  \/ \E l \in Leases : ReapLease(l)
  \/ \E n \in Leases \cup {Dry} : SweepOrphan(n) \/ SweepFails(n)

DryRun == DryPlan \/ DryDatabase \/ DrySlot \/ DryReclaim

Next ==
  \/ \E l \in Leases : Acquire(l) \/ TenantWrites(l)
  \/ \E l \in Leases, ttl \in TTLs : Renew(l, ttl)
  \/ \E c \in Clients, l \in Leases : ClientRelease(c, l)
  \/ \E c \in Releasers : Releasing(c)
  \/ Round
  \/ DryRun
  \/ \E s \in Slots : UserWrites(s)
  \/ Tick
  \/ Crash

\* The calls run to their end and the reaper's ticker keeps firing; a reclaim
\* that is tried again and again succeeds in the end.
Fairness ==
  /\ WF_vars(Tick)
  /\ WF_vars(Round)
  /\ WF_vars(DryRun)
  /\ \A l \in Leases : WF_vars(Acquire(l))
  /\ \A c \in Releasers : WF_vars(Releasing(c))
  /\ \A n \in Leases \cup {Dry} : SF_vars(SweepOrphan(n))

Spec == Init /\ [][Next]_vars
FairSpec == Spec /\ Fairness

-----------------------------------------------------------------------------
(* Properties.                                                             *)

Holds(l) == acq[l].pc = "held" /\ l \notin ended

\* What a client was handed by Acquire is its own until somebody releases the
\* lease: every row is active and no other client was handed the same Redis
\* db, however Acquires, replans, crashes and other Releases interleave
\* (lease.go:236-283 with the partial unique index, store.go:263-265).
HeldExclusively ==
  \A l \in Leases : Holds(l) =>
    /\ lease[l].status = "active"
    /\ \A i \in DOMAIN Wants[l] : rows[l][Wants[l][i]] = "active"
    /\ \A m \in Leases \ {l} :
         Holds(m) /\ WantsRedis(l) /\ WantsRedis(m) => slot[l] # slot[m]

\* Registry and servers cannot drift apart for good: a row that blocks a slot,
\* or hides a database from the orphan sweep, belongs to a lease some Release
\* will still visit.  The exceptions are known ones: the statement that gives
\* the row up failed or was never reached, or the lease was released under its
\* own Acquire (lease.go:231-238, 240-283, 330-372).
NoStrandedRow ==
  \A l \in Leases :
    /\ lease[l].status = "released" \/ acq[l].pc = "failed" =>
         \A k \in Kinds : Registered(l, k) => <<l, k>> \in kept
    /\ acq[l].pc = "failed" /\ lease[l].status = "active" => <<l, None>> \in kept

(* The clean-ups that may meet data which is not their lease's.            *)

\* A Release works from a snapshot in which the row still counted.
StaleRelease(s) ==
  \E c \in Releasers :
    "redis" \in rel[c].todo /\ slot[rel[c].lease] = s /\ ~Registered(rel[c].lease, "redis")

\* An Acquire rolls back a lease that was released under it.
LateAcquire(s) == \E l \in Leases : Acquiring(l) /\ slot[l] = s /\ <<l, "redis">> \in kept

\* A dry run cleans up the db it has no row for.
DryClean(s) == dry.pc = "redis" /\ dry.slot = s

\* A Release meets a row whose db was never seen empty: its Acquire died in
\* between, or failed without the row being closed.
UnverifiedRelease(s) ==
  \E c \in Releasers :
    /\ "redis" \in rel[c].todo /\ slot[rel[c].lease] = s
    /\ \/ acq[rel[c].lease].pc = "dead" /\ rows[rel[c].lease]["redis"] = "creating"
       \/ <<rel[c].lease, "redis">> \in kept

\* The keys of a client that still holds its lease are flushed by nobody but a
\* stale Release, the roll-back of a lease released under it, or a dry run
\* (redis.go:174: Reclaim is for the db the lease holds).
TenantDataKept ==
  [][\A s \in Slots : redis[s] \in Leases /\ redis[s] \notin ended =>
       redis'[s] = redis[s] \/ StaleRelease(s) \/ LateAcquire(s) \/ DryClean(s)]_vars

\* Keys somebody keeps in a db by hand, even when they appear between planning
\* and provisioning, are flushed by nobody but these and a Release of a row that
\* was never verified (redis.go:4-5, 157-161).
UserDataKept ==
  [][\A s \in Slots : redis[s] = User =>
       \/ redis'[s] = User
       \/ StaleRelease(s) \/ LateAcquire(s) \/ DryClean(s) \/ UnverifiedRelease(s)]_vars

\* No test database outlives its lease for ever: expiry, crash recovery and
\* the orphan sweep together drop every one that no stranded row hides
\* (lease.go:451-506).
DatabasesReclaimed ==
  \A n \in Leases \cup {Dry} :
    n \in databases ~> n \notin databases \/ <<n, "postgres">> \in kept

-----------------------------------------------------------------------------
(* What comments and documents say and the code does not keep: each is     *)
(* refuted by the configuration the README names for it.                   *)

\* No row outlives its lease at all.
EveryRowGivenUp ==
  \A l \in Leases : lease[l].status = "released" => \A k \in Kinds : ~Registered(l, k)

\* The keys of a client that still holds its lease are never flushed.
TenantKeysKept ==
  [][\A s \in Slots : redis[s] \in Leases /\ redis[s] \notin ended
                        => redis'[s] = redis[s]]_vars

\* Keys somebody keeps in a db by hand are never flushed.
UserKeysKept == [][\A s \in Slots : redis[s] = User => redis'[s] = User]_vars

\* A database a client still holds is never dropped by the orphan sweep
\* (postgres.go:420-422: only what is not in the registry is reported).
DatabaseKept ==
  [][\A l \in Leases : Holds(l) /\ l \in databases => l \in databases']_vars

\* The lease's whole life stays within the absolute limit (lease.go:296).
LifetimeLimited ==
  \A l \in Leases : lease[l].status = "active" =>
    lease[l].expires <= lease[l].created + MaxLife

\* The project never has more leases than its quota (store/provision.go:193).
QuotaRespected == CountActiveLeases <= Quota
=============================================================================
