------------------------- MODULE TestDBLeaseProofs -------------------------
(***************************************************************************)
(* TLAPS proofs about TestDBLease, for any leases, Redis databases, callers *)
(* of Release, quotas and TTLs.                                             *)
(*                                                                         *)
(* What a client was handed is its own, whatever Acquires, Releases, the    *)
(* reaper, dry runs, users, faults and crashes do (Inv).  Rows are stranded *)
(* by nothing but a statement that failed or an Acquire whose lease was     *)
(* released under it (KeptInv), and keys are flushed by nothing but the     *)
(* clean-ups the properties name (DataInv).  No theorem has a hypothesis    *)
(* beyond LeaseConstants.                                                   *)
(***************************************************************************)
EXTENDS TestDBLease, NaturalsInduction, WellFoundedInduction, TLAPS

\* Progress of an Acquire through the kinds it wants.
Counted ==
  \A l \in Leases :
    /\ acq[l].step >= 1
    /\ acq[l].pc \in {"reserve", "provision", "activate", "rollback"} =>
         acq[l].step <= Len(Wants[l])

\* A Release works on a lease that was entered and is marked as ended.
ReleaseKnows ==
  \A c \in Releasers :
    /\ rel[c].at # None => rel[c].at \in rel[c].todo
    /\ rel[c].todo # {} => rel[c].lease # None
    /\ rel[c].lease # None => rel[c].lease \in ended /\ lease[rel[c].lease].status # "none"

\* Before InsertLease the registry knows nothing of the lease.
NotYetEntered ==
  \A l \in Leases : acq[l].pc \in {"idle", "plan", "insert"} =>
    acq[l].step = 1 /\ lease[l].status = "none" /\ \A k \in Kinds : rows[l][k] = "none"

\* The partial unique index, kept by every statement.
SlotsUnique ==
  \A l, m \in Leases :
    l # m /\ Registered(l, "redis") /\ Registered(m, "redis") => slot[l] # slot[m]

\* While nobody has set out to release a lease, its registry rows are those its
\* Acquire made.
OwnRows ==
  \A l \in Leases : l \notin ended =>
    /\ acq[l].pc \in {"reserve", "provision", "activate", "rollback", "close", "held"} =>
         lease[l].status = "active"
    /\ acq[l].pc \in {"reserve", "provision", "activate", "rollback"} =>
         \A i \in 1 .. (acq[l].step - 1) : rows[l][Wants[l][i]] = "active"
    /\ acq[l].pc \in {"provision", "activate"} => rows[l][Current(l)] = "creating"
    /\ acq[l].pc = "held" => \A i \in DOMAIN Wants[l] : rows[l][Wants[l][i]] = "active"

\* A row somebody still has to give up: one that counts, unless the statement
\* that closes it failed or its lease was released under its Acquire.
Owed(l, k) == Registered(l, k) /\ <<l, k>> \notin kept

\* An Acquire that fails has nothing left in the registry but what it has yet
\* to roll back.
RolledBack ==
  \A l \in Leases :
    /\ acq[l].pc \in {"reserve", "rollback"} =>
         \A k \in Kinds : Owed(l, k) => \E i \in 1 .. (acq[l].step - 1) : Wants[l][i] = k
    /\ acq[l].pc \in {"provision", "activate"} =>
         \A k \in Kinds : Owed(l, k) => \E i \in 1 .. acq[l].step : Wants[l][i] = k
    /\ acq[l].pc \in {"close", "failed"} => \A k \in Kinds : ~Owed(l, k)
    /\ acq[l].pc = "failed" => lease[l].status # "active" \/ <<l, None>> \in kept

Inv ==
  /\ TypeOK /\ Counted /\ ReleaseKnows /\ NotYetEntered /\ SlotsUnique /\ OwnRows /\ RolledBack

-----------------------------------------------------------------------------
(* What is owed to the registry.                                            *)

\* A lease under release, or released, is done being acquired, or all its rows
\* are marked.
ReleaseWaits ==
  \A l \in Leases :
    acq[l].pc \notin {"held", "failed", "dead"} /\ (l \in ended \/ lease[l].status = "released")
      => \A k \in Kinds : <<l, k>> \in kept

\* A Release has every row its lease owes on its list.
ListIsFull ==
  \A c \in Releasers : rel[c].lease # None =>
    \A k \in Kinds : Owed(rel[c].lease, k) => k \in rel[c].todo

\* A closed lease owes nothing.
ClosedIsEmpty ==
  \A l \in Leases : lease[l].status = "released" => \A k \in Kinds : ~Owed(l, k)

-----------------------------------------------------------------------------
(* Whose keys a db may hold.                                                *)

\* Keys of a client whose lease nobody releases are in the db it holds.
OwnKeys ==
  \A s \in Slots : redis[s] \in Leases \ ended =>
    acq[redis[s]].pc = "held" /\ slot[redis[s]] = s /\ WantsRedis(redis[s])

\* A registered db has a user's keys only as long as it is not verified empty.
UserApart ==
  \A l \in Leases : Registered(l, "redis") /\ slot[l] \in Slots /\ redis[slot[l]] = User =>
    \/ acq[l].pc = "provision" /\ Current(l) = "redis"
    \/ <<l, "redis">> \in kept
    \/ acq[l].pc = "dead" /\ rows[l]["redis"] = "creating"

KeptInv == Inv /\ ReleaseWaits /\ ListIsFull /\ ClosedIsEmpty
DataInv == Inv /\ ReleaseWaits /\ OwnKeys /\ UserApart

-----------------------------------------------------------------------------
(* The operators.                                                           *)

\* The db number planResource picks is one of the free ones.
LEMMA PickedIsFree == ASSUME NEW S \in SUBSET Slots, S # {} PROVE Min(S) \in S
<1>. DEFINE R == OpToRel(<, Nat)
<1>1. S \subseteq Nat BY LeaseConstants
<1>2. IsWellFoundedOn(R, Nat) BY NatLessThanWellFounded, Zenon
<1>3. \A m, n \in Nat : m < n => <<m, n>> \in R BY DEF OpToRel
<1>. HIDE DEF R
<1>4. PICK n \in S : \A m \in S : ~ (<<m, n>> \in R)
  BY <1>1, <1>2, WFMin
<1>5. \A m \in S : ~ (m < n)
  BY <1>1, <1>3, <1>4, Zenon
<1>6. \A m \in S : n <= m
  BY <1>1, <1>5
<1>. QED BY <1>6 DEF Min

\* The kinds an Acquire works through.
LEMMA WantedKinds ==
  ASSUME NEW l \in Leases
  PROVE  /\ DOMAIN Wants[l] = 1 .. Len(Wants[l]) /\ Len(Wants[l]) \in Nat
         /\ \A i \in 1 .. Len(Wants[l]) : Wants[l][i] \in Kinds
         /\ \A i, j \in 1 .. Len(Wants[l]) : Wants[l][i] = Wants[l][j] => i = j
<1>1. Wants[l] \in Seq(Kinds) BY LeaseConstants
<1>2. DOMAIN Wants[l] = 1 .. Len(Wants[l]) /\ Len(Wants[l]) \in Nat BY <1>1
<1>3. \A i \in 1 .. Len(Wants[l]) : Wants[l][i] \in Kinds BY <1>1
<1>. QED BY <1>2, <1>3, LeaseConstants

LEMMA RowEffect ==
  ASSUME TypeOK, NEW l \in Leases, NEW k \in Kinds,
         NEW st \in {"none", "creating", "active", "reclaimed"}, SetRow(l, k, st)
  PROVE  /\ rows' \in [Leases -> [Kinds -> {"none", "creating", "active", "reclaimed"}]]
         /\ rows'[l][k] = st /\ \A j \in Kinds \ {k} : rows'[l][j] = rows[l][j]
         /\ \A m \in Leases \ {l} : rows'[m] = rows[m]
BY DEF TypeOK, SetRow

LEMMA GoToEffect ==
  ASSUME TypeOK, NEW l \in Leases, NEW pc \in AcqSteps, GoTo(l, pc)
  PROVE  /\ acq' \in [Leases -> AcqState]
         /\ acq'[l].pc = pc /\ acq'[l].step = acq[l].step
         /\ \A m \in Leases \ {l} : acq'[m] = acq[m]
BY DEF TypeOK, GoTo, AcqState

\* A Reclaim empties a db or drops a database, or does nothing.
LEMMA ReclaimEffect ==
  ASSUME TypeOK, NEW l, NEW k, Reclaim(l, k)
  PROVE  /\ databases' \subseteq databases /\ redis' \in [Slots -> Leases \cup {Empty, User}]
         /\ \/ redis' = redis
            \/ k # "postgres" /\ redis' = [redis EXCEPT ![slot[l]] = Empty]
BY DEF TypeOK, Reclaim, ReclaimOf, DropDatabase, FlushDB, servers

\* A row is closed, or it stays and is marked.
RowIs(l, k, st) == rows'[l][k] = st /\ \A j \in Kinds \ {k} : rows'[l][j] = rows[l][j]
RowGivenUp(l, k) ==
  \/ RowIs(l, k, "reclaimed")
  \/ rows'[l] = rows[l] /\ <<l, k>> \in kept'

LEMMA MarkEffect ==
  ASSUME TypeOK, NEW l \in Leases, NEW k \in Kinds, MarkResourceReclaimed(l, k)
  PROVE  /\ rows' \in [Leases -> [Kinds -> {"none", "creating", "active", "reclaimed"}]]
         /\ RowGivenUp(l, k) /\ \A m \in Leases \ {l} : rows'[m] = rows[m]
         /\ kept \subseteq kept' /\ kept' \subseteq Leases \X (Kinds \cup {None})
<1>1. CASE SetRow(l, k, "reclaimed") /\ UNCHANGED kept
  BY <1>1, RowEffect DEF TypeOK, RowIs, RowGivenUp
<1>2. CASE UNCHANGED rows /\ kept' = kept \cup {<<l, k>>}
  BY <1>2 DEF TypeOK, RowGivenUp
<1>. QED BY <1>1, <1>2 DEF MarkResourceReclaimed

LEMMA CloseEffect ==
  ASSUME TypeOK, NEW l \in Leases, MarkLeaseReleased(l)
  PROVE  /\ lease' \in [Leases -> LeaseRow] /\ \A m \in Leases \ {l} : lease'[m] = lease[m]
         /\ lease'[l].status = "released" \/ (lease'[l] = lease[l] /\ <<l, None>> \in kept')
         /\ kept \subseteq kept' /\ kept' \subseteq Leases \X (Kinds \cup {None})
<1>1. CASE lease' = [lease EXCEPT ![l].status = "released"] /\ UNCHANGED kept
  <2>1. /\ lease' \in [Leases -> LeaseRow] /\ lease'[l].status = "released"
        /\ \A m \in Leases \ {l} : lease'[m] = lease[m]
    BY ZenonT(30), <1>1 DEF TypeOK, LeaseRow
  <2>. QED BY <1>1, <2>1 DEF TypeOK
<1>2. CASE UNCHANGED lease /\ kept' = kept \cup {<<l, None>>}
  BY <1>2 DEF TypeOK
<1>. QED BY <1>1, <1>2 DEF MarkLeaseReleased

LEMMA PickEffect ==
  ASSUME TypeOK, NEW l \in Leases, PickSlot(l)
  PROVE  /\ slot' \in [Leases -> Slots \cup {0}] /\ slot'[l] \in Slots
         /\ \A m \in Leases \ {l} : slot'[m] = slot[m]
<1>1. freeDBIndexes \in SUBSET Slots /\ freeDBIndexes # {} BY DEF PickSlot, freeDBIndexes
<1>2. Min(freeDBIndexes) \in Slots BY <1>1, PickedIsFree
<1>. QED BY <1>2 DEF PickSlot, TypeOK

-----------------------------------------------------------------------------
(* What a step of an Acquire does to its own lease.                         *)

\* Steps that leave the registry alone, but for the planned slot.
Moves(l) ==
  /\ rows' = rows /\ lease' = lease /\ redis' = redis /\ kept' = kept
  /\ acq'[l].step = acq[l].step
  /\ \/ acq[l].pc = "idle" /\ acq'[l].pc \in {"plan", "failed"} /\ slot' = slot
     \/ /\ acq[l].pc = "plan" /\ acq'[l].pc \in {"insert", "failed"}
        /\ acq'[l].pc = "insert" /\ WantsRedis(l) => slot'[l] \in Slots
     \/ acq[l].pc = "insert" /\ acq'[l].pc = "failed" /\ slot' = slot
     \/ /\ acq[l].pc = "reserve" /\ acq'[l].pc = "reserve" /\ ~SlotUnclaimed(l)
        /\ slot'[l] \in Slots
     \/ acq[l].pc = "reserve" /\ acq'[l].pc = "rollback" /\ slot' = slot
     \/ /\ acq[l].pc = "provision" /\ acq'[l].pc = "activate" /\ slot' = slot
        /\ Current(l) = "redis" => redis[slot[l]] = Empty
     \/ acq[l].pc = "rollback" /\ acq[l].step = 1 /\ acq'[l].pc = "close" /\ slot' = slot

\* Steps that write the lease.
WritesLease(l) ==
  /\ rows' = rows /\ slot' = slot /\ redis' = redis /\ acq'[l].step = acq[l].step
  /\ \/ acq[l].pc = "insert" /\ acq'[l].pc = "reserve" /\ lease'[l].status = "active"
     \/ /\ acq[l].pc = "close" /\ acq'[l].pc = "failed"
        /\ lease'[l].status = "released" \/ (lease'[l] = lease[l] /\ <<l, None>> \in kept')

\* Steps that write the row of the current kind, or of an earlier one.
WritesRow(l) ==
  /\ lease' = lease /\ slot' = slot
  /\ \/ /\ acq[l].pc = "reserve" /\ acq'[l].pc = "provision" /\ acq'[l].step = acq[l].step
        /\ Current(l) # "redis" \/ SlotUnclaimed(l)
        /\ RowIs(l, Current(l), "creating") /\ redis' = redis
     \/ /\ acq[l].pc = "provision" /\ acq'[l].pc = "rollback" /\ acq'[l].step = acq[l].step
        /\ RowGivenUp(l, Current(l)) /\ redis' = redis
     \/ /\ acq[l].pc = "activate" /\ acq'[l].step = acq[l].step + 1
        /\ acq'[l].pc = (IF acq[l].step = Len(Wants[l]) THEN "held" ELSE "reserve")
        /\ Current(l) # "redis" \/ SlotUnclaimed(l)
        /\ RowIs(l, Current(l), "active") /\ redis' = redis
     \/ /\ acq[l].pc = "activate" /\ acq'[l].pc = "rollback" /\ acq'[l].step = acq[l].step
        /\ RowGivenUp(l, Current(l))
        /\ \/ redis' = redis
           \/ Current(l) = "redis" /\ redis' = [redis EXCEPT ![slot[l]] = Empty]
     \/ /\ acq[l].pc = "rollback" /\ acq[l].step # 1 /\ acq'[l].pc = "rollback"
        /\ acq'[l].step = acq[l].step - 1
        /\ RowGivenUp(l, Wants[l][acq[l].step - 1])
        /\ \/ redis' = redis
           \/ /\ Wants[l][acq[l].step - 1] = "redis"
              /\ redis' = [redis EXCEPT ![slot[l]] = Empty]

\* What no Acquire of l touches.
Frame(l) ==
  /\ UNCHANGED <<now, crashes, rel, reap, dry, ended>> /\ kept \subseteq kept'
  /\ \A m \in Leases \ {l} : /\ acq'[m] = acq[m] /\ rows'[m] = rows[m] /\ slot'[m] = slot[m]
                             /\ lease'[m] = lease[m]

LEMMA AcquireMoves ==
  ASSUME TypeOK, NEW l \in Leases, CheckQuota(l) \/ PlanAll(l) \/ Refuse(l) \/ Provision(l)
  PROVE  TypeOK' /\ Frame(l) /\ Moves(l)
<1>. USE DEF AcqSteps
<1>1. CASE CheckQuota(l)
  <2>. DEFINE pc == IF CountActiveLeases < Quota THEN "plan" ELSE "failed"
  <2>1. acq' = [acq EXCEPT ![l].pc = pc, ![l].at = now] BY <1>1 DEF CheckQuota
  <2>2. pc \in {"plan", "failed"} /\ now \in Nat BY LeaseConstants DEF TypeOK
  <2>. HIDE DEF pc
  <2>3. /\ acq' \in [Leases -> AcqState]
        /\ acq'[l].pc = pc /\ acq'[l].step = acq[l].step
        /\ \A m \in Leases \ {l} : acq'[m] = acq[m]
    BY ZenonT(30), <2>1, <2>2 DEF TypeOK, AcqState
  <2>. QED BY <1>1, <2>2, <2>3 DEF CheckQuota, TypeOK, Frame, Moves, registry, servers
<1>2. CASE PlanAll(l)
  <2>1. PICK pc \in {"insert", "failed"} : GoTo(l, pc) BY <1>2 DEF PlanAll
  <2>2. /\ acq' \in [Leases -> AcqState] /\ acq'[l].pc = pc /\ acq'[l].step = acq[l].step
        /\ \A m \in Leases \ {l} : acq'[m] = acq[m]
    BY <2>1, GoToEffect
  <2>3. /\ slot' \in [Leases -> Slots \cup {0}] /\ \A m \in Leases \ {l} : slot'[m] = slot[m]
        /\ acq'[l].pc = "insert" /\ WantsRedis(l) => slot'[l] \in Slots
    <3>1. CASE PickSlot(l) BY <3>1, PickEffect
    <3>2. CASE slot' = slot /\ (~WantsRedis(l) \/ GoTo(l, "failed"))
      <4>1. GoTo(l, "failed") => acq'[l].pc = "failed" BY GoToEffect
      <4>. QED BY <3>2, <4>1 DEF TypeOK
    <3>. QED BY <1>2, <3>1, <3>2 DEF PlanAll
  <2>. QED BY <1>2, <2>2, <2>3 DEF PlanAll, TypeOK, Frame, Moves, servers
<1>3. CASE Refuse(l)
  <2>1. /\ acq' \in [Leases -> AcqState] /\ acq'[l].pc = "failed" /\ acq'[l].step = acq[l].step
        /\ \A m \in Leases \ {l} : acq'[m] = acq[m]
    BY <1>3, GoToEffect DEF Refuse
  <2>. QED BY <1>3, <2>1 DEF Refuse, TypeOK, Frame, Moves, registry, servers
<1>4. CASE Provision(l)
  <2>1. /\ acq' \in [Leases -> AcqState] /\ acq'[l].pc = "activate" /\ acq'[l].step = acq[l].step
        /\ \A m \in Leases \ {l} : acq'[m] = acq[m]
    BY <1>4, GoToEffect DEF Provision
  <2>. QED BY <1>4, <2>1 DEF Provision, TypeOK, Frame, Moves, registry, StillEmpty
<1>. QED BY <1>1, <1>2, <1>3, <1>4

LEMMA AcquireWritesLease ==
  ASSUME TypeOK, NEW l \in Leases, InsertLease(l) \/ CloseFailed(l)
  PROVE  TypeOK' /\ Frame(l) /\ WritesLease(l)
<1>. USE DEF AcqSteps
<1>1. CASE InsertLease(l)
  <2>1. /\ acq' \in [Leases -> AcqState] /\ acq'[l].pc = "reserve" /\ acq'[l].step = acq[l].step
        /\ \A m \in Leases \ {l} : acq'[m] = acq[m]
    BY <1>1, GoToEffect DEF InsertLease
  <2>2. PICK ttl \in TTLs :
          lease' = [lease EXCEPT ![l] = [status |-> "active", created |-> acq[l].at,
                                         expires |-> acq[l].at + ttl]]
    BY <1>1 DEF InsertLease
  <2>3. acq[l].at \in Nat /\ acq[l].at + ttl \in Nat BY LeaseConstants DEF TypeOK, AcqState
  <2>4. /\ lease' \in [Leases -> LeaseRow] /\ lease'[l].status = "active"
        /\ \A m \in Leases \ {l} : lease'[m] = lease[m]
    BY <2>2, <2>3 DEF TypeOK, LeaseRow
  <2>. QED BY <1>1, <2>1, <2>4 DEF InsertLease, TypeOK, Frame, WritesLease, servers
<1>2. CASE CloseFailed(l)
  <2>1. /\ acq' \in [Leases -> AcqState] /\ acq'[l].pc = "failed" /\ acq'[l].step = acq[l].step
        /\ \A m \in Leases \ {l} : acq'[m] = acq[m]
    BY <1>2, GoToEffect DEF CloseFailed
  <2>2. /\ lease' \in [Leases -> LeaseRow] /\ \A m \in Leases \ {l} : lease'[m] = lease[m]
        /\ lease'[l].status = "released" \/ (lease'[l] = lease[l] /\ <<l, None>> \in kept')
        /\ kept \subseteq kept' /\ kept' \subseteq Leases \X (Kinds \cup {None})
    BY <1>2, CloseEffect DEF CloseFailed
  <2>. QED BY <1>2, <2>1, <2>2 DEF CloseFailed, TypeOK, Frame, WritesLease, servers
<1>. QED BY <1>1, <1>2

LEMMA AcquireWritesRow ==
  ASSUME TypeOK, Counted, NEW l \in Leases,
         InsertResource(l) \/ ProvisionFails(l) \/ MarkResourceActive(l) \/ rollbackCreated(l)
  PROVE  TypeOK' /\ Frame(l) /\ (Moves(l) \/ WritesRow(l))
<1>0. /\ acq[l].step \in Nat /\ acq[l].step >= 1 /\ acq[l].tries \in Nat
      /\ acq[l].step <= Len(Wants[l]) /\ Current(l) \in Kinds
      /\ acq[l].step # 1 => Wants[l][acq[l].step - 1] \in Kinds
  <2>1. acq[l].pc \in {"reserve", "provision", "activate", "rollback"}
    BY DEF InsertResource, ProvisionFails, MarkResourceActive, rollbackCreated
  <2>2. /\ acq[l].step \in Nat /\ acq[l].step >= 1 /\ acq[l].tries \in Nat
        /\ acq[l].step <= Len(Wants[l])
    BY <2>1 DEF TypeOK, AcqState, Counted
  <2>. QED BY <2>2, WantedKinds DEF Current
<1>a. \A pc \in AcqSteps : GoTo(l, pc) =>
        /\ acq' \in [Leases -> AcqState] /\ acq'[l].pc = pc /\ acq'[l].step = acq[l].step
        /\ \A m \in Leases \ {l} : acq'[m] = acq[m]
  BY GoToEffect
<1>b. \A k \in Kinds, st \in {"none", "creating", "active", "reclaimed"} : SetRow(l, k, st) =>
        /\ rows' \in [Leases -> [Kinds -> {"none", "creating", "active", "reclaimed"}]]
        /\ RowIs(l, k, st) /\ \A m \in Leases \ {l} : rows'[m] = rows[m]
  BY RowEffect DEF RowIs
<1>d. \A k \in Kinds : MarkResourceReclaimed(l, k) =>
        /\ rows' \in [Leases -> [Kinds -> {"none", "creating", "active", "reclaimed"}]]
        /\ RowGivenUp(l, k) /\ \A m \in Leases \ {l} : rows'[m] = rows[m]
        /\ kept \subseteq kept' /\ kept' \subseteq Leases \X (Kinds \cup {None})
  BY MarkEffect
<1>c. {"provision", "rollback", "close", "held", "reserve"} \subseteq AcqSteps BY DEF AcqSteps
<1>1. CASE InsertResource(l)
  <2>1. CASE /\ Current(l) # "redis" \/ SlotUnclaimed(l)
             /\ SetRow(l, Current(l), "creating") /\ GoTo(l, "provision") /\ slot' = slot
    <3>1. /\ acq[l].pc = "reserve"
          /\ UNCHANGED <<now, crashes, lease, servers, rel, reap, dry, ended, kept>>
      BY <1>1, <2>1 DEF InsertResource
    <3>2. /\ acq' \in [Leases -> AcqState] /\ acq'[l].pc = "provision"
          /\ acq'[l].step = acq[l].step /\ \A m \in Leases \ {l} : acq'[m] = acq[m]
      BY <1>a, <1>c, <2>1
    <3>3. /\ rows' \in [Leases -> [Kinds -> {"none", "creating", "active", "reclaimed"}]]
          /\ RowIs(l, Current(l), "creating") /\ \A m \in Leases \ {l} : rows'[m] = rows[m]
      BY <1>0, <1>b, <2>1
    <3>. QED BY <2>1, <3>1, <3>2, <3>3 DEF TypeOK, Frame, WritesRow, servers
  <2>2. CASE ~(Current(l) # "redis" \/ SlotUnclaimed(l)) /\ acq[l].tries < MaxTries /\ PickSlot(l)
                /\ acq' = [acq EXCEPT ![l].tries = @ + 1]
    <3>1. /\ acq[l].pc = "reserve" /\ rows' = rows
          /\ UNCHANGED <<now, crashes, lease, servers, rel, reap, dry, ended, kept>>
      BY <1>1, <2>2 DEF InsertResource
    <3>2. /\ acq' \in [Leases -> AcqState] /\ acq'[l].pc = acq[l].pc
          /\ acq'[l].step = acq[l].step /\ \A m \in Leases \ {l} : acq'[m] = acq[m]
      <4>1. PICK n \in Nat : n = acq[l].tries + 1 BY <1>0
      <4>2. acq' = [acq EXCEPT ![l].tries = n] BY <2>2, <4>1
      <4>. QED BY <4>2 DEF TypeOK, AcqState
    <3>3. /\ slot' \in [Leases -> Slots \cup {0}] /\ slot'[l] \in Slots
          /\ \A m \in Leases \ {l} : slot'[m] = slot[m]
      BY <2>2, PickEffect
    <3>. QED BY <2>2, <3>1, <3>2, <3>3 DEF TypeOK, Frame, Moves, servers
  <2>3. CASE GoTo(l, "rollback") /\ slot' = slot /\ rows' = rows
    <3>1. /\ acq[l].pc = "reserve"
          /\ UNCHANGED <<now, crashes, lease, servers, rel, reap, dry, ended, kept>>
      BY <1>1 DEF InsertResource
    <3>2. /\ acq' \in [Leases -> AcqState] /\ acq'[l].pc = "rollback"
          /\ acq'[l].step = acq[l].step /\ \A m \in Leases \ {l} : acq'[m] = acq[m]
      BY <1>a, <1>c, <2>3
    <3>. QED BY <2>3, <3>1, <3>2 DEF TypeOK, Frame, Moves, servers
  <2>. QED BY <1>1, <2>1, <2>2, <2>3 DEF InsertResource
<1>2. CASE ProvisionFails(l)
  <2>1. /\ MarkResourceReclaimed(l, Current(l)) /\ GoTo(l, "rollback") /\ slot' = slot
        /\ acq[l].pc = "provision" /\ databases' \subseteq databases \cup {l}
        /\ UNCHANGED <<now, crashes, lease, redis, rel, reap, dry, ended>>
    BY <1>2 DEF ProvisionFails
  <2>2. /\ acq' \in [Leases -> AcqState] /\ acq'[l].pc = "rollback"
        /\ acq'[l].step = acq[l].step /\ \A m \in Leases \ {l} : acq'[m] = acq[m]
    BY <1>a, <1>c, <2>1
  <2>3. /\ rows' \in [Leases -> [Kinds -> {"none", "creating", "active", "reclaimed"}]]
        /\ RowGivenUp(l, Current(l)) /\ \A m \in Leases \ {l} : rows'[m] = rows[m]
        /\ kept \subseteq kept' /\ kept' \subseteq Leases \X (Kinds \cup {None})
    BY <1>0, <1>d, <2>1
  <2>. QED BY <2>1, <2>2, <2>3 DEF TypeOK, Frame, WritesRow
<1>3. CASE MarkResourceActive(l) /\ ~GoTo(l, "rollback")
  <2>. DEFINE pc == IF acq[l].step = Len(Wants[l]) THEN "held" ELSE "reserve"
  <2>1. /\ SetRow(l, Current(l), "active") /\ slot' = slot /\ acq[l].pc = "activate"
        /\ Current(l) # "redis" \/ SlotUnclaimed(l)
        /\ acq' = [acq EXCEPT ![l].step = @ + 1, ![l].pc = pc]
        /\ UNCHANGED <<now, crashes, lease, servers, rel, reap, dry, ended, kept>>
    BY <1>3 DEF MarkResourceActive
  <2>2. pc \in AcqSteps BY <1>c
  <2>3. ASSUME NEW q, q = pc
        PROVE  /\ acq' \in [Leases -> AcqState] /\ acq'[l].pc = q
               /\ acq'[l].step = acq[l].step + 1 /\ \A m \in Leases \ {l} : acq'[m] = acq[m]
    <3>1. PICK n \in Nat : n = acq[l].step + 1 BY <1>0
    <3>2. acq' = [acq EXCEPT ![l].step = n, ![l].pc = q] BY <2>1, <2>3, <3>1
    <3>3. q \in AcqSteps BY <2>2, <2>3
    <3>4. /\ acq' \in [Leases -> AcqState] /\ acq'[l].pc = q
          /\ acq'[l].step = n /\ \A m \in Leases \ {l} : acq'[m] = acq[m]
      BY ZenonT(30), <3>2, <3>3 DEF TypeOK, AcqState
    <3>. QED BY <3>1, <3>4
  <2>4. /\ acq' \in [Leases -> AcqState] /\ acq'[l].pc = pc
        /\ acq'[l].step = acq[l].step + 1 /\ \A m \in Leases \ {l} : acq'[m] = acq[m]
    BY <2>3
  <2>5. /\ rows' \in [Leases -> [Kinds -> {"none", "creating", "active", "reclaimed"}]]
        /\ RowIs(l, Current(l), "active") /\ \A m \in Leases \ {l} : rows'[m] = rows[m]
    BY <1>0, <1>b, <2>1
  <2>. QED BY <2>1, <2>4, <2>5 DEF TypeOK, Frame, WritesRow, servers
<1>4. CASE MarkResourceActive(l) /\ GoTo(l, "rollback")
  <2>0. acq[l].pc = "activate" BY <1>4 DEF MarkResourceActive
  <2>2. /\ acq' \in [Leases -> AcqState] /\ acq'[l].pc = "rollback"
        /\ acq'[l].step = acq[l].step /\ \A m \in Leases \ {l} : acq'[m] = acq[m]
    BY <1>a, <1>c, <1>4
  <2>1. /\ MarkResourceReclaimed(l, Current(l)) /\ slot' = slot /\ Reclaim(l, Current(l))
        /\ UNCHANGED <<now, crashes, lease, rel, reap, dry, ended>>
    <3>1. acq' = [acq EXCEPT ![l].step = @ + 1,
                             ![l].pc = IF acq[l].step = Len(Wants[l]) THEN "held" ELSE "reserve"]
            => acq'[l].pc \in {"held", "reserve"}
      BY DEF TypeOK, AcqState
    <3>. QED BY <1>4, <2>2, <3>1 DEF MarkResourceActive
  <2>3. /\ rows' \in [Leases -> [Kinds -> {"none", "creating", "active", "reclaimed"}]]
        /\ RowGivenUp(l, Current(l)) /\ \A m \in Leases \ {l} : rows'[m] = rows[m]
        /\ kept \subseteq kept' /\ kept' \subseteq Leases \X (Kinds \cup {None})
    BY <1>0, <1>d, <2>1
  <2>4. /\ databases' \subseteq databases /\ redis' \in [Slots -> Leases \cup {Empty, User}]
        /\ redis' = redis \/ (Current(l) = "redis" /\ redis' = [redis EXCEPT ![slot[l]] = Empty])
    BY <1>0, <2>1, ReclaimEffect DEF Kinds
  <2>5. TypeOK' BY <2>1, <2>2, <2>3, <2>4 DEF TypeOK
  <2>6. Frame(l) BY <2>1, <2>2, <2>3 DEF Frame
  <2>7. WritesRow(l) BY <2>0, <2>1, <2>2, <2>3, <2>4 DEF WritesRow
  <2>. QED BY <2>5, <2>6, <2>7
<1>5. CASE rollbackCreated(l) /\ acq[l].step = 1
  <2>1. /\ GoTo(l, "close") /\ acq[l].pc = "rollback"
        /\ UNCHANGED <<now, crashes, rows, servers, lease, slot, rel, reap, dry, ended, kept>>
    BY <1>5 DEF rollbackCreated
  <2>2. /\ acq' \in [Leases -> AcqState] /\ acq'[l].pc = "close"
        /\ acq'[l].step = acq[l].step /\ \A m \in Leases \ {l} : acq'[m] = acq[m]
    BY <1>a, <1>c, <2>1
  <2>. QED BY <1>5, <2>1, <2>2 DEF TypeOK, Frame, Moves, servers
<1>6. CASE rollbackCreated(l) /\ acq[l].step # 1
  <2>. DEFINE k == Wants[l][acq[l].step - 1]
  <2>1. /\ MarkResourceReclaimed(l, k) /\ acq[l].pc = "rollback" /\ Reclaim(l, k)
        /\ acq' = [acq EXCEPT ![l].step = @ - 1] /\ slot' = slot
        /\ UNCHANGED <<now, crashes, lease, rel, reap, dry, ended>>
    BY <1>6 DEF rollbackCreated
  <2>2. /\ acq' \in [Leases -> AcqState] /\ acq'[l].pc = "rollback"
        /\ acq'[l].step = acq[l].step - 1 /\ \A m \in Leases \ {l} : acq'[m] = acq[m]
    <3>1. PICK n \in Nat : n = acq[l].step - 1 BY <1>0, <1>6
    <3>2. acq' = [acq EXCEPT ![l].step = n] BY <2>1, <3>1
    <3>3. /\ acq' \in [Leases -> AcqState] /\ acq'[l].pc = acq[l].pc
          /\ acq'[l].step = n /\ \A m \in Leases \ {l} : acq'[m] = acq[m]
      BY <3>2 DEF TypeOK, AcqState
    <3>. QED BY <2>1, <3>1, <3>3
  <2>3. k \in Kinds BY <1>0, <1>6
  <2>4. /\ databases' \subseteq databases /\ redis' \in [Slots -> Leases \cup {Empty, User}]
        /\ redis' = redis \/ (k = "redis" /\ redis' = [redis EXCEPT ![slot[l]] = Empty])
    BY <2>1, <2>3, ReclaimEffect DEF Kinds
  <2>5. /\ rows' \in [Leases -> [Kinds -> {"none", "creating", "active", "reclaimed"}]]
        /\ RowGivenUp(l, k) /\ \A m \in Leases \ {l} : rows'[m] = rows[m]
        /\ kept \subseteq kept' /\ kept' \subseteq Leases \X (Kinds \cup {None})
    BY <1>d, <2>1, <2>3
  <2>6. TypeOK' BY <2>1, <2>2, <2>4, <2>5 DEF TypeOK
  <2>7. Frame(l) BY <2>1, <2>2, <2>5 DEF Frame
  <2>8. WritesRow(l) BY <1>6, <2>1, <2>2, <2>4, <2>5 DEF WritesRow
  <2>. QED BY <2>6, <2>7, <2>8
<1>. QED BY <1>1, <1>2, <1>3, <1>4, <1>5, <1>6

LEMMA AcquireEffect ==
  ASSUME TypeOK, Counted, NEW l \in Leases, Acquire(l)
  PROVE  TypeOK' /\ Frame(l) /\ (Moves(l) \/ WritesLease(l) \/ WritesRow(l))
BY AcquireMoves, AcquireWritesLease, AcquireWritesRow DEF Acquire

-----------------------------------------------------------------------------
(* An Acquire keeps the invariant.                                          *)

\* Where an Acquire's step counts, it is a step of its kinds.
LEMMA StepInRange ==
  ASSUME TypeOK, Counted, NEW l \in Leases
  PROVE  /\ acq[l].step \in Nat /\ acq[l].step >= 1 /\ Len(Wants[l]) \in Nat
         /\ acq[l].pc \in {"reserve", "provision", "activate", "rollback"} =>
              acq[l].step \in 1 .. Len(Wants[l]) /\ Current(l) \in Kinds
<1>1. acq[l].step \in Nat /\ acq[l].step >= 1 /\ Len(Wants[l]) \in Nat
  BY WantedKinds DEF TypeOK, AcqState, Counted
<1>2. acq[l].pc \in {"reserve", "provision", "activate", "rollback"} =>
        acq[l].step \in 1 .. Len(Wants[l])
  BY <1>1 DEF Counted
<1>. QED BY <1>1, <1>2, WantedKinds DEF Current

LEMMA AcquireCounted ==
  ASSUME TypeOK, Counted, NEW l \in Leases, Frame(l), Moves(l) \/ WritesLease(l) \/ WritesRow(l),
         NotYetEntered
  PROVE  Counted'
<1>0. /\ acq[l].step \in Nat /\ acq[l].step >= 1 /\ Len(Wants[l]) \in Nat
      /\ acq[l].pc \in {"reserve", "provision", "activate", "rollback"} =>
           acq[l].step <= Len(Wants[l])
  BY StepInRange
<1>. SUFFICES /\ acq'[l].step >= 1
              /\ acq'[l].pc \in {"reserve", "provision", "activate", "rollback"} =>
                   acq'[l].step <= Len(Wants[l])
  BY DEF Frame, Counted
<1>1. CASE Moves(l) BY <1>0, <1>1 DEF Moves
<1>2. CASE WritesLease(l)
  <2>1. CASE acq[l].pc = "close" BY <1>0, <1>2, <2>1 DEF WritesLease
  <2>2. CASE acq[l].pc = "insert"
    <3>1. Len(Wants[l]) > 0 BY LeaseConstants
    <3>2. acq'[l].step = 1 BY <1>2, <2>2 DEF WritesLease, NotYetEntered
    <3>. QED BY <1>0, <3>1, <3>2
  <2>. QED BY <1>2, <2>1, <2>2 DEF WritesLease
<1>3. CASE WritesRow(l) BY <1>0, <1>3 DEF WritesRow
<1>. QED BY <1>1, <1>2, <1>3

LEMMA AcquireRegistry ==
  ASSUME Inv, NEW l \in Leases, Frame(l), Moves(l) \/ WritesLease(l) \/ WritesRow(l)
  PROVE  ReleaseKnows' /\ NotYetEntered' /\ SlotsUnique'
<1>0. /\ TypeOK
      /\ acq[l].pc \in {"reserve", "provision", "activate", "rollback"} =>
           acq[l].step \in 1 .. Len(Wants[l]) /\ Current(l) \in Kinds
  BY StepInRange DEF Inv
<1>1. ReleaseKnows'
  <2>1. \A m \in Leases : lease[m].status # "none" => lease'[m].status # "none"
    BY DEF Frame, Moves, WritesLease, WritesRow
  <2>2. UNCHANGED <<rel, ended>> BY DEF Frame
  <2>3. \A c \in Releasers : rel[c].lease # None => rel[c].lease \in Leases
    BY <1>0 DEF TypeOK, RelState
  <2>. QED BY <2>1, <2>2, <2>3 DEF Inv, ReleaseKnows
<1>2. NotYetEntered'
  <2>1. acq'[l].pc \in {"idle", "plan", "insert"} =>
          /\ acq[l].pc \in {"idle", "plan", "insert"} /\ acq'[l].step = acq[l].step
          /\ lease' = lease /\ rows' = rows
    BY DEF Moves, WritesLease, WritesRow
  <2>. QED BY <2>1 DEF Frame, Inv, NotYetEntered
<1>3. SlotsUnique'
  <2>1. \A m \in Leases \ {l} : rows'[m] = rows[m] /\ slot'[m] = slot[m] BY DEF Frame
  <2>. SUFFICES ASSUME NEW m \in Leases \ {l}, Registered(l, "redis")', Registered(m, "redis")
                PROVE  slot'[l] # slot[m]
    BY <2>1 DEF SlotsUnique, Inv, Registered
  <2>2. CASE Moves(l)
    <3>1. Registered(l, "redis") BY <2>2 DEF Moves, Registered
    <3>2. SlotUnclaimed(l) BY <3>1 DEF SlotUnclaimed, Inv, SlotsUnique
    <3>3. acq[l].pc # "plan" BY <3>1 DEF Inv, NotYetEntered, Registered, Kinds
    <3>4. slot' = slot BY <2>2, <3>2, <3>3 DEF Moves
    <3>. QED BY <3>1, <3>4 DEF Inv, SlotsUnique
  <2>3. CASE WritesLease(l)
    <3>1. Registered(l, "redis") /\ slot' = slot BY <2>3 DEF WritesLease, Registered
    <3>. QED BY <3>1 DEF Inv, SlotsUnique
  <2>4. CASE WritesRow(l)
    <3>1. slot' = slot BY <2>4 DEF WritesRow
    <3>2. CASE SlotUnclaimed(l) BY <3>1, <3>2 DEF SlotUnclaimed
    <3>3. CASE Registered(l, "redis") BY <3>1, <3>3 DEF Inv, SlotsUnique
    <3>. QED BY <2>4, <3>2, <3>3 DEF WritesRow, RowIs, RowGivenUp, Registered, Kinds
  <2>. QED BY <2>2, <2>3, <2>4
<1>. QED BY <1>1, <1>2, <1>3

LEMMA AcquireOwnRows ==
  ASSUME Inv, NEW l \in Leases, Frame(l), Moves(l) \/ WritesLease(l) \/ WritesRow(l)
  PROVE  OwnRows'
<1>0. /\ TypeOK /\ acq[l].step \in Nat /\ acq[l].step >= 1 /\ Len(Wants[l]) \in Nat
      /\ acq[l].pc \in {"reserve", "provision", "activate", "rollback"} =>
           acq[l].step \in 1 .. Len(Wants[l]) /\ Current(l) \in Kinds
  BY StepInRange DEF Inv
<1>a. /\ DOMAIN Wants[l] = 1 .. Len(Wants[l])
      /\ \A i \in 1 .. Len(Wants[l]) : Wants[l][i] \in Kinds
      /\ \A i, j \in 1 .. Len(Wants[l]) : Wants[l][i] = Wants[l][j] => i = j
  BY WantedKinds
<1>. DEFINE Own(m) ==
        /\ acq[m].pc \in {"reserve", "provision", "activate", "rollback", "close", "held"} =>
             lease[m].status = "active"
        /\ acq[m].pc \in {"reserve", "provision", "activate", "rollback"} =>
             \A i \in 1 .. (acq[m].step - 1) : rows[m][Wants[m][i]] = "active"
        /\ acq[m].pc \in {"provision", "activate"} => rows[m][Current(m)] = "creating"
        /\ acq[m].pc = "held" => \A i \in DOMAIN Wants[m] : rows[m][Wants[m][i]] = "active"
<1>b. \A m \in Leases \ ended : Own(m) BY DEF Inv, OwnRows
<1>. SUFFICES ASSUME NEW m \in Leases, m \notin ended PROVE Own(m)'
  BY DEF OwnRows, Frame
<1>1. CASE m # l BY <1>1, <1>b DEF Frame, Current
<1>2. CASE m = l /\ Moves(l)
  <2>1. rows' = rows /\ lease' = lease /\ acq'[l].step = acq[l].step BY <1>2 DEF Moves
  <2>2. \/ acq'[l].pc \in {"plan", "failed", "insert"}
        \/ acq[l].pc = "reserve" /\ acq'[l].pc \in {"reserve", "rollback"}
        \/ acq[l].pc = "provision" /\ acq'[l].pc = "activate"
        \/ acq[l].pc = "rollback" /\ acq'[l].pc = "close"
    BY <1>2 DEF Moves
  <2>3. Current(l)' = Current(l) BY <2>1 DEF Current
  <2>. QED BY <1>2, <1>b, <2>1, <2>2, <2>3
<1>3. CASE m = l /\ WritesLease(l)
  <2>1. CASE acq[l].pc = "insert"
    BY <1>3, <2>1, <1>0 DEF WritesLease, Inv, NotYetEntered
  <2>2. CASE acq[l].pc = "close" BY <1>3, <2>2 DEF WritesLease
  <2>. QED BY <1>3, <2>1, <2>2 DEF WritesLease
<1>4. CASE m = l /\ WritesRow(l)
  <2>0. lease' = lease BY <1>4 DEF WritesRow
  <2>1. CASE acq[l].pc = "reserve"
    <3>1. /\ acq'[l].pc = "provision" /\ acq'[l].step = acq[l].step
          /\ RowIs(l, Current(l), "creating")
      BY <1>4, <2>1 DEF WritesRow
    <3>2. \A i \in 1 .. (acq[l].step - 1) : Wants[l][i] \in Kinds \ {Current(l)}
      BY <1>0, <1>a, <2>1 DEF Current
    <3>3. Current(l)' = Current(l) BY <3>1 DEF Current
    <3>. QED BY <1>4, <1>b, <2>0, <2>1, <3>1, <3>2, <3>3 DEF RowIs
  <2>2. CASE acq[l].pc \in {"provision", "activate"} /\ acq'[l].pc = "rollback"
    <3>1. acq'[l].step = acq[l].step /\ RowGivenUp(l, Current(l))
      BY <1>4, <1>0, <2>2 DEF WritesRow
    <3>2. \A i \in 1 .. (acq[l].step - 1) : Wants[l][i] \in Kinds \ {Current(l)}
      BY <1>0, <1>a, <2>2 DEF Current
    <3>. QED BY <1>4, <1>b, <2>0, <2>2, <3>1, <3>2 DEF RowIs, RowGivenUp
  <2>3. CASE acq[l].pc = "activate" /\ acq'[l].pc # "rollback"
    <3>1. /\ acq'[l].pc = (IF acq[l].step = Len(Wants[l]) THEN "held" ELSE "reserve")
          /\ acq'[l].step = acq[l].step + 1 /\ RowIs(l, Current(l), "active")
      BY <1>4, <2>3 DEF WritesRow
    <3>2. \A i \in 1 .. (acq[l].step - 1) : Wants[l][i] \in Kinds \ {Current(l)}
      BY <1>0, <1>a, <2>3 DEF Current
    <3>3. \A i \in 1 .. acq[l].step : rows'[l][Wants[l][i]] = "active"
      <4>. SUFFICES ASSUME NEW i \in 1 .. acq[l].step PROVE rows'[l][Wants[l][i]] = "active"
        OBVIOUS
      <4>1. CASE i = acq[l].step BY <3>1, <4>1 DEF RowIs, Current
      <4>2. CASE i \in 1 .. (acq[l].step - 1)
        BY <1>4, <1>b, <2>3, <3>1, <3>2, <4>2 DEF RowIs
      <4>. QED BY <1>0, <4>1, <4>2
    <3>4. 1 .. (acq'[l].step - 1) = 1 .. acq[l].step BY <1>0, <3>1
    <3>. QED BY <1>4, <1>a, <1>b, <2>0, <2>3, <3>1, <3>3, <3>4
  <2>4. CASE acq[l].pc = "rollback"
    <3>1. /\ acq'[l].pc = "rollback" /\ acq'[l].step = acq[l].step - 1 /\ acq[l].step # 1
          /\ RowGivenUp(l, Wants[l][acq[l].step - 1])
      BY <1>4, <2>4 DEF WritesRow
    <3>2. \A i \in 1 .. (acq'[l].step - 1) :
            Wants[l][i] \in Kinds \ {Wants[l][acq[l].step - 1]} /\ i \in 1 .. (acq[l].step - 1)
      BY <1>0, <1>a, <2>4, <3>1
    <3>3. \A i \in 1 .. (acq'[l].step - 1) : rows'[l][Wants[l][i]] = rows[l][Wants[l][i]]
      BY <3>1, <3>2 DEF RowIs, RowGivenUp
    <3>. QED BY <1>4, <1>b, <2>0, <2>4, <3>1, <3>2, <3>3
  <2>. QED BY <1>4, <2>1, <2>2, <2>3, <2>4 DEF WritesRow
<1>. QED BY <1>1, <1>2, <1>3, <1>4

LEMMA AcquireRolledBack ==
  ASSUME Inv, NEW l \in Leases, Frame(l), Moves(l) \/ WritesLease(l) \/ WritesRow(l)
  PROVE  RolledBack'
<1>0. /\ TypeOK /\ acq[l].step \in Nat /\ acq[l].step >= 1
      /\ acq[l].pc \in {"reserve", "provision", "activate", "rollback"} =>
           acq[l].step \in 1 .. Len(Wants[l]) /\ Current(l) \in Kinds
  BY StepInRange DEF Inv
<1>a. Current(l) = Wants[l][acq[l].step] BY DEF Current
<1>. DEFINE Listed(n) == \A k \in Kinds : Owed(l, k) => \E i \in 1 .. n : Wants[l][i] = k
            Left(n) == \A k \in Kinds : Owed(l, k)' => \E i \in 1 .. n : Wants[l][i] = k
<1>b. /\ acq[l].pc \in {"reserve", "rollback"} => Listed(acq[l].step - 1)
      /\ acq[l].pc \in {"provision", "activate"} => Listed(acq[l].step)
      /\ acq[l].pc \in {"close", "failed"} => \A k \in Kinds : ~Owed(l, k)
      /\ acq[l].pc \in {"idle", "plan", "insert"} =>
           lease[l].status = "none" /\ \A k \in Kinds : ~Owed(l, k)
  BY DEF Inv, RolledBack, NotYetEntered, Registered, Owed
<1>c. kept \subseteq kept' BY DEF Frame
<1>d. \A k : rows'[l][k] = rows[l][k] => (Owed(l, k)' => Owed(l, k))
  BY <1>c DEF Owed, Registered
<1>e. \A m \in Leases \ {l} : \A k \in Kinds : Owed(m, k)' => Owed(m, k)
  BY DEF Frame, Owed, Registered
<1>. SUFFICES /\ acq'[l].pc \in {"reserve", "rollback"} => Left(acq'[l].step - 1)
              /\ acq'[l].pc \in {"provision", "activate"} => Left(acq'[l].step)
              /\ acq'[l].pc \in {"close", "failed"} => \A k \in Kinds : ~Owed(l, k)'
              /\ acq'[l].pc = "failed" => lease'[l].status # "active" \/ <<l, None>> \in kept'
  BY <1>c, <1>e DEF Frame, RolledBack, Inv
<1>1. CASE Moves(l)
  <2>1. /\ \A k \in Kinds : Owed(l, k)' => Owed(l, k)
        /\ acq'[l].step = acq[l].step /\ lease' = lease
    BY <1>1, <1>d DEF Moves
  <2>2. CASE acq[l].pc \in {"idle", "plan", "insert"}
    BY <1>1, <1>b, <2>1, <2>2 DEF Moves
  <2>3. CASE acq[l].pc = "reserve" BY <1>1, <1>b, <2>1, <2>3 DEF Moves
  <2>4. CASE acq[l].pc = "provision" BY <1>1, <1>b, <2>1, <2>4 DEF Moves
  <2>5. CASE acq[l].pc = "rollback"
    <3>1. acq[l].step = 1 /\ acq'[l].pc = "close" BY <1>1, <2>5 DEF Moves
    <3>2. \A k \in Kinds : ~Owed(l, k)
      <4>1. Listed(0) BY <1>b, <2>5, <3>1
      <4>. QED BY <4>1
    <3>. QED BY <2>1, <3>1, <3>2
  <2>. QED BY <1>1, <2>2, <2>3, <2>4, <2>5 DEF Moves
<1>2. CASE WritesLease(l)
  <2>1. /\ \A k \in Kinds : Owed(l, k)' => Owed(l, k)
        /\ acq'[l].step = acq[l].step
    BY <1>2, <1>d DEF WritesLease
  <2>. QED BY <1>2, <1>b, <2>1 DEF WritesLease
<1>3. CASE WritesRow(l)
  <2>0. \A k \in Kinds : RowGivenUp(l, k) =>
          \A j \in Kinds : Owed(l, j)' => j # k /\ Owed(l, j)
    <3>. SUFFICES ASSUME NEW k \in Kinds, RowGivenUp(l, k), NEW j \in Kinds, Owed(l, j)'
                  PROVE  j # k /\ Owed(l, j)
      OBVIOUS
    <3>1. rows'[l][j] # "reclaimed" /\ <<l, j>> \notin kept' BY DEF Owed, Registered
    <3>2. j # k BY <3>1 DEF RowGivenUp, RowIs
    <3>3. rows'[l][j] = rows[l][j] BY <3>2 DEF RowGivenUp, RowIs
    <3>. QED BY <1>d, <3>2, <3>3
  <2>1. CASE acq[l].pc = "reserve"
    <3>1. /\ acq'[l].pc = "provision" /\ acq'[l].step = acq[l].step
          /\ RowIs(l, Current(l), "creating")
      BY <1>3, <2>1 DEF WritesRow
    <3>2. \A k \in Kinds \ {Current(l)} : Owed(l, k)' => Owed(l, k)
      BY <1>d, <3>1 DEF RowIs
    <3>3. Left(acq[l].step)
      <4>. SUFFICES ASSUME NEW k \in Kinds, Owed(l, k)'
                    PROVE  \E i \in 1 .. acq[l].step : Wants[l][i] = k
        OBVIOUS
      <4>1. CASE k = Current(l) BY <1>0, <1>a, <2>1, <4>1
      <4>2. CASE k # Current(l)
        <5>1. PICK i \in 1 .. (acq[l].step - 1) : Wants[l][i] = k BY <1>b, <2>1, <3>2, <4>2
        <5>. QED BY <1>0, <5>1
      <4>. QED BY <4>1, <4>2
    <3>. QED BY <3>1, <3>3
  <2>2. CASE acq[l].pc \in {"provision", "activate"} /\ acq'[l].pc = "rollback"
    <3>1. acq'[l].step = acq[l].step /\ RowGivenUp(l, Current(l)) /\ Current(l) \in Kinds
      BY <1>3, <1>0, <2>2 DEF WritesRow
    <3>3. ASSUME NEW k \in Kinds, Owed(l, k)'
          PROVE  \E i \in 1 .. (acq[l].step - 1) : Wants[l][i] = k
      <4>1. k # Current(l) /\ Owed(l, k) BY <2>0, <3>1, <3>3
      <4>2. PICK i \in 1 .. acq[l].step : Wants[l][i] = k BY <1>b, <2>2, <4>1
      <4>3. i # acq[l].step BY <1>a, <4>1, <4>2
      <4>. QED BY <1>0, <4>2, <4>3
    <3>. QED BY <2>2, <3>1, <3>3
  <2>3. CASE acq[l].pc = "activate" /\ acq'[l].pc # "rollback"
    <3>1. /\ acq'[l].pc \in {"held", "reserve"}
          /\ acq'[l].step = acq[l].step + 1 /\ RowIs(l, Current(l), "active")
      BY <1>3, <2>3 DEF WritesRow
    <3>2. ASSUME NEW k \in Kinds, Owed(l, k)'
          PROVE  \E i \in 1 .. acq[l].step : Wants[l][i] = k
      <4>1. CASE k = Current(l) BY <1>0, <1>a, <2>3, <4>1
      <4>2. CASE k # Current(l)
        <5>1. Owed(l, k) BY <1>d, <3>1, <3>2, <4>2 DEF RowIs
        <5>. QED BY <1>b, <2>3, <5>1
      <4>. QED BY <4>1, <4>2
    <3>3. acq'[l].step - 1 = acq[l].step BY <1>0, <3>1
    <3>. QED BY <2>3, <3>1, <3>2, <3>3
  <2>4. CASE acq[l].pc = "rollback"
    <3>. DEFINE last == Wants[l][acq[l].step - 1]
    <3>1. /\ acq'[l].pc = "rollback" /\ acq'[l].step = acq[l].step - 1 /\ acq[l].step # 1
          /\ RowGivenUp(l, last)
      BY <1>3, <2>4 DEF WritesRow
    <3>2. last \in Kinds BY <1>0, <2>4, <3>1, WantedKinds
    <3>3. ASSUME NEW k \in Kinds, Owed(l, k)'
          PROVE  \E i \in 1 .. (acq'[l].step - 1) : Wants[l][i] = k
      <4>1. k # last /\ Owed(l, k) BY <2>0, <3>1, <3>2, <3>3
      <4>3. PICK i \in 1 .. (acq[l].step - 1) : Wants[l][i] = k BY <1>b, <2>4, <4>1
      <4>4. i # acq[l].step - 1 BY <4>1, <4>3
      <4>. QED BY <1>0, <3>1, <4>3, <4>4
    <3>. QED BY <3>1, <3>3
  <2>. QED BY <1>3, <2>1, <2>2, <2>3, <2>4 DEF WritesRow
<1>. QED BY <1>1, <1>2, <1>3

LEMMA AcquireInv == ASSUME Inv, NEW l \in Leases, Acquire(l) PROVE Inv'
<1>1. TypeOK' /\ Frame(l) /\ (Moves(l) \/ WritesLease(l) \/ WritesRow(l))
  BY AcquireEffect DEF Inv
<1>2. Counted' BY <1>1, AcquireCounted DEF Inv
<1>3. ReleaseKnows' /\ NotYetEntered' /\ SlotsUnique' BY <1>1, AcquireRegistry
<1>4. OwnRows' BY <1>1, AcquireOwnRows
<1>5. RolledBack' BY <1>1, AcquireRolledBack
<1>. QED BY <1>1, <1>2, <1>3, <1>4, <1>5 DEF Inv

-----------------------------------------------------------------------------
(* The steps around the Acquires.                                           *)

\* What they may do to the registry and to an Acquire: give rows up, close
\* leases under release, and kill calls in a crash.
Around ==
  /\ slot' = slot /\ ended \subseteq ended' /\ kept \subseteq kept'
  /\ \A l \in Leases : /\ acq'[l].step = acq[l].step
                       /\ acq'[l].pc = acq[l].pc \/ (acq'[l].pc = "dead" /\ Acquiring(l))
  /\ \A l \in Leases : \A k \in Kinds :
       \/ rows'[l][k] = rows[l][k]
       \/ rows'[l][k] = "reclaimed" /\ l \in ended /\ lease[l].status # "none"
  /\ \A l \in Leases :
       \/ lease'[l].status = lease[l].status
       \/ lease'[l].status = "released" /\ l \in ended /\ lease[l].status # "none"

\* The steps that touch neither registry nor calls.
Bystands ==
  \/ \E l \in Leases : TenantWrites(l)
  \/ ReapExpired \/ ReapKnown \/ Reconcile \/ EndRound
  \/ \E n \in Leases \cup {Dry} : SweepOrphan(n) \/ SweepFails(n)
  \/ DryRun
  \/ \E s \in Slots : UserWrites(s)
  \/ Tick

LEMMA BystandEffect ==
  ASSUME TypeOK, Bystands
  PROVE  TypeOK' /\ UNCHANGED <<registry, acq, rel, ended, kept>>
<1>1. ASSUME NEW l \in Leases, TenantWrites(l)
      PROVE  TypeOK' /\ UNCHANGED <<registry, acq, rel, ended, kept>>
  BY <1>1 DEF TenantWrites, TypeOK, registry, procs
<1>2. CASE ReapExpired \/ ReapKnown \/ Reconcile \/ EndRound
  <2>1. /\ UNCHANGED <<now, crashes, registry, servers, acq, rel, dry, ended, kept>>
        /\ \/ \E pc \in {"expire", "list", "sweep"}, W \in SUBSET (Leases \cup {Dry}) :
                reap' = [pc |-> pc, work |-> W]
           \/ reap' = [reap EXCEPT !.pc = "idle"]
    BY <1>2 DEF ReapExpired, ReapKnown, Reconcile, EndRound, ListExpiredLeases,
       ListAllActiveResources, TypeOK
  <2>2. reap' \in [pc : {"idle", "expire", "list", "sweep"}, work : SUBSET (Leases \cup {Dry})]
    BY <2>1 DEF TypeOK
  <2>. QED BY <2>1, <2>2 DEF TypeOK, registry, servers
<1>3. ASSUME NEW n \in Leases \cup {Dry}, SweepOrphan(n) \/ SweepFails(n)
      PROVE  TypeOK' /\ UNCHANGED <<registry, acq, rel, ended, kept>>
  <2>1. /\ UNCHANGED <<now, crashes, registry, redis, acq, rel, dry, ended, kept>>
        /\ databases' \subseteq databases
        /\ reap' = [reap EXCEPT !.work = @ \ {n}]
    BY <1>3 DEF SweepOrphan, SweepFails, DropDatabase, servers
  <2>2. reap' \in [pc : {"idle", "expire", "list", "sweep"}, work : SUBSET (Leases \cup {Dry})]
    BY <2>1 DEF TypeOK
  <2>. QED BY <2>1, <2>2 DEF TypeOK, registry
<1>4. CASE DryRun
  <2>1. /\ UNCHANGED <<now, crashes, registry, acq, rel, reap, ended, kept>>
        /\ databases' \subseteq databases \cup {Dry}
        /\ redis' = redis \/ redis' = [redis EXCEPT ![dry.slot] = Empty]
    BY <1>4 DEF DryRun, DryPlan, DryDatabase, DrySlot, DryReclaim, servers
  <2>2. dry' \in [pc : {"idle", "planned", "postgres", "redis"}, slot : Slots \cup {0}]
    <3>1. CASE DryPlan
      <4>1. freeDBIndexes \in SUBSET Slots /\ freeDBIndexes # {} BY <3>1 DEF DryPlan, freeDBIndexes
      <4>2. Min(freeDBIndexes) \in Slots BY <4>1, PickedIsFree
      <4>. QED BY <3>1, <4>2 DEF DryPlan
    <3>2. CASE DryDatabase \/ DrySlot \/ DryReclaim
      BY <3>2 DEF DryDatabase, DrySlot, DryReclaim, TypeOK
    <3>. QED BY <1>4, <3>1, <3>2 DEF DryRun
  <2>. QED BY <2>1, <2>2 DEF TypeOK, registry
<1>5. ASSUME NEW s \in Slots, UserWrites(s)
      PROVE  TypeOK' /\ UNCHANGED <<registry, acq, rel, ended, kept>>
  BY <1>5 DEF UserWrites, TypeOK, registry, procs
<1>6. CASE Tick
  <2>1. now' \in 0 .. MaxTime BY <1>6, LeaseConstants DEF Tick, TypeOK
  <2>. QED BY <1>6, <2>1 DEF Tick, TypeOK, registry, servers, procs
<1>. QED BY <1>1, <1>2, <1>3, <1>4, <1>5, <1>6 DEF Bystands

LEMMA RenewEffect ==
  ASSUME TypeOK, NEW l \in Leases, NEW ttl \in TTLs, Renew(l, ttl)
  PROVE  /\ TypeOK' /\ UNCHANGED <<rows, slot, acq, rel, ended, kept>>
         /\ \A m \in Leases : lease'[m].status = lease[m].status
<1>. DEFINE granted == IF ttl > DefaultTTL THEN DefaultTTL ELSE ttl
<1>1. PICK n \in Nat : n = now + granted
  <2>1. granted \in Nat /\ now \in Nat BY LeaseConstants DEF TypeOK
  <2>. HIDE DEF granted
  <2>. QED BY <2>1
<1>2. lease' = [lease EXCEPT ![l].expires = n] BY <1>1 DEF Renew
<1>3. /\ lease' \in [Leases -> LeaseRow] /\ \A m \in Leases : lease'[m].status = lease[m].status
  BY ZenonT(30), <1>2 DEF TypeOK, LeaseRow
<1>. QED BY <1>3 DEF Renew, TypeOK, servers, procs

\* A Release begins.
LEMMA BeginEffect ==
  ASSUME TypeOK, ReleaseKnows, NEW c \in Releasers, NEW l \in Leases, BeginRelease(c, l),
         UNCHANGED <<now, crashes, registry, servers, acq, dry>>,
         reap' \in [pc : {"idle", "expire", "list", "sweep"}, work : SUBSET (Leases \cup {Dry})]
  PROVE  /\ TypeOK' /\ ReleaseKnows' /\ ended' = ended \cup {l} /\ kept \subseteq kept'
         /\ lease[l].status = "active" /\ (Acquiring(l) => {l} \X Kinds \subseteq kept')
         /\ rel[c].lease = None
         /\ rel'[c].lease = l /\ rel'[c].todo = {k \in Kinds : Registered(l, k)}
         /\ \A d \in Releasers \ {c} : rel'[d] = rel[d]
<1>. DEFINE todo == {k \in Kinds : Registered(l, k)}
<1>1. /\ rel' = [rel EXCEPT ![c] = [lease |-> l, todo |-> todo, at |-> None]]
      /\ ended' = ended \cup {l} /\ lease[l].status = "active" /\ rel[c].lease = None
      /\ kept' = IF Acquiring(l) THEN kept \cup ({l} \X Kinds) ELSE kept
  BY DEF BeginRelease
<1>2. todo \in SUBSET Kinds OBVIOUS
<1>. HIDE DEF todo
<1>3. rel' \in [Releasers -> RelState] BY <1>1, <1>2 DEF TypeOK, RelState
<1>4. /\ rel'[c] = [lease |-> l, todo |-> todo, at |-> None]
      /\ \A d \in Releasers \ {c} : rel'[d] = rel[d]
  BY <1>1 DEF TypeOK
<1>5. TypeOK' BY <1>1, <1>3 DEF TypeOK, registry, servers
<1>a. kept \subseteq kept' /\ (Acquiring(l) => {l} \X Kinds \subseteq kept') BY <1>1
<1>6. ReleaseKnows'
  <2>1. l # None BY LeaseConstants
  <2>. QED BY <1>1, <1>4, <2>1 DEF ReleaseKnows, registry
<1>. QED BY <1>1, <1>a, <1>4, <1>5, <1>6 DEF todo

\* What a step of a Release does: reclaim, give a row up, skip one, or close.
Reclaims(c) ==
  /\ UNCHANGED <<lease, rows, kept>> /\ rel'[c].lease = rel[c].lease /\ rel'[c].todo = rel[c].todo
  /\ \/ redis' = redis
     \/ "redis" \in rel[c].todo /\ redis' = [redis EXCEPT ![slot[rel[c].lease]] = Empty]

GivesUp(c) ==
  /\ UNCHANGED <<lease, redis>> /\ rel'[c].lease = rel[c].lease
  /\ \E k \in rel[c].todo :
       /\ rel'[c].todo = rel[c].todo \ {k} /\ RowGivenUp(rel[c].lease, k)
       /\ \A m \in Leases \ {rel[c].lease} : rows'[m] = rows[m]

Skips(c) ==
  /\ UNCHANGED <<lease, rows, redis>> /\ rel'[c].lease = rel[c].lease
  /\ \E k \in rel[c].todo : /\ rel'[c].todo = rel[c].todo \ {k}
                            /\ kept' = kept \cup {<<rel[c].lease, k>>}

Closes(c) ==
  /\ rel[c].todo = {} /\ rel'[c].todo = {} /\ rel'[c].lease = None /\ UNCHANGED <<rows, redis>>
  /\ \/ lease'[rel[c].lease].status = "released"
     \/ lease'[rel[c].lease] = lease[rel[c].lease]
  /\ \A m \in Leases \ {rel[c].lease} : lease'[m] = lease[m]

LEMMA ReleasingEffect ==
  ASSUME TypeOK, ReleaseKnows, NEW c \in Releasers, Releasing(c)
  PROVE  /\ TypeOK' /\ ReleaseKnows' /\ UNCHANGED <<slot, acq, reap, dry, ended>>
         /\ rel[c].lease \in Leases \cap ended /\ lease[rel[c].lease].status # "none"
         /\ \A d \in Releasers \ {c} : rel'[d] = rel[d]
         /\ kept \subseteq kept' /\ (Reclaims(c) \/ GivesUp(c) \/ Skips(c) \/ Closes(c))
<1>. DEFINE l == rel[c].lease
<1>0. /\ l \in Leases \cup {None} /\ rel[c].todo \subseteq Kinds /\ rel[c].at \in Kinds \cup {None}
      /\ rel \in [Releasers -> RelState]
  BY DEF TypeOK, RelState
<1>1. l \in Leases /\ l \in ended /\ lease[l].status # "none"
  <2>1. l # None
    BY DEF Releasing, ReleaseReclaim, ReleaseSkip, ReleaseMark, EndRelease, ReleaseKnows
  <2>. QED BY <1>0, <2>1 DEF ReleaseKnows
<1>2. ASSUME NEW k \in Kinds, ReleaseReclaim(c, k)
      PROVE  /\ TypeOK' /\ ReleaseKnows' /\ UNCHANGED <<slot, acq, reap, dry, ended>>
             /\ \A d \in Releasers \ {c} : rel'[d] = rel[d]
             /\ kept \subseteq kept' /\ Reclaims(c)
  <2>1. /\ rel' = [rel EXCEPT ![c].at = k] /\ k \in rel[c].todo /\ Reclaim(l, k)
        /\ UNCHANGED <<now, crashes, registry, acq, reap, dry, ended, kept>>
    BY <1>2 DEF ReleaseReclaim
  <2>2. /\ rel' \in [Releasers -> RelState] /\ \A d \in Releasers \ {c} : rel'[d] = rel[d]
        /\ rel'[c].lease = l /\ rel'[c].todo = rel[c].todo /\ rel'[c].at = k
    BY <1>0, <2>1 DEF RelState
  <2>3. /\ databases' \subseteq databases /\ redis' \in [Slots -> Leases \cup {Empty, User}]
        /\ redis' = redis \/ (k # "postgres" /\ redis' = [redis EXCEPT ![slot[l]] = Empty])
    BY <2>1, ReclaimEffect
  <2>4. TypeOK' BY <2>1, <2>2, <2>3 DEF TypeOK, registry
  <2>5. ReleaseKnows' BY <2>1, <2>2 DEF ReleaseKnows, registry
  <2>6. Reclaims(c) BY <2>1, <2>2, <2>3 DEF Reclaims, registry, Kinds
  <2>. QED BY <2>1, <2>2, <2>4, <2>5, <2>6 DEF registry
<1>3. ASSUME ReleaseMark(c)
      PROVE  /\ TypeOK' /\ ReleaseKnows' /\ UNCHANGED <<slot, acq, reap, dry, ended>>
             /\ \A d \in Releasers \ {c} : rel'[d] = rel[d]
             /\ kept \subseteq kept' /\ GivesUp(c)
  <2>. DEFINE k == rel[c].at
  <2>1. /\ rel' = [rel EXCEPT ![c].at = None, ![c].todo = @ \ {k}]
        /\ MarkResourceReclaimed(l, k) /\ k # None
        /\ UNCHANGED <<now, crashes, lease, slot, servers, acq, reap, dry, ended>>
    BY <1>3 DEF ReleaseMark
  <2>2. k \in Kinds /\ k \in rel[c].todo BY <1>0, <2>1 DEF ReleaseKnows
  <2>3. /\ rel' \in [Releasers -> RelState] /\ \A d \in Releasers \ {c} : rel'[d] = rel[d]
        /\ rel'[c].lease = l /\ rel'[c].todo = rel[c].todo \ {k} /\ rel'[c].at = None
    BY <1>0, <2>1 DEF RelState
  <2>4. /\ rows' \in [Leases -> [Kinds -> {"none", "creating", "active", "reclaimed"}]]
        /\ RowGivenUp(l, k) /\ \A m \in Leases \ {l} : rows'[m] = rows[m]
        /\ kept \subseteq kept' /\ kept' \subseteq Leases \X (Kinds \cup {None})
    BY <1>1, <2>1, <2>2, MarkEffect
  <2>5. TypeOK' BY <2>1, <2>3, <2>4 DEF TypeOK, servers
  <2>6. ReleaseKnows' BY <2>1, <2>2, <2>3 DEF ReleaseKnows
  <2>7. GivesUp(c) BY <2>1, <2>2, <2>3, <2>4 DEF GivesUp, servers
  <2>. QED BY <2>1, <2>3, <2>4, <2>5, <2>6, <2>7
<1>4. ASSUME NEW k \in Kinds, ReleaseSkip(c, k)
      PROVE  /\ TypeOK' /\ ReleaseKnows' /\ UNCHANGED <<slot, acq, reap, dry, ended>>
             /\ \A d \in Releasers \ {c} : rel'[d] = rel[d]
             /\ kept \subseteq kept' /\ Skips(c)
  <2>1. /\ rel' = [rel EXCEPT ![c].todo = @ \ {k}] /\ kept' = kept \cup {<<l, k>>}
        /\ rel[c].at = None /\ k \in rel[c].todo
        /\ UNCHANGED <<now, crashes, registry, servers, acq, reap, dry, ended>>
    BY <1>4 DEF ReleaseSkip
  <2>2. /\ rel' \in [Releasers -> RelState] /\ \A d \in Releasers \ {c} : rel'[d] = rel[d]
        /\ rel'[c].lease = l /\ rel'[c].todo = rel[c].todo \ {k} /\ rel'[c].at = None
    BY <1>0, <2>1 DEF RelState
  <2>3. TypeOK' BY <1>1, <2>1, <2>2 DEF TypeOK, registry, servers
  <2>4. ReleaseKnows' BY <2>1, <2>2 DEF ReleaseKnows, registry
  <2>. QED BY <2>1, <2>2, <2>3, <2>4 DEF Skips, registry, servers
<1>5. ASSUME EndRelease(c)
      PROVE  /\ TypeOK' /\ ReleaseKnows' /\ UNCHANGED <<slot, acq, reap, dry, ended>>
             /\ \A d \in Releasers \ {c} : rel'[d] = rel[d]
             /\ kept \subseteq kept' /\ Closes(c)
  <2>1. /\ rel' = [rel EXCEPT ![c].lease = None] /\ rel[c].todo = {}
        /\ MarkLeaseReleased(l)
        /\ UNCHANGED <<now, crashes, rows, slot, servers, acq, reap, dry, ended>>
    BY <1>5 DEF EndRelease
  <2>2. /\ rel' \in [Releasers -> RelState] /\ \A d \in Releasers \ {c} : rel'[d] = rel[d]
        /\ rel'[c].lease = None /\ rel'[c].todo = {} /\ rel'[c].at = rel[c].at
    BY <1>0, <2>1 DEF RelState
  <2>3. /\ lease' \in [Leases -> LeaseRow] /\ \A m \in Leases \ {l} : lease'[m] = lease[m]
        /\ lease'[l].status = "released" \/ lease'[l] = lease[l]
        /\ kept \subseteq kept' /\ kept' \subseteq Leases \X (Kinds \cup {None})
    BY <1>1, <2>1, CloseEffect
  <2>4. TypeOK' BY <2>1, <2>2, <2>3 DEF TypeOK, servers
  <2>5. ReleaseKnows'
    <3>1. \A m \in Leases : lease[m].status # "none" => lease'[m].status # "none" BY <2>3
    <3>2. \A d \in Releasers : rel[d].lease # None => rel[d].lease \in Leases
      BY <1>0 DEF RelState
    <3>. QED BY <2>1, <2>2, <3>1, <3>2 DEF ReleaseKnows
  <2>. QED BY <2>1, <2>2, <2>3, <2>4, <2>5 DEF Closes, servers
<1>. QED BY <1>1, <1>2, <1>3, <1>4, <1>5 DEF Releasing

LEMMA CrashEffect ==
  ASSUME TypeOK, Crash
  PROVE  /\ TypeOK' /\ ReleaseKnows' /\ UNCHANGED <<registry, servers, ended, kept>>
         /\ \A l \in Leases : acq'[l].step = acq[l].step
         /\ \A l \in Leases : acq'[l].pc = IF Acquiring(l) THEN "dead" ELSE acq[l].pc
         /\ \A c \in Releasers : rel'[c].lease = None /\ rel'[c].todo = {}
         /\ reap'.pc = "idle" /\ dry'.pc = "idle" /\ crashes < MaxCrashes
<1>1. /\ acq' = [l \in Leases |-> IF Acquiring(l) THEN [acq[l] EXCEPT !.pc = "dead"] ELSE acq[l]]
      /\ rel' = [c \in Releasers |-> [lease |-> None, todo |-> {}, at |-> None]]
      /\ reap' = [pc |-> "idle", work |-> {}] /\ dry' = [pc |-> "idle", slot |-> 0]
      /\ crashes' = crashes + 1 /\ crashes < MaxCrashes
      /\ UNCHANGED <<now, registry, servers, ended, kept>>
  BY DEF Crash
<1>2. crashes' \in 0 .. MaxCrashes BY <1>1, LeaseConstants DEF TypeOK
<1>3. /\ acq' \in [Leases -> AcqState]
      /\ \A l \in Leases : /\ acq'[l].step = acq[l].step
                           /\ acq'[l].pc = IF Acquiring(l) THEN "dead" ELSE acq[l].pc
  <2>1. "dead" \in AcqSteps BY DEF AcqSteps
  <2>2. \A l \in Leases : [acq[l] EXCEPT !.pc = "dead"] \in AcqState
    BY <2>1 DEF TypeOK, AcqState
  <2>3. \A l \in Leases : [acq[l] EXCEPT !.pc = "dead"].pc = "dead"
                          /\ [acq[l] EXCEPT !.pc = "dead"].step = acq[l].step
    BY DEF TypeOK, AcqState
  <2>. QED BY <1>1, <2>2, <2>3 DEF TypeOK
<1>4. rel' \in [Releasers -> RelState] BY <1>1 DEF RelState
<1>5. TypeOK' BY <1>1, <1>2, <1>3, <1>4 DEF TypeOK, registry, servers
<1>6. ReleaseKnows' BY <1>1 DEF ReleaseKnows
<1>. QED BY <1>1, <1>3, <1>5, <1>6

\* A Release begins on behalf of a client, or of the reaper.
LEMMA BeginsEffect ==
  ASSUME TypeOK, ReleaseKnows, NEW l \in Leases,
         (\E c \in Clients : ClientRelease(c, l)) \/ ReapLease(l)
  PROVE  /\ TypeOK' /\ ReleaseKnows' /\ UNCHANGED <<registry, servers, acq>>
         /\ kept \subseteq kept'
         /\ \/ UNCHANGED <<rel, ended, kept>>
            \/ \E c \in Releasers :
                 /\ ended' = ended \cup {l} /\ (Acquiring(l) => {l} \X Kinds \subseteq kept')
                 /\ lease[l].status = "active" /\ rel[c].lease = None
                 /\ rel'[c].lease = l /\ rel'[c].todo = {k \in Kinds : Registered(l, k)}
                 /\ \A d \in Releasers \ {c} : rel'[d] = rel[d]
<1>1. ASSUME NEW c \in Clients, ClientRelease(c, l)
      PROVE  /\ TypeOK' /\ ReleaseKnows' /\ UNCHANGED <<registry, servers, acq>>
             /\ kept \subseteq kept' /\ c \in Releasers /\ ended' = ended \cup {l}
             /\ (Acquiring(l) => {l} \X Kinds \subseteq kept')
             /\ lease[l].status = "active" /\ rel[c].lease = None
             /\ rel'[c].lease = l /\ rel'[c].todo = {k \in Kinds : Registered(l, k)}
             /\ \A d \in Releasers \ {c} : rel'[d] = rel[d]
  <2>1. /\ BeginRelease(c, l) /\ UNCHANGED <<now, crashes, registry, servers, acq, dry, reap>>
        /\ c \in Releasers
    BY <1>1 DEF ClientRelease, Releasers
  <2>2. reap' \in [pc : {"idle", "expire", "list", "sweep"}, work : SUBSET (Leases \cup {Dry})]
    BY <2>1 DEF TypeOK
  <2>. QED BY <2>1, <2>2, BeginEffect
<1>2. CASE ReapLease(l)
  <2>1. /\ reap' = [reap EXCEPT !.work = @ \ {l}] /\ Reaper \in Releasers
        /\ UNCHANGED <<now, crashes, registry, servers, acq, dry>>
    BY <1>2 DEF ReapLease, Releasers
  <2>2. reap' \in [pc : {"idle", "expire", "list", "sweep"}, work : SUBSET (Leases \cup {Dry})]
    BY <2>1 DEF TypeOK
  <2>3. CASE BeginRelease(Reaper, l)
    <3>1. /\ TypeOK' /\ ReleaseKnows' /\ ended' = ended \cup {l} /\ kept \subseteq kept'
          /\ lease[l].status = "active" /\ (Acquiring(l) => {l} \X Kinds \subseteq kept')
          /\ rel[Reaper].lease = None
          /\ rel'[Reaper].lease = l /\ rel'[Reaper].todo = {k \in Kinds : Registered(l, k)}
          /\ \A d \in Releasers \ {Reaper} : rel'[d] = rel[d]
      BY <2>1, <2>2, <2>3, BeginEffect
    <3>. QED BY <2>1, <3>1
  <2>4. CASE UNCHANGED <<rel, ended, kept>>
    <3>1. TypeOK' BY <2>1, <2>2, <2>4 DEF TypeOK, registry, servers
    <3>2. ReleaseKnows' BY <2>1, <2>4 DEF ReleaseKnows, registry
    <3>. QED BY <2>1, <2>4, <3>1, <3>2
  <2>. QED BY <1>2, <2>3, <2>4 DEF ReapLease
<1>. QED BY <1>1, <1>2

\* Next, taken apart.
LEMMA NextCases ==
  ASSUME Next
  PROVE  \/ \E l \in Leases : Acquire(l)
         \/ Bystands
         \/ \E l \in Leases, ttl \in TTLs : Renew(l, ttl)
         \/ \E l \in Leases : (\E c \in Clients : ClientRelease(c, l)) \/ ReapLease(l)
         \/ \E c \in Releasers : Releasing(c)
         \/ Crash
BY DEF Next, Bystands, Round

LEMMA AroundEffect ==
  ASSUME TypeOK, ReleaseKnows,
         \/ Bystands
         \/ \E l \in Leases, ttl \in TTLs : Renew(l, ttl)
         \/ \E l \in Leases : (\E c \in Clients : ClientRelease(c, l)) \/ ReapLease(l)
         \/ \E c \in Releasers : Releasing(c)
         \/ Crash
  PROVE  TypeOK' /\ ReleaseKnows' /\ Around
<1>1. CASE Bystands
  <2>1. TypeOK' /\ UNCHANGED <<registry, acq, rel, ended, kept>> BY <1>1, BystandEffect
  <2>. QED BY <2>1 DEF ReleaseKnows, Around, registry
<1>2. ASSUME NEW l \in Leases, NEW ttl \in TTLs, Renew(l, ttl)
      PROVE  TypeOK' /\ ReleaseKnows' /\ Around
  <2>1. /\ TypeOK' /\ UNCHANGED <<rows, slot, acq, rel, ended, kept>>
        /\ \A m \in Leases : lease'[m].status = lease[m].status
    BY <1>2, RenewEffect
  <2>2. \A c \in Releasers : rel[c].lease # None => rel[c].lease \in Leases
    BY DEF TypeOK, RelState
  <2>. QED BY <2>1, <2>2 DEF ReleaseKnows, Around
<1>3. ASSUME NEW l \in Leases, (\E c \in Clients : ClientRelease(c, l)) \/ ReapLease(l)
      PROVE  TypeOK' /\ ReleaseKnows' /\ Around
  <2>1. /\ TypeOK' /\ ReleaseKnows' /\ UNCHANGED <<registry, acq>> /\ kept \subseteq kept'
        /\ ended' = ended \/ ended' = ended \cup {l}
    BY <1>3, BeginsEffect
  <2>. QED BY <2>1 DEF Around, registry
<1>4. ASSUME NEW c \in Releasers, Releasing(c)
      PROVE  TypeOK' /\ ReleaseKnows' /\ Around
  <2>1. /\ TypeOK' /\ ReleaseKnows' /\ UNCHANGED <<slot, acq, ended>>
        /\ rel[c].lease \in Leases \cap ended /\ lease[rel[c].lease].status # "none"
        /\ kept \subseteq kept' /\ (Reclaims(c) \/ GivesUp(c) \/ Skips(c) \/ Closes(c))
    BY <1>4, ReleasingEffect
  <2>2. /\ \A l \in Leases : \A k \in Kinds :
             \/ rows'[l][k] = rows[l][k]
             \/ rows'[l][k] = "reclaimed" /\ l \in ended /\ lease[l].status # "none"
    BY <2>1 DEF Reclaims, GivesUp, Skips, Closes, RowIs, RowGivenUp
  <2>3. \A l \in Leases :
          \/ lease'[l].status = lease[l].status
          \/ lease'[l].status = "released" /\ l \in ended /\ lease[l].status # "none"
    BY <2>1 DEF Reclaims, GivesUp, Skips, Closes
  <2>. QED BY <2>1, <2>2, <2>3 DEF Around
<1>5. CASE Crash
  BY <1>5, CrashEffect DEF Around, registry
<1>. QED BY <1>1, <1>2, <1>3, <1>4, <1>5

LEMMA AroundInv ==
  ASSUME Inv, TypeOK', ReleaseKnows', Around
  PROVE  Inv'
<1>1. Counted' BY DEF Inv, Counted, Around
<1>2. NotYetEntered' BY DEF Inv, NotYetEntered, Around
<1>a. \A l \in Leases : \A k \in Kinds : Registered(l, k)' => Registered(l, k)
  BY DEF Around, Registered
<1>3. SlotsUnique'
  <2>1. "redis" \in Kinds BY DEF Kinds
  <2>. QED BY <1>a, <2>1 DEF Inv, SlotsUnique, Around
<1>4. OwnRows'
  <2>. SUFFICES ASSUME NEW l \in Leases, l \notin ended', acq'[l].pc # "dead"
                PROVE  /\ acq'[l].pc \in {"reserve", "provision", "activate", "rollback", "close",
                                          "held"} => lease'[l].status = "active"
                       /\ acq'[l].pc \in {"reserve", "provision", "activate", "rollback"} =>
                            \A i \in 1 .. (acq'[l].step - 1) : rows'[l][Wants[l][i]] = "active"
                       /\ acq'[l].pc \in {"provision", "activate"} =>
                            rows'[l][Current(l)'] = "creating"
                       /\ acq'[l].pc = "held" =>
                            \A i \in DOMAIN Wants[l] : rows'[l][Wants[l][i]] = "active"
    BY DEF OwnRows
  <2>1. /\ l \notin ended /\ acq'[l].pc = acq[l].pc /\ acq'[l].step = acq[l].step
        /\ lease'[l].status = lease[l].status
        /\ \A k \in Kinds : rows'[l][k] = rows[l][k]
    BY DEF Around
  <2>2. /\ DOMAIN Wants[l] = 1 .. Len(Wants[l])
        /\ \A i \in 1 .. Len(Wants[l]) : Wants[l][i] \in Kinds
    BY WantedKinds
  <2>3. /\ Current(l)' = Current(l) /\ acq[l].step \in Nat /\ Len(Wants[l]) \in Nat
        /\ acq[l].pc \in {"reserve", "provision", "activate", "rollback"} =>
             acq[l].step \in 1 .. Len(Wants[l]) /\ Current(l) \in Kinds
    BY <2>1, StepInRange DEF Inv, Current
  <2>4. acq[l].pc \in {"reserve", "provision", "activate", "rollback"} =>
          \A i \in 1 .. (acq[l].step - 1) : Wants[l][i] \in Kinds
    BY <2>2, <2>3
  <2>. QED BY <2>1, <2>2, <2>3, <2>4 DEF Inv, OwnRows
<1>5. RolledBack'
  <2>1. \A l \in Leases : \A k \in Kinds : Owed(l, k)' => Owed(l, k)
    BY <1>a DEF Owed, Around
  <2>. QED BY <2>1 DEF Inv, RolledBack, Around
<1>. QED BY <1>1, <1>2, <1>3, <1>4, <1>5 DEF Inv

LEMMA InvStep == Inv /\ [Next]_vars => Inv'
<1>. SUFFICES ASSUME Inv, [Next]_vars PROVE Inv'
  OBVIOUS
<1>1. CASE \E l \in Leases : Acquire(l) BY <1>1, AcquireInv
<1>2. CASE Next /\ ~(\E l \in Leases : Acquire(l))
  BY <1>2, NextCases, AroundEffect, AroundInv DEF Inv
<1>3. CASE UNCHANGED vars
  <2>1. UNCHANGED <<now, crashes, lease, rows, slot, databases, redis, acq, rel, reap, dry, ended,
                 kept>>
    BY <1>3 DEF vars, registry, servers, procs
  <2>. QED
    BY <2>1 DEF Inv, TypeOK, Counted, ReleaseKnows, NotYetEntered, SlotsUnique, OwnRows, RolledBack,
       Owed, Registered, Current
<1>. QED BY <1>1, <1>2, <1>3

LEMMA InitInv == Init => Inv
<1>. SUFFICES ASSUME Init PROVE Inv
  OBVIOUS
<1>1. TypeOK
  <2>1. acq \in [Leases -> AcqState] BY DEF Init, AcqState, AcqSteps
  <2>2. lease \in [Leases -> LeaseRow] BY DEF Init, LeaseRow
  <2>3. rel \in [Releasers -> RelState] BY DEF Init, RelState
  <2>4. 0 \in 0 .. MaxTime /\ 0 \in 0 .. MaxCrashes BY LeaseConstants
  <2>. QED BY <2>1, <2>2, <2>3, <2>4 DEF Init, TypeOK
<1>2. \A l \in Leases : /\ acq[l].pc = "idle" /\ acq[l].step = 1 /\ lease[l].status = "none"
                        /\ \A k \in Kinds : rows[l][k] = "none"
  BY DEF Init
<1>3. \A c \in Releasers : rel[c].lease = None /\ rel[c].todo = {} /\ rel[c].at = None
  BY DEF Init
<1>4. Counted BY <1>2 DEF Counted
<1>5. ReleaseKnows /\ NotYetEntered BY <1>2, <1>3 DEF ReleaseKnows, NotYetEntered
<1>6. SlotsUnique BY <1>2 DEF SlotsUnique, Registered, Kinds
<1>7. OwnRows /\ RolledBack BY <1>2 DEF OwnRows, RolledBack, Owed, Registered
<1>. QED BY <1>1, <1>4, <1>5, <1>6, <1>7 DEF Inv

\* The registry, the servers and the calls keep their invariant, whatever
\* interleaves, fails or crashes.
THEOREM Invariance == Spec => []Inv
<1>. QED BY InitInv, InvStep, PTL DEF Spec

\* Type correctness of the registry, the servers and the calls.
THEOREM TypeCorrect == Spec => []TypeOK
<1>1. Inv => TypeOK BY DEF Inv
<1>. QED BY <1>1, Invariance, PTL

\* Two rows of the registry that count never name the same Redis db.
THEOREM IndexHolds == Spec => []SlotsUnique
<1>1. Inv => SlotsUnique BY DEF Inv
<1>. QED BY <1>1, Invariance, PTL

\* What Acquire handed to a client is complete, registered and nobody else's
\* until somebody sets out to release it.
THEOREM HeldIsExclusive == Spec => []HeldExclusively
<1>1. Inv => HeldExclusively
  <2>. SUFFICES ASSUME Inv, NEW l \in Leases, Holds(l)
                PROVE  /\ lease[l].status = "active"
                       /\ \A i \in DOMAIN Wants[l] : rows[l][Wants[l][i]] = "active"
                       /\ \A m \in Leases \ {l} :
                            Holds(m) /\ WantsRedis(l) /\ WantsRedis(m) => slot[l] # slot[m]
    BY DEF HeldExclusively
  <2>1. /\ lease[l].status = "active"
        /\ \A i \in DOMAIN Wants[l] : rows[l][Wants[l][i]] = "active"
    BY DEF Holds, Inv, OwnRows
  <2>2. \A m \in Leases : Holds(m) /\ WantsRedis(m) => Registered(m, "redis")
    BY DEF Holds, Inv, OwnRows, WantsRedis, Registered
  <2>. QED BY <2>1, <2>2 DEF Inv, SlotsUnique
<1>. QED BY <1>1, Invariance, PTL

-----------------------------------------------------------------------------
(* What is owed to the registry.                                            *)

\* Only an Acquire that has not ended takes a step.
LEMMA AcquireGoesOn ==
  ASSUME NEW l \in Leases, Moves(l) \/ WritesLease(l) \/ WritesRow(l)
  PROVE  acq[l].pc \notin {"held", "failed", "dead"}
BY DEF Moves, WritesLease, WritesRow

\* What happens around the Acquires to the releases under way and to the marks.
LEMMA EndedEffect ==
  ASSUME Inv, Next, ~(\E l \in Leases : Acquire(l))
  PROVE  \A l \in Leases : l \in ended' /\ l \notin ended =>
           /\ lease[l].status = "active" /\ acq'[l].pc = acq[l].pc
           /\ Acquiring(l) => \A k \in Kinds : <<l, k>> \in kept'
<1>0. TypeOK /\ ReleaseKnows BY DEF Inv
<1>1. CASE \/ Bystands
           \/ \E l \in Leases, ttl \in TTLs : Renew(l, ttl)
           \/ \E c \in Releasers : Releasing(c)
           \/ Crash
  <2>1. ended' = ended
    BY <1>0, <1>1, BystandEffect, RenewEffect, ReleasingEffect, CrashEffect
  <2>. QED BY <2>1
<1>2. ASSUME NEW l \in Leases, (\E c \in Clients : ClientRelease(c, l)) \/ ReapLease(l)
      PROVE  \A m \in Leases : m \in ended' /\ m \notin ended =>
               /\ lease[m].status = "active" /\ acq'[m].pc = acq[m].pc
               /\ Acquiring(m) => \A k \in Kinds : <<m, k>> \in kept'
  <2>1. /\ acq' = acq
        /\ \/ ended' = ended
           \/ /\ ended' = ended \cup {l} /\ lease[l].status = "active"
              /\ Acquiring(l) => {l} \X Kinds \subseteq kept'
    BY <1>0, <1>2, BeginsEffect
  <2>. QED BY <2>1
<1>. QED BY <1>1, <1>2, NextCases

LEMMA WaitsStep ==
  ASSUME Inv, ReleaseWaits, [Next]_vars
  PROVE  ReleaseWaits'
<1>. DEFINE Over == {"held", "failed", "dead"}
<1>0. TypeOK /\ ReleaseKnows /\ Counted BY DEF Inv
<1>1. ASSUME NEW l \in Leases, Acquire(l) PROVE ReleaseWaits'
  <2>1. Frame(l) /\ (Moves(l) \/ WritesLease(l) \/ WritesRow(l))
    BY <1>0, <1>1, AcquireEffect
  <2>2. acq[l].pc \notin Over BY <2>1, AcquireGoesOn
  <2>3. acq'[l].pc \notin Over => (lease'[l].status = "released" => lease[l].status = "released")
    BY <2>1 DEF Moves, WritesLease, WritesRow
  <2>4. kept \subseteq kept' /\ ended' = ended BY <2>1 DEF Frame
  <2>5. ASSUME NEW m \in Leases, acq'[m].pc \notin Over, m \in ended' \/ lease'[m].status = "released"
        PROVE  \A k \in Kinds : <<m, k>> \in kept'
    <3>1. acq[m].pc \notin Over /\ (m \in ended \/ lease[m].status = "released")
      BY <2>1, <2>2, <2>3, <2>4, <2>5 DEF Frame
    <3>. QED BY <2>4, <3>1 DEF ReleaseWaits
  <2>. QED BY <2>5 DEF ReleaseWaits
<1>2. CASE Next /\ ~(\E l \in Leases : Acquire(l))
  <2>1. Around BY <1>0, <1>2, AroundEffect, NextCases
  <2>2. ASSUME NEW m \in Leases, acq'[m].pc \notin Over, m \in ended' \/ lease'[m].status = "released"
        PROVE  \A k \in Kinds : <<m, k>> \in kept'
    <3>1. acq[m].pc \notin Over /\ kept \subseteq kept' BY <2>1, <2>2 DEF Around
    <3>2. CASE m \in ended \/ lease[m].status = "released" BY <3>1, <3>2 DEF ReleaseWaits
    <3>3. CASE m \in ended' /\ m \notin ended
      <4>1. /\ lease[m].status = "active"
            /\ Acquiring(m) => \A k \in Kinds : <<m, k>> \in kept'
        BY <1>2, <3>3, EndedEffect
      <4>2. acq[m].pc # "idle" BY <4>1 DEF Inv, NotYetEntered
      <4>. QED BY <3>1, <4>1, <4>2 DEF Acquiring
    <3>4. m \in ended' \/ m \in ended \/ lease[m].status = "released" BY <2>1, <2>2 DEF Around
    <3>. QED BY <3>2, <3>3, <3>4
  <2>. QED BY <2>2 DEF ReleaseWaits
<1>3. CASE UNCHANGED vars BY <1>3 DEF ReleaseWaits, vars, registry, procs
<1>. QED BY <1>1, <1>2, <1>3

\* Nothing around the Acquires makes a lease owe more.
LEMMA OwesNoMore ==
  ASSUME Around, NEW l \in Leases, NEW k \in Kinds, Owed(l, k)'
  PROVE  Owed(l, k)
<1>1. rows'[l][k] = rows[l][k] BY DEF Around, Owed, Registered
<1>. QED BY <1>1 DEF Around, Owed, Registered

\* A row that is given up is not owed any more.
LEMMA GivenUp ==
  ASSUME NEW l, NEW k, RowGivenUp(l, k)
  PROVE  ~(rows'[l][k] \in {"creating", "active"} /\ <<l, k>> \notin kept')
BY DEF RowGivenUp, RowIs

LEMMA FullNext ==
  ASSUME Inv',
         \A c \in Releasers, l \in Leases :
           rel'[c].lease = l => \A k \in Kinds : Owed(l, k)' => k \in rel'[c].todo
  PROVE  ListIsFull'
<1>. SUFFICES ASSUME NEW c \in Releasers, rel'[c].lease # None
              PROVE  \A k \in Kinds : Owed(rel[c].lease, k)' => k \in rel'[c].todo
  BY DEF ListIsFull
<1>1. rel'[c].lease \in Leases BY DEF Inv, TypeOK, RelState
<1>2. PICK l \in Leases : rel'[c].lease = l BY <1>1
<1>3. \A k : Owed(rel[c].lease, k)' => Owed(l, k)' BY <1>2 DEF Owed, Registered
<1>. QED BY <1>2, <1>3

\* A closed lease has given up every row, since the list was full.
LEMMA KeptStep == KeptInv /\ [Next]_vars => KeptInv'
<1>. SUFFICES ASSUME KeptInv, [Next]_vars PROVE KeptInv'
  OBVIOUS
<1>0. Inv /\ Inv' /\ TypeOK /\ ReleaseKnows /\ Counted BY InvStep DEF KeptInv, Inv
<1>a. \A c \in Releasers : /\ rel[c].todo \subseteq Kinds
                           /\ rel[c].lease # None => rel[c].lease \in Leases \cap ended
  BY <1>0 DEF TypeOK, RelState, ReleaseKnows
<1>1. ASSUME NEW l \in Leases, Acquire(l) PROVE ListIsFull' /\ ClosedIsEmpty'
  <2>1. Frame(l) /\ (Moves(l) \/ WritesLease(l) \/ WritesRow(l))
    BY <1>0, <1>1, AcquireEffect
  <2>2. acq[l].pc \notin {"held", "failed", "dead"} BY <2>1, AcquireGoesOn
  <2>3. kept \subseteq kept' /\ rel' = rel BY <2>1 DEF Frame
  <2>4. \A m \in Leases \ {l} : \A k \in Kinds : Owed(m, k)' => Owed(m, k)
    BY <2>1 DEF Frame, Owed, Registered
  <2>5. l \in ended \/ lease[l].status = "released" => \A k \in Kinds : ~Owed(l, k)'
    BY <2>2, <2>3 DEF KeptInv, ReleaseWaits, Owed
  <2>6. ListIsFull'
    <3>. SUFFICES ASSUME NEW c \in Releasers, rel[c].lease # None, NEW k \in Kinds,
                         Owed(rel[c].lease, k)'
                  PROVE  k \in rel[c].todo
      BY <2>3 DEF ListIsFull
    <3>0. rel'[c].lease = rel[c].lease BY <2>3
    <3>1. rel[c].lease \in Leases \cap ended BY <1>a
    <3>2. rel[c].lease # l BY <2>5, <3>0, <3>1 DEF Owed, Registered
    <3>3. Owed(rel[c].lease, k) BY <2>1, <3>0, <3>1, <3>2 DEF Frame, Owed, Registered
    <3>. QED BY <3>3 DEF KeptInv, ListIsFull
  <2>7. ASSUME lease'[l].status = "released" PROVE \A k \in Kinds : ~Owed(l, k)'
    <3>1. CASE lease[l].status = "released" BY <2>5, <3>1
    <3>2. CASE lease[l].status # "released"
      <4>1. acq'[l].pc = "failed" BY <2>1, <2>7, <3>2 DEF Moves, WritesLease, WritesRow
      <4>. QED BY <1>0, <4>1 DEF Inv, RolledBack
    <3>. QED BY <3>1, <3>2
  <2>8. ClosedIsEmpty' BY <2>1, <2>4, <2>7 DEF Frame, KeptInv, ClosedIsEmpty
  <2>. QED BY <2>6, <2>8
<1>2. CASE Bystands \/ (\E l \in Leases, ttl \in TTLs : Renew(l, ttl)) \/ UNCHANGED vars
  <2>1. UNCHANGED <<rel, rows, kept>> /\ \A l \in Leases : lease'[l].status = lease[l].status
    BY <1>0, <1>2, BystandEffect, RenewEffect DEF registry, vars, procs
  <2>2. ListIsFull' /\ ClosedIsEmpty'
    BY <2>1 DEF KeptInv, ListIsFull, ClosedIsEmpty, Owed, Registered
  <2>. QED BY <1>0, <2>2, WaitsStep DEF KeptInv
<1>3. ASSUME NEW l \in Leases, (\E c \in Clients : ClientRelease(c, l)) \/ ReapLease(l)
      PROVE  ListIsFull' /\ ClosedIsEmpty'
  <2>1. /\ UNCHANGED <<rows, lease>> /\ kept \subseteq kept'
        /\ \/ UNCHANGED <<rel, kept>>
           \/ \E c \in Releasers :
                /\ rel'[c].lease = l /\ rel'[c].todo = {k \in Kinds : Registered(l, k)}
                /\ \A d \in Releasers \ {c} : rel'[d] = rel[d]
    BY <1>0, <1>3, BeginsEffect DEF registry
  <2>. QED BY <2>1 DEF KeptInv, ListIsFull, ClosedIsEmpty, Owed, Registered
<1>4. ASSUME NEW c \in Releasers, Releasing(c) PROVE ListIsFull' /\ ClosedIsEmpty'
  <2>1. /\ \A d \in Releasers \ {c} : rel'[d] = rel[d]
        /\ rel[c].lease \in Leases /\ kept \subseteq kept'
        /\ Reclaims(c) \/ GivesUp(c) \/ Skips(c) \/ Closes(c)
    BY <1>0, <1>4, ReleasingEffect
  <2>2. Around BY <1>0, <1>4, AroundEffect
  <2>3. \A m \in Leases : \A k \in Kinds : Owed(m, k)' => Owed(m, k)
    BY <2>2, OwesNoMore
  <2>a. ASSUME NEW d \in Releasers, NEW m \in Leases, rel[d].lease = m, NEW k \in Kinds,
               Owed(m, k)'
        PROVE  k \in rel[d].todo
    <3>1. Owed(rel[d].lease, k) /\ rel[d].lease # None BY <2>3, <2>a, LeaseConstants
    <3>. QED BY <3>1 DEF KeptInv, ListIsFull
  <2>4. CASE Reclaims(c)
    <3>1. \A d \in Releasers : rel'[d].lease = rel[d].lease /\ rel'[d].todo = rel[d].todo
      BY <2>1, <2>4 DEF Reclaims
    <3>2. ListIsFull' BY <1>0, <2>a, <3>1, FullNext
    <3>3. ClosedIsEmpty' BY <2>3, <2>4 DEF Reclaims, KeptInv, ClosedIsEmpty
    <3>. QED BY <3>2, <3>3
  <2>5. CASE GivesUp(c) \/ Skips(c)
    <3>1. PICK k \in rel[c].todo : /\ rel'[c].todo = rel[c].todo \ {k}
                                   /\ RowGivenUp(rel[c].lease, k)
      BY <2>5 DEF GivesUp, Skips, RowGivenUp
    <3>2. lease' = lease /\ \A d \in Releasers : rel'[d].lease = rel[d].lease
      BY <2>1, <2>5 DEF GivesUp, Skips
    <3>3. \A m \in Leases : m = rel[c].lease => ~Owed(m, k)'
      BY <3>1, GivenUp DEF Owed, Registered
    <3>4. ASSUME NEW d \in Releasers, NEW m \in Leases, rel'[d].lease = m, NEW j \in Kinds,
                 Owed(m, j)'
          PROVE  j \in rel'[d].todo
      <4>1. j \in rel[d].todo /\ rel[d].lease = m BY <2>a, <3>2, <3>4
      <4>2. CASE d = c
        <5>1. j # k BY <3>3, <3>4, <4>1, <4>2
        <5>. QED BY <3>1, <4>1, <4>2, <5>1
      <4>3. CASE d # c BY <2>1, <4>1, <4>3
      <4>. QED BY <4>2, <4>3
    <3>5. ClosedIsEmpty' BY <2>3, <3>2 DEF KeptInv, ClosedIsEmpty
    <3>6. ListIsFull' BY <1>0, <3>4, FullNext
    <3>. QED BY <3>5, <3>6
  <2>6. CASE Closes(c)
    <3>1. rel[c].lease # None BY <2>1, LeaseConstants
    <3>2. \A k \in Kinds : ~Owed(rel[c].lease, k)
      BY <2>6, <3>1 DEF Closes, KeptInv, ListIsFull
    <3>3. ClosedIsEmpty'
      <4>. SUFFICES ASSUME NEW m \in Leases, lease'[m].status = "released", NEW k \in Kinds
                    PROVE  ~Owed(m, k)'
        BY DEF ClosedIsEmpty
      <4>1. CASE m = rel[c].lease BY <2>3, <3>2, <4>1
      <4>2. CASE m # rel[c].lease
        BY <2>3, <2>6, <4>2 DEF Closes, KeptInv, ClosedIsEmpty
      <4>. QED BY <4>1, <4>2
    <3>4. \A d \in Releasers \ {c} : rel'[d].lease = rel[d].lease /\ rel'[d].todo = rel[d].todo
      BY <2>1
    <3>5. rel'[c].lease \notin Leases BY <2>6, LeaseConstants DEF Closes
    <3>6. ListIsFull' BY <1>0, <2>a, <3>4, <3>5, FullNext
    <3>. QED BY <3>3, <3>6
  <2>. QED BY <2>1, <2>4, <2>5, <2>6
<1>5. ASSUME Crash PROVE ListIsFull' /\ ClosedIsEmpty'
  <2>1. UNCHANGED <<lease, rows, kept>> /\ \A c \in Releasers : rel'[c].lease = None
    BY <1>0, <1>5, CrashEffect DEF registry
  <2>. QED BY <2>1 DEF KeptInv, ListIsFull, ClosedIsEmpty, Owed, Registered
<1>6. ReleaseWaits' BY <1>0, WaitsStep DEF KeptInv
<1>7. CASE ListIsFull' /\ ClosedIsEmpty' BY <1>0, <1>6, <1>7 DEF KeptInv
<1>. QED BY <1>1, <1>2, <1>3, <1>4, <1>5, <1>7, NextCases

LEMMA InitWaits == Init => ReleaseWaits /\ ListIsFull /\ ClosedIsEmpty
<1>. SUFFICES ASSUME Init PROVE ReleaseWaits /\ ListIsFull /\ ClosedIsEmpty
  OBVIOUS
<1>1. \A l \in Leases : lease[l].status = "none" BY DEF Init
<1>2. \A c \in Releasers : rel[c].lease = None BY DEF Init
<1>3. ended = {} BY DEF Init
<1>. QED BY <1>1, <1>2, <1>3 DEF ReleaseWaits, ListIsFull, ClosedIsEmpty

\* No row blocks a db number or hides a database for ever, whichever Provision,
\* Reclaim or statement fails, whoever releases, and wherever the agent
\* crashes: but for the rows whose closing failed or was skipped, and those of
\* a lease that was released under its own Acquire.
THEOREM RowsAreGivenUp == Spec => []NoStrandedRow
<1>1. Init => KeptInv BY InitInv, InitWaits DEF KeptInv
<1>2. KeptInv => NoStrandedRow
  BY DEF KeptInv, NoStrandedRow, ClosedIsEmpty, Inv, RolledBack, Owed
<1>. QED BY <1>1, <1>2, KeptStep, PTL DEF Spec

-----------------------------------------------------------------------------
(* Whose keys are flushed.                                                  *)

\* What may happen to the keys of a db: its tenant or a user moves in, it is
\* flushed by a clean-up the properties name, or by the Acquire or a Release of
\* the lease that is registered with it.
MovesIn(s) ==
  /\ redis[s] = Empty /\ redis'[s] \in Leases /\ UNCHANGED <<acq, slot, ended>>
  /\ redis'[s] \notin ended /\ acq[redis'[s]].pc = "held" /\ slot[redis'[s]] = s
  /\ WantsRedis(redis'[s])

IsFlushed(s) ==
  /\ redis'[s] = Empty
  /\ \E l \in Leases :
       /\ slot[l] = s /\ Registered(l, "redis")
       /\ \/ acq[l].pc \in {"activate", "rollback"}
          \/ l \in ended /\ \E c \in Releasers : rel[c].lease = l /\ "redis" \in rel[c].todo

StrayClean(s) == StaleRelease(s) \/ LateAcquire(s) \/ DryClean(s)

KeysChange(s) ==
  \/ redis'[s] = redis[s]
  \/ MovesIn(s)
  \/ redis[s] = Empty /\ redis'[s] = User /\ s \notin ListActiveResourceNames /\ registry' = registry
  \/ IsFlushed(s)
  \/ redis'[s] = Empty /\ StrayClean(s)

\* A roll-back flushes the db its own row names, unless its lease was released.
LEMMA AcquireKeys ==
  ASSUME DataInv, NEW l \in Leases, Acquire(l), NEW s \in Slots
  PROVE  KeysChange(s)
<1>0. TypeOK /\ ReleaseKnows /\ Counted /\ Inv BY DEF Inv, DataInv
<1>a. DOMAIN redis = Slots BY <1>0 DEF TypeOK
<1>1. Moves(l) \/ WritesLease(l) \/ WritesRow(l) BY <1>0, AcquireEffect
<1>2. CASE redis'[s] = redis[s] BY <1>2 DEF KeysChange
<1>3. ASSUME redis' = [redis EXCEPT ![slot[l]] = Empty], redis'[s] # redis[s],
             acq[l].pc \in {"activate", "rollback"},
             l \notin ended => Registered(l, "redis")
      PROVE  KeysChange(s)
  <2>1. s = slot[l] /\ redis'[s] = Empty BY <1>a, <1>3
  <2>2. CASE l \in ended
    <3>1. <<l, "redis">> \in kept
      BY <1>3, <2>2 DEF DataInv, ReleaseWaits, Kinds
    <3>2. Acquiring(l) BY <1>3 DEF Acquiring
    <3>. QED BY <2>1, <3>1, <3>2 DEF KeysChange, StrayClean, LateAcquire
  <2>3. CASE Registered(l, "redis") BY <1>3, <2>1, <2>3 DEF KeysChange, IsFlushed
  <2>. QED BY <1>3, <2>2, <2>3
<1>4. CASE acq[l].pc = "activate" /\ Current(l) = "redis" /\ redis' = [redis EXCEPT ![slot[l]] = Empty]
  <2>1. l \notin ended => Registered(l, "redis") BY <1>0, <1>4 DEF Inv, OwnRows, Registered
  <2>. QED BY <1>2, <1>3, <1>4, <2>1
<1>5. CASE /\ acq[l].pc = "rollback" /\ acq[l].step # 1
           /\ Wants[l][acq[l].step - 1] = "redis"
           /\ redis' = [redis EXCEPT ![slot[l]] = Empty]
  <2>1. acq[l].step - 1 \in 1 .. (acq[l].step - 1) BY <1>0, <1>5, StepInRange
  <2>2. l \notin ended => Registered(l, "redis")
    BY <1>0, <1>5, <2>1 DEF Inv, OwnRows, Registered
  <2>. QED BY <1>2, <1>3, <1>5, <2>2
<1>6. CASE redis' = redis BY <1>2, <1>6
<1>. QED BY <1>1, <1>4, <1>5, <1>6 DEF Moves, WritesLease, WritesRow

LEMMA KeysStep ==
  ASSUME DataInv, Next, NEW s \in Slots
  PROVE  KeysChange(s)
<1>0. TypeOK /\ ReleaseKnows /\ Counted /\ Inv BY DEF Inv, DataInv
<1>a. DOMAIN redis = Slots BY <1>0 DEF TypeOK
<1>1. ASSUME NEW l \in Leases, Acquire(l) PROVE KeysChange(s) BY <1>1, AcquireKeys
<1>2. ASSUME NEW l \in Leases, TenantWrites(l) PROVE KeysChange(s)
  <2>1. /\ redis' = [redis EXCEPT ![slot[l]] = l] /\ redis[slot[l]] = Empty
        /\ acq[l].pc = "held" /\ l \notin ended /\ WantsRedis(l) /\ UNCHANGED <<acq, slot, ended>>
    BY <1>2 DEF TenantWrites, procs, registry
  <2>2. redis'[s] = redis[s] \/ (s = slot[l] /\ redis'[s] = l) BY <1>a, <2>1
  <2>. QED BY <2>1, <2>2 DEF KeysChange, MovesIn
<1>3. ASSUME NEW t \in Slots, UserWrites(t) PROVE KeysChange(s)
  <2>1. /\ redis' = [redis EXCEPT ![t] = User] /\ redis[t] = Empty
        /\ t \notin ListActiveResourceNames /\ registry' = registry
    BY <1>3 DEF UserWrites
  <2>2. redis'[s] = redis[s] \/ (s = t /\ redis'[s] = User) BY <1>a, <2>1
  <2>. QED BY <2>1, <2>2 DEF KeysChange
<1>4. CASE \/ ReapExpired \/ ReapKnown \/ Reconcile \/ EndRound \/ Tick
           \/ \E n \in Leases \cup {Dry} : SweepOrphan(n) \/ SweepFails(n)
           \/ \E l \in Leases, ttl \in TTLs : Renew(l, ttl)
           \/ \E l \in Leases : (\E c \in Clients : ClientRelease(c, l)) \/ ReapLease(l)
           \/ Crash
  <2>1. redis' = redis
    BY <1>4 DEF ReapExpired, ReapKnown, Reconcile, EndRound, Tick, SweepOrphan, SweepFails,
       DropDatabase, Renew, ClientRelease, ReapLease, Crash, servers
  <2>. QED BY <2>1 DEF KeysChange
<1>5. CASE DryRun
  <2>1. \/ redis' = redis
        \/ dry.pc = "redis" /\ redis' = [redis EXCEPT ![dry.slot] = Empty]
    BY <1>5 DEF DryRun, DryPlan, DryDatabase, DrySlot, DryReclaim, servers
  <2>2. redis'[s] = redis[s] \/ (dry.pc = "redis" /\ dry.slot = s /\ redis'[s] = Empty)
    BY <1>a, <2>1
  <2>. QED BY <2>2 DEF KeysChange, StrayClean, DryClean
<1>6. ASSUME NEW c \in Releasers, Releasing(c) PROVE KeysChange(s)
  <2>. DEFINE l == rel[c].lease
  <2>1. l \in Leases \cap ended /\ (Reclaims(c) \/ GivesUp(c) \/ Skips(c) \/ Closes(c))
    BY <1>0, <1>6, ReleasingEffect
  <2>2. CASE redis'[s] = redis[s] BY <2>2 DEF KeysChange
  <2>3. CASE /\ "redis" \in rel[c].todo /\ redis' = [redis EXCEPT ![slot[l]] = Empty]
             /\ redis'[s] # redis[s]
    <3>1. s = slot[l] /\ redis'[s] = Empty BY <1>a, <2>3
    <3>2. CASE Registered(l, "redis") BY <2>1, <2>3, <3>1, <3>2 DEF KeysChange, IsFlushed
    <3>3. CASE ~Registered(l, "redis")
      BY <2>3, <3>1, <3>3 DEF KeysChange, StrayClean, StaleRelease
    <3>. QED BY <3>2, <3>3
  <2>. QED BY <2>1, <2>2, <2>3 DEF Reclaims, GivesUp, Skips, Closes
<1>. QED BY <1>1, <1>2, <1>3, <1>4, <1>5, <1>6, NextCases DEF Bystands

\* What a client was handed stays with it.
LEMMA HeldStays ==
  ASSUME Inv, Next
  PROVE  /\ ended \subseteq ended'
         /\ \A l \in Leases : acq[l].pc = "held" => acq'[l].pc = "held" /\ slot'[l] = slot[l]
<1>0. TypeOK /\ ReleaseKnows /\ Counted BY DEF Inv
<1>1. ASSUME NEW m \in Leases, Acquire(m)
      PROVE  /\ ended \subseteq ended'
             /\ \A l \in Leases : acq[l].pc = "held" => acq'[l].pc = "held" /\ slot'[l] = slot[l]
  <2>1. Frame(m) /\ (Moves(m) \/ WritesLease(m) \/ WritesRow(m))
    BY <1>0, <1>1, AcquireEffect
  <2>2. acq[m].pc # "held" BY <2>1, AcquireGoesOn
  <2>. QED BY <2>1, <2>2 DEF Frame
<1>2. CASE ~(\E m \in Leases : Acquire(m))
  <2>1. Around BY <1>0, <1>2, NextCases, AroundEffect
  <2>. QED BY <2>1 DEF Around, Acquiring
<1>. QED BY <1>1, <1>2

\* A client's db is registered as its own, and only what is registered with it
\* or one of the named clean-ups flushes it.
LEMMA TenantStep ==
  ASSUME DataInv, Next, NEW s \in Slots, redis[s] \in Leases, redis[s] \notin ended
  PROVE  redis'[s] = redis[s] \/ StaleRelease(s) \/ LateAcquire(s) \/ DryClean(s)
<1>. DEFINE m == redis[s]
<1>1. acq[m].pc = "held" /\ slot[m] = s /\ WantsRedis(m) BY DEF DataInv, OwnKeys
<1>2. Registered(m, "redis") BY <1>1 DEF DataInv, Inv, OwnRows, WantsRedis, Registered
<1>3. ~IsFlushed(s) BY <1>1, <1>2 DEF IsFlushed, DataInv, Inv, SlotsUnique
<1>4. redis[s] # Empty BY LeaseConstants
<1>. QED BY <1>3, <1>4, KeysStep DEF KeysChange, MovesIn, StrayClean

LEMMA OwnKeysStep ==
  ASSUME DataInv, Next
  PROVE  OwnKeys'
<1>0. Inv BY DEF DataInv
<1>. SUFFICES ASSUME NEW s \in Slots, redis'[s] \in Leases, redis'[s] \notin ended'
              PROVE  /\ acq'[redis'[s]].pc = "held" /\ slot'[redis'[s]] = s
                     /\ WantsRedis(redis'[s])
  BY DEF OwnKeys, WantsRedis
<1>1. redis'[s] # Empty /\ redis'[s] # User BY LeaseConstants
<1>2. CASE redis'[s] = redis[s]
  <2>1. redis[s] \notin ended BY <1>0, <1>2, HeldStays
  <2>2. acq[redis[s]].pc = "held" /\ slot[redis[s]] = s /\ WantsRedis(redis[s])
    BY <1>2, <2>1 DEF DataInv, OwnKeys
  <2>. QED BY <1>0, <1>2, <2>2, HeldStays
<1>3. CASE MovesIn(s) BY <1>3 DEF MovesIn
<1>. QED BY <1>1, <1>2, <1>3, KeysStep DEF KeysChange, IsFlushed

\* A user's keys are in no db a call takes to be verified.
LEMMA UserApartStep ==
  ASSUME DataInv, Next
  PROVE  UserApart'
<1>0. TypeOK /\ ReleaseKnows /\ Counted /\ Inv /\ ReleaseWaits BY DEF Inv, DataInv
<1>. DEFINE Apart(l) == \/ acq[l].pc = "provision" /\ Current(l) = "redis"
                        \/ <<l, "redis">> \in kept
                        \/ acq[l].pc = "dead" /\ rows[l]["redis"] = "creating"
<1>. SUFFICES ASSUME NEW l \in Leases, Registered(l, "redis")', slot'[l] \in Slots,
                     redis'[slot'[l]] = User
              PROVE  Apart(l)'
  BY DEF UserApart
<1>. DEFINE s == slot'[l]
<1>a. User # Empty /\ User \notin Leases BY LeaseConstants
<1>1. redis[s] = User \/ (s \notin ListActiveResourceNames /\ registry' = registry)
  BY <1>a, KeysStep DEF KeysChange, MovesIn, IsFlushed
<1>2. CASE redis[s] = User
  <2>1. Registered(l, "redis") /\ slot'[l] = slot[l] => Apart(l)
    BY <1>2 DEF DataInv, UserApart
  <2>2. CASE Acquire(l)
    <3>1. Frame(l) /\ (Moves(l) \/ WritesLease(l) \/ WritesRow(l))
      BY <1>0, <2>2, AcquireEffect
    <3>a. kept \subseteq kept' /\ ended' = ended BY <3>1 DEF Frame
    <3>b. CASE <<l, "redis">> \in kept BY <3>a, <3>b
    <3>c. CASE l \in ended
      <4>1. acq[l].pc \notin {"held", "failed", "dead"} BY <3>1, AcquireGoesOn
      <4>2. <<l, "redis">> \in kept BY <1>0, <3>c, <4>1 DEF ReleaseWaits, Kinds
      <4>. QED BY <3>a, <4>2
    <3>2. CASE WritesLease(l) /\ <<l, "redis">> \notin kept
      <4>1. Registered(l, "redis") /\ slot' = slot /\ acq[l].pc \in {"insert", "close"}
        BY <3>2 DEF WritesLease, Registered
      <4>. QED BY <2>1, <3>2, <4>1
    <3>3. CASE Moves(l) /\ <<l, "redis">> \notin kept
      <4>1. Registered(l, "redis") BY <3>3 DEF Moves, Registered
      <4>2. acq[l].pc # "plan" BY <1>0, <4>1 DEF Inv, NotYetEntered, Registered, Kinds
      <4>3. SlotUnclaimed(l) BY <1>0, <4>1 DEF Inv, SlotsUnique, SlotUnclaimed
      <4>4. slot' = slot BY <3>3, <4>2, <4>3 DEF Moves
      <4>5. redis[slot[l]] # Empty BY <1>2, <1>a, <4>4
      <4>6. acq[l].pc # "dead" BY <3>3 DEF Moves
      <4>. QED BY <2>1, <3>3, <4>1, <4>4, <4>5, <4>6 DEF Moves
    <3>4. CASE WritesRow(l) /\ <<l, "redis">> \notin kept /\ l \notin ended
      <4>1. slot' = slot /\ acq[l].pc # "dead" BY <3>4 DEF WritesRow
      <4>2. Registered(l, "redis") => acq[l].pc = "provision" /\ Current(l) = "redis"
        BY <2>1, <3>4, <4>1
      <4>4. CASE acq[l].pc = "reserve"
        <5>1. acq'[l].pc = "provision" /\ acq'[l].step = acq[l].step
              /\ RowIs(l, Current(l), "creating")
          BY <3>4, <4>4 DEF WritesRow
        <5>2. Current(l) = "redis" BY <4>2, <4>4, <5>1 DEF RowIs, Registered, Kinds
        <5>. QED BY <5>1, <5>2 DEF Current
      <4>5. CASE acq[l].pc = "activate" /\ Current(l) = "redis"
        <5>1. Registered(l, "redis") BY <1>0, <3>4, <4>5 DEF Inv, OwnRows, Registered
        <5>. QED BY <4>2, <4>5, <5>1
      <4>6. ASSUME NEW k \in Kinds, RowGivenUp(l, k), acq[l].pc = "provision" => k = Current(l)
            PROVE  Apart(l)'
        <5>1. CASE rows'[l]["redis"] = rows[l]["redis"] /\ k # "redis"
          BY <4>2, <4>6, <5>1 DEF Registered
        <5>2. CASE k = "redis"
          <6>1. ~(rows'[l]["redis"] \in {"creating", "active"} /\ <<l, "redis">> \notin kept')
            BY <4>6, <5>2, GivenUp
          <6>. QED BY <6>1 DEF Registered
        <5>. QED BY <4>6, <5>1, <5>2 DEF RowGivenUp, RowIs, Kinds
      <4>7. CASE acq[l].pc = "activate" /\ Current(l) # "redis" /\ RowIs(l, Current(l), "active")
        BY <4>2, <4>7 DEF RowIs, Registered, Kinds
      <4>8. Current(l) \in Kinds /\ (acq[l].step # 1 => Wants[l][acq[l].step - 1] \in Kinds)
        <5>1. acq[l].step \in 1 .. Len(Wants[l]) /\ Current(l) \in Kinds /\ Len(Wants[l]) \in Nat
          BY <1>0, <3>4, StepInRange DEF WritesRow
        <5>. QED BY <5>1, WantedKinds
      <4>9. CASE \E k \in Kinds : RowGivenUp(l, k) /\ (acq[l].pc = "provision" => k = Current(l))
        BY <4>6, <4>9
      <4>. QED BY <3>4, <4>4, <4>5, <4>7, <4>8, <4>9 DEF WritesRow
    <3>. QED BY <3>1, <3>b, <3>c, <3>2, <3>3, <3>4
  <2>3. ASSUME NEW m \in Leases, Acquire(m), m # l
        PROVE  Apart(l)'
    <3>1. Frame(m) BY <1>0, <2>3, AcquireEffect
    <3>. QED BY <2>1, <2>3, <3>1 DEF Frame, Registered, Current
  <2>4. CASE ~(\E m \in Leases : Acquire(m))
    <3>1. Around BY <1>0, <2>4, NextCases, AroundEffect
    <3>2. /\ Registered(l, "redis") /\ slot' = slot /\ kept \subseteq kept'
          /\ rows'[l]["redis"] = rows[l]["redis"]
      BY <3>1 DEF Around, Registered, Kinds
    <3>3. Apart(l) BY <2>1, <3>2
    <3>4. acq'[l].pc = acq[l].pc \/ (acq'[l].pc = "dead" /\ Acquiring(l)) BY <3>1 DEF Around
    <3>5. Current(l)' = Current(l) BY <3>1 DEF Around, Current
    <3>6. CASE acq[l].pc = "provision" /\ Current(l) = "redis"
      <4>1. CASE l \in ended
        <5>1. <<l, "redis">> \in kept BY <1>0, <3>6, <4>1 DEF ReleaseWaits, Kinds
        <5>. QED BY <3>2, <5>1
      <4>2. CASE l \notin ended
        <5>1. rows[l]["redis"] = "creating" BY <1>0, <3>6, <4>2 DEF Inv, OwnRows
        <5>. QED BY <3>2, <3>4, <3>5, <3>6, <5>1
      <4>. QED BY <4>1, <4>2
    <3>. QED BY <3>2, <3>3, <3>4, <3>6 DEF Acquiring
  <2>. QED BY <2>2, <2>3, <2>4
<1>3. CASE s \notin ListActiveResourceNames /\ registry' = registry
  BY <1>3 DEF ListActiveResourceNames, registry, Registered
<1>. QED BY <1>1, <1>2, <1>3

LEMMA DataStep == DataInv /\ [Next]_vars => DataInv'
<1>. SUFFICES ASSUME DataInv, [Next]_vars PROVE DataInv'
  OBVIOUS
<1>0. Inv' /\ ReleaseWaits' BY InvStep, WaitsStep DEF DataInv
<1>1. CASE UNCHANGED vars
  <2>1. UNCHANGED <<rows, lease, slot, redis, acq, ended, kept>>
    BY <1>1 DEF vars, registry, servers, procs
  <2>. QED BY <1>0, <2>1 DEF DataInv, OwnKeys, UserApart, Registered, Current
<1>2. CASE Next BY <1>0, <1>2, OwnKeysStep, UserApartStep DEF DataInv
<1>. QED BY <1>1, <1>2

LEMMA InitData == Init => DataInv
<1>. SUFFICES ASSUME Init PROVE DataInv
  OBVIOUS
<1>1. Inv /\ ReleaseWaits BY InitInv, InitWaits
<1>2. OwnKeys BY LeaseConstants DEF Init, OwnKeys
<1>3. UserApart BY LeaseConstants DEF Init, UserApart
<1>. QED BY <1>1, <1>2, <1>3 DEF DataInv

\* The keys of a client that still holds its lease are flushed by nobody but a
\* stale Release, the roll-back of a lease released under it, or a dry run,
\* whatever users write, whichever call fails and wherever the agent crashes.
THEOREM TenantsKeepTheirData == Spec => TenantDataKept
<1>1. DataInv /\ [Next]_vars =>
        [\A s \in Slots : redis[s] \in Leases /\ redis[s] \notin ended =>
           redis'[s] = redis[s] \/ StaleRelease(s) \/ LateAcquire(s) \/ DryClean(s)]_vars
  BY TenantStep
<1>. QED BY <1>1, InitData, DataStep, PTL DEF Spec, TenantDataKept

\* Keys somebody keeps by hand are flushed by nobody but these and a Release of
\* a row whose db was never seen empty, whenever the keys appear.
THEOREM UsersKeepTheirData == Spec => UserDataKept
<1>1. DataInv /\ [Next]_vars =>
        [\A s \in Slots : redis[s] = User =>
           \/ redis'[s] = User
           \/ StaleRelease(s) \/ LateAcquire(s) \/ DryClean(s) \/ UnverifiedRelease(s)]_vars
  <2>. SUFFICES ASSUME DataInv, Next, NEW s \in Slots, redis[s] = User
                PROVE  \/ redis'[s] = User
                       \/ StaleRelease(s) \/ LateAcquire(s) \/ DryClean(s) \/ UnverifiedRelease(s)
    OBVIOUS
  <2>1. User # Empty BY LeaseConstants
  <2>2. ASSUME IsFlushed(s) PROVE LateAcquire(s) \/ UnverifiedRelease(s)
    <3>1. PICK l \in Leases :
            /\ slot[l] = s /\ Registered(l, "redis")
            /\ \/ acq[l].pc \in {"activate", "rollback"}
               \/ l \in ended /\ \E c \in Releasers : rel[c].lease = l /\ "redis" \in rel[c].todo
      BY <2>2 DEF IsFlushed
    <3>2. \/ acq[l].pc = "provision" /\ Current(l) = "redis"
          \/ <<l, "redis">> \in kept
          \/ acq[l].pc = "dead" /\ rows[l]["redis"] = "creating"
      BY <3>1 DEF DataInv, UserApart
    <3>3. CASE acq[l].pc \in {"activate", "rollback"}
      BY <3>1, <3>2, <3>3 DEF LateAcquire, Acquiring
    <3>4. ASSUME NEW c \in Releasers, rel[c].lease = l, "redis" \in rel[c].todo, l \in ended
          PROVE  UnverifiedRelease(s)
      <4>1. acq[l].pc = "provision" => <<l, "redis">> \in kept
        BY <3>4 DEF DataInv, ReleaseWaits, Kinds
      <4>. QED BY <3>1, <3>2, <3>4, <4>1 DEF UnverifiedRelease
    <3>. QED BY <3>1, <3>3, <3>4
  <2>. QED BY <2>1, <2>2, KeysStep DEF KeysChange, MovesIn, StrayClean
<1>. QED BY <1>1, InitData, DataStep, PTL DEF Spec, UserDataKept
=============================================================================
