--------------------------- MODULE OperationGate ---------------------------
(***************************************************************************)
(* The approval gate every write operation passes through: the approval   *)
(* file store (agent/operation/store.go), the project grace windows       *)
(* (agent/operation/grace.go) and the HTTP handlers that drive them       *)
(* (agent/api/handler_operations.go).                                     *)
(*                                                                         *)
(* Every method of a store runs under that store's mutex and ends in one  *)
(* whole-file save, so it is one action.  authorizeOperation calls         *)
(* several of them, and the settings store, without any lock across the    *)
(* calls: each request is a process whose steps interleave with the other  *)
(* requests, the deciders, the clock and a crash of the agent.  The files  *)
(* survive a crash, the requests do not.                                   *)
(*                                                                         *)
(* A plan stands for its fingerprint; a token for its hash.  Time is a     *)
(* monotone tick counter.                                                  *)
(***************************************************************************)
EXTENDS Naturals, FiniteSets

CONSTANTS
  Ids,          \* approval ids (newID never repeats one)
  Tokens,       \* one-time tokens (newToken never repeats one)
  Plans,        \* operation plans, identified by their fingerprint
  Projects,     \* projects a plan may target
  Requests,     \* HTTP requests that reach authorizeOperation
  Requesters,   \* X-SuperDev requester identities
  Deciders,     \* principals that approve or reject
  ProjectOf,    \* [Plans -> Projects \cup {NoProject}]
  DeniedPlans,  \* plans the safety policy denies
  ToggledPlans, \* plans whose kind an agent setting switches
  ReviewedPlans,\* plans that require approval by their own kind
  NoId, NoToken, NoPlan, NoProject, Nobody,
  ApprovalTTL, TokenTTL, GraceTTL,
  Limit, Floor, \* retention budget and its floor for terminal records
  MaxTime       \* bound: the clock stops here

ASSUME GateConstants ==
  /\ ProjectOf \in [Plans -> Projects \cup {NoProject}]
  /\ DeniedPlans \subseteq Plans
  /\ ToggledPlans \subseteq Plans
  /\ ReviewedPlans \subseteq Plans
  /\ NoId \notin Ids /\ NoToken \notin Tokens /\ NoPlan \notin Plans
  /\ NoProject \notin Projects /\ Nobody \notin Deciders

ASSUME GateNumbers ==
  /\ ApprovalTTL \in Nat /\ TokenTTL \in Nat /\ GraceTTL \in Nat
  /\ Limit \in Nat /\ Floor \in Nat /\ MaxTime \in Nat

VARIABLES
  now,        \* the wall clock
  approvals,  \* the approvals file: a record per id, status "absent" when not in it
  grace,      \* the grace file: per project the window's end and the approval it came from
  graceFile,  \* "ok", or "torn" after a crash inside its non-atomic save
  policy,     \* the agent setting that switches ToggledPlans
  req,        \* the requests inside authorizeOperation and the handler behind it
  granting,   \* approve handlers between Approve and GrantGrace: pairs <<id, project>>
  hist,       \* history: for every id ever created its plan and its first decision
  minted,     \* history: tokens ever issued
  runs        \* history: operations executed on the strength of each approval

vars == <<now, approvals, grace, graceFile, policy, req, granting, hist, minted, runs>>

Statuses == {"absent", "pending", "approved", "rejected", "expired", "used"}

Approval ==
  [status : Statuses, plan : Plans \cup {NoPlan}, by : Requesters \cup {Nobody},
   decidedBy : Deciders \cup {Nobody}, updated : Nat, expires : Nat,
   token : Tokens \cup {NoToken}, tokenExpires : Nat]

Absent ==
  [status |-> "absent", plan |-> NoPlan, by |-> Nobody, decidedBy |-> Nobody,
   updated |-> 0, expires |-> 0, token |-> NoToken, tokenExpires |-> 0]

Grant == [until : Nat, from : Ids \cup {NoId}]
NoGrant == [until |-> 0, from |-> NoId]

Request ==
  [pc : {"idle", "grace", "consume", "pend", "granted"},
   plan : Plans \cup {NoPlan}, by : Requesters \cup {Nobody},
   token : Tokens \cup {NoToken},
   via : {"none", "open", "grace", "token"}, from : Ids \cup {NoId}]

IdleRequest ==
  [pc |-> "idle", plan |-> NoPlan, by |-> Nobody, token |-> NoToken,
   via |-> "none", from |-> NoId]

TypeOK ==
  /\ now \in Nat
  /\ approvals \in [Ids -> Approval]
  /\ grace \in [Projects -> Grant]
  /\ graceFile \in {"ok", "torn"}
  /\ policy \in BOOLEAN
  /\ req \in [Requests -> Request]
  /\ granting \subseteq Ids \X Projects
  /\ hist \in [Ids -> [plan : Plans \cup {NoPlan},
                       decision : {"none", "approved", "rejected"}]]
  /\ minted \subseteq Tokens
  /\ runs \in [Ids -> Nat]

-----------------------------------------------------------------------------
(* The store's guards.  Plausible mistakes stand before the guard they     *)
(* would replace; no action uses them.                                     *)

Present == {id \in Ids : approvals[id].status # "absent"}

\* now.After(ExpiresAt): the instant of expiry itself still counts as valid.
PastExpiry(a) == now > a.expires

tokenExpired(a) == a.token # NoToken /\ now > a.tokenExpires

ensureApprovalDecisionAllowed(a) == a.status = "pending" /\ ~PastExpiry(a)

ensureTokenIssueAllowed(a) ==
  a.status = "approved" /\ ~PastExpiry(a) /\ ~tokenExpired(a)

Expirable(a) == a.status \in {"pending", "approved"} /\ PastExpiry(a)

\* Every change of status stamps UpdatedAt.
Stamped(a, status) == [a EXCEPT !.status = status, !.updated = now]

expireApprovals ==
  [id \in Ids |-> IF Expirable(approvals[id])
                    THEN Stamped(approvals[id], "expired") ELSE approvals[id]]

\* Mistake: only pending requests are protected from the retention budget.
OnlyPendingIsLoadBearing(a) == a.status = "pending" /\ ~PastExpiry(a)

approvalIsLoadBearing(a) == a.status \in {"pending", "approved"} /\ ~PastExpiry(a)

Smaller(m, n) == IF m < n THEN m ELSE n
Larger(m, n) == IF m < n THEN n ELSE m

\* The record sets trimApprovals may keep of the file `store`: everything when
\* it fits, otherwise all load-bearing records and the most recently updated
\* rest.  Records of one tick tie, so there may be several answers.
trimApprovals(store) ==
  LET present     == {id \in Ids : store[id].status # "absent"}
      loadBearing == {id \in present : approvalIsLoadBearing(store[id])}
      trimmable   == present \ loadBearing
      over        == IF Limit > Cardinality(loadBearing)
                       THEN Limit - Cardinality(loadBearing) ELSE 0
      remaining   == Larger(over, Smaller(Limit, Floor))
      Newest(keep) == \A k \in keep, d \in trimmable \ keep :
                         store[k].updated >= store[d].updated
  IN IF Limit = 0 \/ Cardinality(present) <= Limit
       THEN {present}
       ELSE {loadBearing \cup keep : keep \in
               {k \in SUBSET trimmable :
                  /\ Cardinality(k) = Smaller(remaining, Cardinality(trimmable))
                  /\ Newest(k)}}

Keeping(store, kept) == [id \in Ids |-> IF id \in kept THEN store[id] ELSE Absent]

-----------------------------------------------------------------------------
(* The approval store.                                                     *)

\* Mistake: every call appends a request of its own.
NeverReusable(store, p, who) == {}

Reusable(store, p, who) ==
  {id \in Ids : /\ store[id].status = "pending" /\ store[id].plan = p
                /\ store[id].by = who /\ store[id].expires > now}

NewApproval(p, who) ==
  [Absent EXCEPT !.status = "pending", !.plan = p, !.by = who,
                 !.updated = now, !.expires = now + ApprovalTTL]

\* FindOrCreatePending: sweep the expired, reuse the caller's live pending
\* request for the same plan, otherwise append one and trim the file.
FindOrCreatePending(p, who) ==
  LET swept == expireApprovals IN
  \/ /\ Reusable(swept, p, who) # {}
     /\ approvals' = swept
     /\ UNCHANGED hist
  \/ /\ Reusable(swept, p, who) = {}
     /\ \E id \in Ids :
          /\ hist[id].plan = NoPlan
          /\ LET appended == [swept EXCEPT ![id] = NewApproval(p, who)] IN
             \E kept \in trimApprovals(appended) :
                approvals' = Keeping(appended, kept)
          /\ hist' = [hist EXCEPT ![id].plan = p]

Approved(a, who) == [Stamped(a, "approved") EXCEPT !.decidedBy = who]

Approve(id, who) ==
  /\ ensureApprovalDecisionAllowed(approvals[id])
  /\ approvals' = [approvals EXCEPT ![id] = Approved(@, who)]
  /\ hist' = [hist EXCEPT ![id].decision = "approved"]

Rejected(a, who) ==
  [Stamped(a, "rejected") EXCEPT !.decidedBy = who, !.token = NoToken, !.tokenExpires = 0]

Reject(id, who) ==
  /\ ensureApprovalDecisionAllowed(approvals[id])
  /\ approvals' = [approvals EXCEPT ![id] = Rejected(@, who)]
  /\ hist' = [hist EXCEPT ![id].decision = "rejected"]

\* Mistake: TokenExpiresAt is left unset.
TokenWithoutExpiry(a, t) ==
  [a EXCEPT !.token = t, !.tokenExpires = NoToken, !.updated = now]

\* The hash of the token issued before, if any, is overwritten.
WithToken(a, t) ==
  [a EXCEPT !.token = t, !.tokenExpires = now + TokenTTL, !.updated = now]

IssueToken(id, t) ==
  /\ ensureTokenIssueAllowed(approvals[id])
  /\ t \notin minted
  /\ minted' = minted \cup {t}
  /\ approvals' = [approvals EXCEPT ![id] = WithToken(@, t)]

\* Mistake: the plan the token was issued for is not compared.
AnyPlan(a, p) == TRUE

MatchesPlan(a, p) == a.plan = p

\* Mistake: the token of an executed approval stays redeemable.
NotMarkedUsed(a) == [a EXCEPT !.updated = now]

MarkUsed(a) == Stamped(a, "used")

Spent(a) == a.status = "expired" \/ PastExpiry(a) \/ tokenExpired(a)

Redeemable(a, p) == a.status = "approved" /\ ~Spent(a) /\ MatchesPlan(a, p)

-----------------------------------------------------------------------------
(* The grace store.  ActiveGrace and GrantGrace drop windows whose end is   *)
(* not after now; a torn file makes both fail until someone repairs it.     *)

LiveGrants ==
  [p \in Projects |-> IF grace[p].until > now THEN grace[p] ELSE NoGrant]

ActiveGrace(p) ==
  IF graceFile = "ok" /\ p \in Projects /\ LiveGrants[p] # NoGrant
    THEN {LiveGrants[p]} ELSE {}

\* ActiveGrace saves the file when it dropped a window; nothing is dropped
\* when the plan has no project or the file cannot be read.
SweepGrace(p) ==
  grace' = IF graceFile = "ok" /\ p \in Projects THEN LiveGrants ELSE grace

-----------------------------------------------------------------------------
(* authorizeOperation, one action per store it consults.                    *)

\* applyApprovalPolicy: the setting replaces the requirement of a toggled kind.
RequiresApproval(p) == IF p \in ToggledPlans THEN policy ELSE p \in ReviewedPlans

Goto(r, pc) == req' = [req EXCEPT ![r].pc = pc]
Answer(r) == req' = [req EXCEPT ![r] = IdleRequest]
Allow(r, via, from) ==
  req' = [req EXCEPT ![r].pc = "granted", ![r].via = via, ![r].from = from]

\* applyApprovalPolicy and the first two exits of authorizeOperation.
AfterPolicy(p) ==
  IF p \in DeniedPlans THEN "idle" ELSE IF ~RequiresApproval(p) THEN "granted" ELSE "grace"

\* A caller sends a plan, with a token it was handed or without one, and the
\* settings are read.
Authorize(r, p, who, t) ==
  /\ req[r].pc = "idle"
  /\ t \in minted \cup {NoToken}
  /\ LET pc == AfterPolicy(p) IN
     req' = [req EXCEPT ![r] =
       IF pc = "idle" THEN IdleRequest
       ELSE [pc |-> pc, plan |-> p, by |-> who, token |-> t,
             via |-> IF pc = "granted" THEN "open" ELSE "none", from |-> NoId]]
  /\ UNCHANGED <<now, approvals, grace, graceFile, policy, granting, hist, minted, runs>>

ConsultGrace(r) ==
  LET p == ProjectOf[req[r].plan] IN
  /\ req[r].pc = "grace"
  /\ SweepGrace(p)
  /\ \/ \E g \in ActiveGrace(p) : Allow(r, "grace", g.from)
     \/ /\ ActiveGrace(p) = {}
        /\ Goto(r, IF req[r].token # NoToken THEN "consume" ELSE "pend")
  /\ UNCHANGED <<now, approvals, graceFile, policy, granting, hist, minted, runs>>

\* ConsumeToken: the record that holds the token's hash decides.  A redeemable
\* one is marked used, a spent one expired; every other refusal leaves the file
\* alone.
Redeem(r, id) ==
  /\ Redeemable(approvals[id], req[r].plan)
  /\ approvals' = [approvals EXCEPT ![id] = MarkUsed(@)]
  /\ Allow(r, "token", id)

Lapsed(a) == a.status \notin {"used", "rejected"} /\ Spent(a)

Lapse(r, id) ==
  /\ Lapsed(approvals[id])
  /\ approvals' = [approvals EXCEPT ![id] = Stamped(@, "expired")]
  /\ Answer(r)

ConsumeToken(r) ==
  LET held == {id \in Ids : approvals[id].token = req[r].token} IN
  /\ req[r].pc = "consume"
  /\ \/ \E id \in held : Redeem(r, id) \/ Lapse(r, id)
     \/ /\ \A id \in held : ~Redeemable(approvals[id], req[r].plan) /\ ~Lapsed(approvals[id])
        /\ Answer(r)
        /\ UNCHANGED approvals
  /\ UNCHANGED <<now, grace, graceFile, policy, granting, hist, minted, runs>>

AskApproval(r) ==
  /\ req[r].pc = "pend"
  /\ FindOrCreatePending(req[r].plan, req[r].by)
  /\ Answer(r)
  /\ UNCHANGED <<now, grace, graceFile, policy, granting, minted, runs>>

\* The handler behind the gate runs the operation it was allowed.
Execute(r) ==
  /\ req[r].pc = "granted"
  /\ runs' = IF req[r].via = "token" THEN [runs EXCEPT ![req[r].from] = @ + 1] ELSE runs
  /\ Answer(r)
  /\ UNCHANGED <<now, approvals, grace, graceFile, policy, granting, hist, minted>>

\* A store cannot be read or saved: the request is answered with an error and
\* the file keeps its former content (tmp file, then rename).
StoreFails(r) ==
  /\ req[r].pc \in {"consume", "pend"}
  /\ Answer(r)
  /\ UNCHANGED <<now, approvals, grace, graceFile, policy, granting, hist, minted, runs>>

-----------------------------------------------------------------------------
(* The decision handlers, the settings, the clock and a crash.              *)

\* approveOperationApproval: Approve, then, if asked to, a grace window for
\* the plan's project.
ApproveHandler(id, who, wantsGrace) ==
  LET p == ProjectOf[approvals[id].plan] IN
  /\ Approve(id, who)
  /\ granting' = IF wantsGrace /\ p \in Projects
                   THEN granting \cup {<<id, p>>} ELSE granting
  /\ UNCHANGED <<now, grace, graceFile, policy, req, minted, runs>>

RejectHandler(id, who) ==
  /\ Reject(id, who)
  /\ UNCHANGED <<now, grace, graceFile, policy, req, granting, minted, runs>>

\* getOperationApproval hands out a fresh token for an approved request.
GetHandler(id, t) ==
  /\ IssueToken(id, t)
  /\ UNCHANGED <<now, grace, graceFile, policy, req, granting, hist, runs>>

\* GrantGrace replaces the project's window; an error only skips the grant.
GrantGrace(g) ==
  /\ g \in granting
  /\ granting' = granting \ {g}
  /\ grace' = IF graceFile = "ok"
                THEN [LiveGrants EXCEPT ![g[2]] = [until |-> now + GraceTTL, from |-> g[1]]]
                ELSE grace
  /\ UNCHANGED <<now, approvals, graceFile, policy, req, hist, minted, runs>>

ChangePolicy ==
  /\ policy' = ~policy
  /\ UNCHANGED <<now, approvals, grace, graceFile, req, granting, hist, minted, runs>>

Tick ==
  /\ now < MaxTime
  /\ now' = now + 1
  /\ UNCHANGED <<approvals, grace, graceFile, policy, req, granting, hist, minted, runs>>

\* The agent dies and restarts.  Requests and approve handlers are gone; a
\* grace file being rewritten in place at that moment is left torn.
Crash ==
  /\ req' = [r \in Requests |-> IdleRequest]
  /\ granting' = {}
  /\ \/ UNCHANGED graceFile
     \/ /\ \/ granting # {}
           \/ /\ LiveGrants # grace
              /\ \E r \in Requests :
                   req[r].pc = "grace" /\ ProjectOf[req[r].plan] \in Projects
        /\ graceFile' = "torn"
  /\ UNCHANGED <<now, approvals, grace, policy, hist, minted, runs>>

Init ==
  /\ now = 0
  /\ approvals = [id \in Ids |-> Absent]
  /\ grace = [p \in Projects |-> NoGrant]
  /\ graceFile = "ok"
  /\ policy = TRUE
  /\ req = [r \in Requests |-> IdleRequest]
  /\ granting = {}
  /\ hist = [id \in Ids |-> [plan |-> NoPlan, decision |-> "none"]]
  /\ minted = {}
  /\ runs = [id \in Ids |-> 0]

Next ==
  \/ \E r \in Requests :
       \/ \E p \in Plans, who \in Requesters, t \in Tokens \cup {NoToken} :
            Authorize(r, p, who, t)
       \/ ConsultGrace(r) \/ ConsumeToken(r)
       \/ AskApproval(r) \/ Execute(r) \/ StoreFails(r)
  \/ \E id \in Ids, who \in Deciders :
       (\E g \in BOOLEAN : ApproveHandler(id, who, g)) \/ RejectHandler(id, who)
  \/ \E id \in Ids, t \in Tokens : GetHandler(id, t)
  \/ \E g \in granting : GrantGrace(g)
  \/ ChangePolicy \/ Tick \/ Crash

Spec == Init /\ [][Next]_vars

-----------------------------------------------------------------------------
(* Properties.                                                             *)

\* One approval backs at most one execution: reissued tokens, concurrent
\* requests with one token, trimming of the used record and crashes included
\* (ConsumeToken, IssueToken).
OneExecutionPerApproval == \A id \in Ids : runs[id] <= 1

\* What authorizeOperation lets through was authorised: no denied plan; a plan
\* with a hard-wired requirement never passes without approval; a token only
\* for the very plan of an approved request; a grace window only for the
\* project of the approved request that opened it, whatever became of that
\* request's record since.
AuthorizationSound ==
  \A r \in Requests :
    req[r].pc = "granted" =>
      /\ req[r].plan \notin DeniedPlans
      /\ req[r].via = "open" => req[r].plan \notin ReviewedPlans \ ToggledPlans
      /\ req[r].via = "token" =>
           hist[req[r].from] = [plan |-> req[r].plan, decision |-> "approved"]
      /\ req[r].via = "grace" =>
           /\ req[r].from \in Ids
           /\ hist[req[r].from].decision = "approved"
           /\ ProjectOf[hist[req[r].from].plan] = ProjectOf[req[r].plan]

\* A requester never has two requests for one plan that are both still waiting
\* and reusable (FindOrCreatePending's reuse, sweep and trim).
NoDuplicatePending ==
  \A i, j \in Ids :
    /\ approvals[i].status = "pending" /\ approvals[j].status = "pending"
    /\ approvals[i].plan = approvals[j].plan /\ approvals[i].by = approvals[j].by
    /\ approvals[i].expires > now /\ approvals[j].expires > now
    => i = j

\* An approval that is granted and in time is not lost under its holder: the
\* retention budget, a later verdict, a sweep or a crash never takes it away;
\* it leaves "approved" by being used or because its token or itself ran out.
ApprovedSurvives ==
  [][\A id \in Ids :
       /\ approvals[id].status = "approved"
       /\ ~PastExpiry(approvals[id]) /\ ~tokenExpired(approvals[id])
       => approvals'[id].status \in {"approved", "used"}]_vars
=============================================================================
