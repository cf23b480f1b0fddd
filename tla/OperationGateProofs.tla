------------------------ MODULE OperationGateProofs ------------------------
(***************************************************************************)
(* TLAPS proofs about OperationGate, for any number of approvals, tokens,   *)
(* plans, requests and any retention budget.                                *)
(*                                                                         *)
(* OneExecutionPerApproval and AuthorizationSound are not inductive: that a *)
(* token in a live record was never spent, and that a window or a pending   *)
(* grant still remembers an approved request, are facts about records that  *)
(* may meanwhile have been trimmed.  Inv below adds them.                   *)
(***************************************************************************)
EXTENDS OperationGate, TLAPS

\* A record of the file agrees with its history: it stands for the plan the id
\* was created with, and its status with the first decision.
RecordsAgree ==
  \A id \in Ids :
    /\ hist[id].plan = NoPlan =>
         approvals[id].status = "absent" /\ hist[id].decision = "none"
    /\ approvals[id].status = "absent" => approvals[id].token = NoToken
    /\ approvals[id].status # "absent" => approvals[id].plan = hist[id].plan
    /\ approvals[id].status = "pending" => hist[id].decision = "none"
    /\ approvals[id].status = "approved" => hist[id].decision = "approved"

TokenGrant(r, id) == req[r].pc = "granted" /\ req[r].via = "token" /\ req[r].from = id

\* What a request carries at each step of authorizeOperation.
RequestAgrees(r) ==
  /\ req[r].pc # "idle" => req[r].plan \in Plans \ DeniedPlans
  /\ req[r].pc = "consume" => req[r].token # NoToken
  /\ req[r].pc # "granted" => req[r].via = "none"
  /\ req[r].via = "open" => req[r].plan \notin ReviewedPlans \ ToggledPlans
  /\ req[r].via = "token" =>
       /\ req[r].from \in Ids
       /\ hist[req[r].from].plan = req[r].plan
       /\ hist[req[r].from].decision = "approved"
  /\ req[r].via = "grace" =>
       /\ req[r].from \in Ids
       /\ hist[req[r].from].decision = "approved"
       /\ ProjectOf[hist[req[r].from].plan] = ProjectOf[req[r].plan]

RequestsAgree == \A r \in Requests : RequestAgrees(r)

\* Windows and grants in flight come from an approved request of the project.
GraceAgrees ==
  /\ \A p \in Projects :
       grace[p] # NoGrant =>
         /\ grace[p].from \in Ids
         /\ hist[grace[p].from].decision = "approved"
         /\ ProjectOf[hist[grace[p].from].plan] = p
  /\ \A g \in granting :
       hist[g[1]].decision = "approved" /\ ProjectOf[hist[g[1]].plan] = g[2]

\* An approval is spent once: while it can still be decided or redeemed nothing
\* ran or is about to run on it, and at most one request holds it.
SpentOnce ==
  /\ \A id \in Ids :
       approvals[id].status \in {"pending", "approved"} \/ hist[id].plan = NoPlan =>
         runs[id] = 0 /\ \A r \in Requests : ~TokenGrant(r, id)
  /\ \A id \in Ids, r \in Requests : TokenGrant(r, id) => runs[id] = 0
  /\ \A id \in Ids, r, q \in Requests : TokenGrant(r, id) /\ TokenGrant(q, id) => r = q
  /\ \A id \in Ids : runs[id] <= 1

Inv == TypeOK /\ RecordsAgree /\ RequestsAgree /\ GraceAgrees /\ SpentOnce

-----------------------------------------------------------------------------
(* Type correctness.                                                       *)

\* Absent is a record of the file's type.
LEMMA AbsentType == Absent \in Approval
BY DEF Absent, Approval, Statuses

LEMMA IdleType == IdleRequest \in Request
BY DEF IdleRequest, Request

\* Each rewriting of a record keeps its type.
LEMMA RecordTypes ==
  ASSUME TypeOK, NEW a \in Approval
  PROVE  /\ \A s \in Statuses : Stamped(a, s) \in Approval
         /\ \A who \in Deciders : Approved(a, who) \in Approval
         /\ \A who \in Deciders : Rejected(a, who) \in Approval
         /\ \A t \in Tokens : WithToken(a, t) \in Approval
<1>. now \in Nat /\ now + TokenTTL \in Nat BY GateNumbers DEF TypeOK
<1>1. \A s \in Statuses : Stamped(a, s) \in Approval
  BY DEF Stamped, Approval
<1>2. Stamped(a, "approved") \in Approval /\ Stamped(a, "rejected") \in Approval
  BY <1>1 DEF Statuses
<1>3. \A who \in Deciders : Approved(a, who) \in Approval
  BY <1>2 DEF Approved, Approval
<1>4. \A who \in Deciders : Rejected(a, who) \in Approval
  BY <1>2 DEF Rejected, Approval
<1>5. \A t \in Tokens : WithToken(a, t) \in Approval
  BY DEF WithToken, Approval
<1>. QED BY <1>1, <1>3, <1>4, <1>5

\* The sweep keeps the file well typed.
LEMMA SweepType == TypeOK => expireApprovals \in [Ids -> Approval]
<1>. SUFFICES ASSUME TypeOK, NEW id \in Ids PROVE expireApprovals[id] \in Approval
  BY DEF expireApprovals
<1>1. approvals[id] \in Approval BY DEF TypeOK
<1>2. Stamped(approvals[id], "expired") \in Approval
  BY <1>1, RecordTypes DEF Statuses
<1>. QED BY <1>1, <1>2 DEF expireApprovals

\* FindOrCreatePending keeps the file and the history well typed.
LEMMA FindOrCreateType ==
  ASSUME TypeOK, NEW p \in Plans, NEW who \in Requesters \cup {Nobody}, FindOrCreatePending(p, who)
  PROVE  /\ approvals' \in [Ids -> Approval]
         /\ hist' \in [Ids -> [plan : Plans \cup {NoPlan},
                               decision : {"none", "approved", "rejected"}]]
<1>1. CASE approvals' = expireApprovals /\ UNCHANGED hist
  BY <1>1, SweepType DEF TypeOK
<1>2. CASE \E id \in Ids :
             /\ \E kept \in trimApprovals([expireApprovals EXCEPT ![id] = NewApproval(p, who)]) :
                  approvals' = Keeping([expireApprovals EXCEPT ![id] = NewApproval(p, who)], kept)
             /\ hist' = [hist EXCEPT ![id].plan = p]
  <2>0. PICK id \in Ids : \E kept :
             /\ approvals' = Keeping([expireApprovals EXCEPT ![id] = NewApproval(p, who)], kept)
             /\ hist' = [hist EXCEPT ![id].plan = p]
    BY <1>2
  <2>1. PICK kept :
             /\ approvals' = Keeping([expireApprovals EXCEPT ![id] = NewApproval(p, who)], kept)
             /\ hist' = [hist EXCEPT ![id].plan = p]
    BY <2>0
  <2>2. NewApproval(p, who) \in Approval
    <3>1. now \in Nat /\ now + ApprovalTTL \in Nat BY GateNumbers DEF TypeOK
    <3>2. "pending" \in Statuses BY DEF Statuses
    <3>. QED BY <3>1, <3>2, AbsentType DEF NewApproval, Approval
  <2>3. [expireApprovals EXCEPT ![id] = NewApproval(p, who)] \in [Ids -> Approval]
    BY <2>2, SweepType
  <2>4. approvals' \in [Ids -> Approval]
    BY <2>1, <2>3, AbsentType DEF Keeping
  <2>. QED BY <2>1, <2>4 DEF TypeOK
<1>. QED BY <1>1, <1>2 DEF FindOrCreatePending

\* Every step keeps the state well typed.
LEMMA TypeStep == TypeOK /\ RequestsAgree /\ [Next]_vars => TypeOK'
<1>. SUFFICES ASSUME TypeOK, RequestsAgree, [Next]_vars PROVE TypeOK'
  OBVIOUS
<1>. USE GateNumbers, GateConstants
<1>1. ASSUME NEW r \in Requests, NEW p \in Plans, NEW who \in Requesters,
             NEW t \in Tokens \cup {NoToken}, Authorize(r, p, who, t)
      PROVE  TypeOK'
  <2>1. AfterPolicy(p) \in {"idle", "granted", "grace"} BY DEF AfterPolicy
  <2>2. req' \in [Requests -> Request]
    BY <1>1, <2>1, IdleType DEF Authorize, TypeOK, Request
  <2>. QED BY <1>1, <2>2 DEF Authorize, TypeOK
<1>2. ASSUME NEW r \in Requests, ConsultGrace(r) PROVE TypeOK'
  <2>1. LiveGrants \in [Projects -> Grant]
    BY DEF TypeOK, LiveGrants, NoGrant, Grant
  <2>2. grace' \in [Projects -> Grant]
    BY <1>2, <2>1 DEF ConsultGrace, SweepGrace, TypeOK
  <2>3. \A p, g : g \in ActiveGrace(p) => g.from \in Ids \cup {NoId}
    BY <2>1 DEF ActiveGrace, Grant
  <2>4. req' \in [Requests -> Request]
    BY <1>2, <2>3 DEF ConsultGrace, Allow, Goto, TypeOK, Request
  <2>. QED BY <1>2, <2>2, <2>4 DEF ConsultGrace, TypeOK
<1>3. ASSUME NEW r \in Requests, ConsumeToken(r) PROVE TypeOK'
  <2>1. approvals' \in [Ids -> Approval]
    <3>1. \A id \in Ids : /\ MarkUsed(approvals[id]) \in Approval
                          /\ Stamped(approvals[id], "expired") \in Approval
      BY RecordTypes DEF TypeOK, Statuses, MarkUsed
    <3>. QED BY <1>3, <3>1 DEF ConsumeToken, Redeem, Lapse, TypeOK
  <2>2. req' \in [Requests -> Request]
    BY SMTT(30), <1>3, IdleType DEF ConsumeToken, Redeem, Lapse, Allow, Answer, TypeOK, Request
  <2>. QED BY <1>3, <2>1, <2>2 DEF ConsumeToken, TypeOK
<1>4. ASSUME NEW r \in Requests, AskApproval(r) PROVE TypeOK'
  <2>1. req[r].plan \in Plans
    BY <1>4 DEF AskApproval, RequestsAgree, RequestAgrees
  <2>2. req[r].by \in Requesters \cup {Nobody}
    BY DEF TypeOK, Request
  <2>3. req' \in [Requests -> Request]
    BY <1>4, IdleType DEF AskApproval, Answer, TypeOK
  <2>4. /\ approvals' \in [Ids -> Approval]
        /\ hist' \in [Ids -> [plan : Plans \cup {NoPlan},
                              decision : {"none", "approved", "rejected"}]]
    BY <1>4, <2>1, <2>2, FindOrCreateType DEF AskApproval
  <2>. QED BY <1>4, <2>3, <2>4 DEF AskApproval, TypeOK
<1>5. ASSUME NEW r \in Requests, Execute(r) PROVE TypeOK'
  <2>1. req' \in [Requests -> Request]
    BY <1>5, IdleType DEF Execute, Answer, TypeOK
  <2>2. runs' \in [Ids -> Nat]
    BY <1>5 DEF Execute, RequestsAgree, RequestAgrees, TypeOK
  <2>. QED BY <1>5, <2>1, <2>2 DEF Execute, TypeOK
<1>6. ASSUME NEW r \in Requests, StoreFails(r) PROVE TypeOK'
  BY <1>6, IdleType DEF StoreFails, Answer, TypeOK
<1>7. ASSUME NEW id \in Ids, NEW who \in Deciders, NEW g \in BOOLEAN,
             ApproveHandler(id, who, g)
      PROVE  TypeOK'
  <2>1. approvals' \in [Ids -> Approval]
    BY <1>7, RecordTypes DEF ApproveHandler, Approve, TypeOK
  <2>2. hist' \in [Ids -> [plan : Plans \cup {NoPlan},
                           decision : {"none", "approved", "rejected"}]]
    BY <1>7 DEF ApproveHandler, Approve, TypeOK
  <2>3. granting' \subseteq Ids \X Projects
    BY <1>7 DEF ApproveHandler, TypeOK
  <2>. QED BY <1>7, <2>1, <2>2, <2>3 DEF ApproveHandler, TypeOK
<1>8. ASSUME NEW id \in Ids, NEW who \in Deciders, RejectHandler(id, who)
      PROVE  TypeOK'
  <2>1. approvals' \in [Ids -> Approval]
    BY <1>8, RecordTypes DEF RejectHandler, Reject, TypeOK
  <2>2. hist' \in [Ids -> [plan : Plans \cup {NoPlan},
                           decision : {"none", "approved", "rejected"}]]
    BY <1>8 DEF RejectHandler, Reject, TypeOK
  <2>. QED BY <1>8, <2>1, <2>2 DEF RejectHandler, TypeOK
<1>9. ASSUME NEW id \in Ids, NEW t \in Tokens, GetHandler(id, t) PROVE TypeOK'
  <2>1. approvals' \in [Ids -> Approval]
    BY <1>9, RecordTypes DEF GetHandler, IssueToken, TypeOK
  <2>. QED BY <1>9, <2>1 DEF GetHandler, IssueToken, TypeOK
<1>10. ASSUME NEW g \in granting, GrantGrace(g) PROVE TypeOK'
  <2>1. LiveGrants \in [Projects -> Grant]
    BY DEF TypeOK, LiveGrants, NoGrant, Grant
  <2>2. g[1] \in Ids /\ g[2] \in Projects
    BY DEF TypeOK
  <2>3. [until |-> now + GraceTTL, from |-> g[1]] \in Grant
    BY <2>2 DEF TypeOK, Grant
  <2>4. grace' \in [Projects -> Grant]
    BY <1>10, <2>1, <2>2, <2>3 DEF GrantGrace, TypeOK
  <2>. QED BY <1>10, <2>4 DEF GrantGrace, TypeOK
<1>11. CASE ChangePolicy
  BY <1>11 DEF ChangePolicy, TypeOK
<1>12. CASE Tick
  BY <1>12 DEF Tick, TypeOK
<1>13. CASE Crash
  BY <1>13, IdleType DEF Crash, TypeOK
<1>14. CASE UNCHANGED vars
  BY <1>14 DEF vars, TypeOK
<1>. QED
  BY <1>1, <1>2, <1>3, <1>4, <1>5, <1>6, <1>7, <1>8, <1>9, <1>10, <1>11, <1>12,
     <1>13, <1>14 DEF Next

-----------------------------------------------------------------------------
(* What the steps do to records and history.                                *)

\* FindOrCreatePending leaves each id alone, drops its record, expires it, or
\* creates it as a pending request; only the last touches the history.
LEMMA FindOrCreateEffect ==
  ASSUME TypeOK, NEW p \in Plans, NEW who, FindOrCreatePending(p, who), NEW id \in Ids
  PROVE  \/ /\ hist'[id] = hist[id]
            /\ \/ approvals'[id] = approvals[id]
               \/ approvals'[id] = Absent
               \/ /\ approvals'[id].status = "expired"
                  /\ approvals'[id].plan = approvals[id].plan
                  /\ approvals[id].status # "absent"
         \/ /\ hist[id].plan = NoPlan
            /\ hist'[id].plan = p /\ hist'[id].decision = hist[id].decision
            /\ \/ approvals'[id] = Absent
               \/ approvals'[id].status = "pending" /\ approvals'[id].plan = p
<1>1. \/ expireApprovals[id] = approvals[id]
      \/ /\ expireApprovals[id].status = "expired"
         /\ expireApprovals[id].plan = approvals[id].plan
         /\ approvals[id].status # "absent"
  BY DEF expireApprovals, Expirable, Stamped, TypeOK, Approval
<1>2. CASE approvals' = expireApprovals /\ UNCHANGED hist
  BY <1>1, <1>2
<1>3. CASE \E new \in Ids :
             /\ hist[new].plan = NoPlan
             /\ \E kept \in trimApprovals([expireApprovals EXCEPT ![new] = NewApproval(p, who)]) :
                  approvals' = Keeping([expireApprovals EXCEPT ![new] = NewApproval(p, who)], kept)
             /\ hist' = [hist EXCEPT ![new].plan = p]
  <2>0. PICK new \in Ids : \E kept :
             /\ hist[new].plan = NoPlan
             /\ approvals' = Keeping([expireApprovals EXCEPT ![new] = NewApproval(p, who)], kept)
             /\ hist' = [hist EXCEPT ![new].plan = p]
    BY <1>3
  <2>1. PICK kept :
             /\ hist[new].plan = NoPlan
             /\ approvals' = Keeping([expireApprovals EXCEPT ![new] = NewApproval(p, who)], kept)
             /\ hist' = [hist EXCEPT ![new].plan = p]
    BY <2>0
  <2>2. Absent.status = "absent" /\ DOMAIN expireApprovals = Ids
    BY DEF Absent, expireApprovals
  <2>3. NewApproval(p, who).status = "pending" /\ NewApproval(p, who).plan = p
    BY DEF NewApproval, Absent
  <2>4. CASE id = new
    <3>1. approvals'[id] = NewApproval(p, who) \/ approvals'[id] = Absent
      BY <2>1, <2>2, <2>4 DEF Keeping
    <3>2. hist'[id].plan = p /\ hist'[id].decision = hist[id].decision
      BY <2>1, <2>4 DEF TypeOK
    <3>. QED BY <2>1, <2>2, <2>3, <2>4, <3>1, <3>2
  <2>5. CASE id # new
    <3>1. approvals'[id] = expireApprovals[id] \/ approvals'[id] = Absent
      BY <2>1, <2>2, <2>5 DEF Keeping
    <3>2. hist'[id] = hist[id]
      BY <2>1, <2>5 DEF TypeOK
    <3>. QED BY <1>1, <2>2, <3>1, <3>2
  <2>. QED BY <2>4, <2>5
<1>. QED BY <1>2, <1>3 DEF FindOrCreatePending

\* A decision falls on an undecided request of the history.
LEMMA DecisionIsFirst ==
  ASSUME TypeOK, RecordsAgree, NEW id \in Ids, ensureApprovalDecisionAllowed(approvals[id])
  PROVE  /\ hist[id].plan \in Plans /\ hist[id].decision = "none"
         /\ approvals[id].status = "pending" /\ approvals[id].plan = hist[id].plan
BY DEF TypeOK, RecordsAgree, ensureApprovalDecisionAllowed

\* Approved history is permanent.
LEMMA HistoryStable ==
  ASSUME TypeOK, RecordsAgree, RequestsAgree, [Next]_vars,
         NEW id \in Ids, hist[id].decision = "approved"
  PROVE  hist'[id] = hist[id]
<1>1. ASSUME NEW r \in Requests, AskApproval(r) PROVE hist'[id] = hist[id]
  <2>1. req[r].plan \in Plans /\ FindOrCreatePending(req[r].plan, req[r].by)
    BY <1>1 DEF AskApproval, RequestsAgree, RequestAgrees
  <2>2. hist[id].plan # NoPlan
    BY DEF RecordsAgree
  <2>. QED BY <2>1, <2>2, FindOrCreateEffect
<1>2. ASSUME NEW x \in Ids, NEW who \in Deciders, NEW g \in BOOLEAN, ApproveHandler(x, who, g)
      PROVE  hist'[id] = hist[id]
  BY <1>2, DecisionIsFirst DEF ApproveHandler, Approve, TypeOK
<1>3. ASSUME NEW x \in Ids, NEW who \in Deciders, RejectHandler(x, who)
      PROVE  hist'[id] = hist[id]
  BY <1>3, DecisionIsFirst DEF RejectHandler, Reject, TypeOK
<1>4. CASE UNCHANGED hist
  BY <1>4
<1>. QED
  BY <1>1, <1>2, <1>3, <1>4 DEF Next, vars, Authorize, ConsultGrace, ConsumeToken,
     Execute, StoreFails, GetHandler, GrantGrace, ChangePolicy, Tick, Crash

-----------------------------------------------------------------------------
(* The parts of the inductive invariant, each preserved by every step.       *)

LEMMA RecordsStep == Inv /\ [Next]_vars => RecordsAgree'
<1>. SUFFICES ASSUME Inv, [Next]_vars PROVE RecordsAgree'
  OBVIOUS
<1>. USE DEF Inv
<1>1. ASSUME NEW r \in Requests, ConsumeToken(r) PROVE RecordsAgree'
  <2>1. \A id \in Ids :
          /\ hist'[id] = hist[id]
          /\ \/ approvals'[id] = approvals[id]
             \/ /\ approvals'[id].status \in {"used", "expired"}
                /\ approvals'[id].plan = approvals[id].plan
                /\ approvals[id].status # "absent"
    <3>1. CASE UNCHANGED <<approvals, hist>>
      BY <3>1
    <3>2. ASSUME NEW x \in Ids, Redeem(r, x) \/ Lapse(r, x), approvals[x].token = req[r].token
          PROVE  \A id \in Ids : \/ approvals'[id] = approvals[id]
                    \/ /\ approvals'[id].status \in {"used", "expired"}
                       /\ approvals'[id].plan = approvals[id].plan
                       /\ approvals[id].status # "absent"
      <4>1. approvals[x].status # "absent"
        BY <1>1, <3>2 DEF ConsumeToken, RecordsAgree, RequestsAgree, RequestAgrees
      <4>2. approvals' = [approvals EXCEPT ![x] = Stamped(approvals[x], "used")]
              \/ approvals' = [approvals EXCEPT ![x] = Stamped(approvals[x], "expired")]
        BY <3>2 DEF Redeem, Lapse, MarkUsed
      <4>3. \A s : /\ Stamped(approvals[x], s).status = s
                   /\ Stamped(approvals[x], s).plan = approvals[x].plan
        BY DEF Stamped, TypeOK, Approval
      <4>. QED BY <4>1, <4>2, <4>3 DEF TypeOK
    <3>. QED BY <1>1, <3>1, <3>2 DEF ConsumeToken
  <2>. QED BY <2>1 DEF RecordsAgree
<1>2. ASSUME NEW r \in Requests, AskApproval(r) PROVE RecordsAgree'
  <2>1. req[r].plan \in Plans /\ FindOrCreatePending(req[r].plan, req[r].by)
    BY <1>2 DEF AskApproval, RequestsAgree, RequestAgrees
  <2>2. NoPlan \notin Plans BY GateConstants
  <2>3. Absent.status = "absent" /\ Absent.token = NoToken BY DEF Absent
  <2>. QED BY <2>1, <2>2, <2>3, FindOrCreateEffect DEF RecordsAgree
<1>3. ASSUME NEW x \in Ids, NEW who \in Deciders, NEW g \in BOOLEAN, ApproveHandler(x, who, g)
      PROVE  RecordsAgree'
  <2>1. hist[x].plan \in Plans /\ approvals[x].plan = hist[x].plan
    BY <1>3, DecisionIsFirst DEF ApproveHandler, Approve
  <2>2. approvals'[x].status = "approved" /\ approvals'[x].plan = approvals[x].plan
    BY <1>3 DEF ApproveHandler, Approve, Approved, Stamped, TypeOK, Approval
  <2>3. hist'[x].decision = "approved" /\ hist'[x].plan = hist[x].plan
    BY <1>3 DEF ApproveHandler, Approve, TypeOK
  <2>4. \A id \in Ids \ {x} : approvals'[id] = approvals[id] /\ hist'[id] = hist[id]
    BY <1>3 DEF ApproveHandler, Approve, TypeOK
  <2>. QED BY <2>1, <2>2, <2>3, <2>4, GateConstants DEF RecordsAgree
<1>4. ASSUME NEW x \in Ids, NEW who \in Deciders, RejectHandler(x, who)
      PROVE  RecordsAgree'
  <2>1. hist[x].plan \in Plans /\ approvals[x].plan = hist[x].plan
    BY <1>4, DecisionIsFirst DEF RejectHandler, Reject
  <2>2. approvals'[x].status = "rejected" /\ approvals'[x].plan = approvals[x].plan
    BY <1>4 DEF RejectHandler, Reject, Rejected, Stamped, TypeOK, Approval
  <2>3. hist'[x].plan = hist[x].plan
    BY <1>4 DEF RejectHandler, Reject, TypeOK
  <2>4. \A id \in Ids \ {x} : approvals'[id] = approvals[id] /\ hist'[id] = hist[id]
    BY <1>4 DEF RejectHandler, Reject, TypeOK
  <2>. QED BY <2>1, <2>2, <2>3, <2>4, GateConstants DEF RecordsAgree
<1>5. ASSUME NEW x \in Ids, NEW t \in Tokens, GetHandler(x, t) PROVE RecordsAgree'
  <2>1. \A id \in Ids : /\ approvals'[id].status = approvals[id].status
                        /\ approvals'[id].plan = approvals[id].plan
    BY <1>5 DEF GetHandler, IssueToken, WithToken, TypeOK, Approval
  <2>2. approvals[x].status = "approved"
    BY <1>5 DEF GetHandler, IssueToken, ensureTokenIssueAllowed
  <2>3. \A id \in Ids \ {x} : approvals'[id] = approvals[id]
    BY <1>5 DEF GetHandler, IssueToken, TypeOK
  <2>. QED BY <1>5, <2>1, <2>2, <2>3 DEF GetHandler, RecordsAgree
<1>6. CASE UNCHANGED <<approvals, hist>>
  BY <1>6 DEF RecordsAgree
<1>. QED
  BY <1>1, <1>2, <1>3, <1>4, <1>5, <1>6 DEF Next, vars, Authorize, ConsultGrace,
     Execute, StoreFails, GrantGrace, ChangePolicy, Tick, Crash

LEMMA GraceStep == Inv /\ [Next]_vars => GraceAgrees'
<1>. SUFFICES ASSUME Inv, [Next]_vars PROVE GraceAgrees'
  OBVIOUS
<1>. USE DEF Inv
<1>1. \A id \in Ids : hist[id].decision = "approved" => hist'[id] = hist[id]
  BY HistoryStable
<1>2. \A g \in granting : g[1] \in Ids /\ g[2] \in Projects
  BY DEF TypeOK
<1>3. \A p \in Projects : LiveGrants[p] = grace[p] \/ LiveGrants[p] = NoGrant
  BY DEF LiveGrants
<1>4. ASSUME \A p \in Projects : grace'[p] = grace[p] \/ grace'[p] = NoGrant,
             granting' \subseteq granting
      PROVE  GraceAgrees'
  BY <1>1, <1>2, <1>4 DEF GraceAgrees
<1>5. ASSUME NEW r \in Requests, ConsultGrace(r) PROVE GraceAgrees'
  BY <1>3, <1>4, <1>5 DEF ConsultGrace, SweepGrace
<1>6. ASSUME NEW x \in Ids, NEW who \in Deciders, NEW g \in BOOLEAN, ApproveHandler(x, who, g)
      PROVE  GraceAgrees'
  <2>1. approvals[x].plan = hist[x].plan
    BY <1>6, DecisionIsFirst DEF ApproveHandler, Approve
  <2>2. hist'[x].decision = "approved" /\ hist'[x].plan = hist[x].plan
    BY <1>6 DEF ApproveHandler, Approve, TypeOK
  <2>3. granting' \subseteq granting \cup {<<x, ProjectOf[approvals[x].plan]>>}
    BY <1>6 DEF ApproveHandler
  <2>4. grace' = grace BY <1>6 DEF ApproveHandler
  <2>. QED BY <1>1, <1>2, <2>1, <2>2, <2>3, <2>4 DEF GraceAgrees
<1>7. ASSUME NEW g \in granting, GrantGrace(g) PROVE GraceAgrees'
  <2>1. CASE graceFile = "ok"
    <3>1. grace' = [LiveGrants EXCEPT ![g[2]] = [until |-> now + GraceTTL, from |-> g[1]]]
      BY <1>7, <2>1 DEF GrantGrace
    <3>2. DOMAIN LiveGrants = Projects BY DEF LiveGrants
    <3>3. grace'[g[2]].from = g[1]
      BY <1>2, <3>1, <3>2
    <3>4. \A p \in Projects \ {g[2]} : grace'[p] = grace[p] \/ grace'[p] = NoGrant
      BY <1>3, <3>1, <3>2
    <3>5. granting' \subseteq granting BY <1>7 DEF GrantGrace
    <3>. QED BY <1>1, <1>2, <3>3, <3>4, <3>5 DEF GraceAgrees
  <2>2. CASE graceFile # "ok"
    BY <1>4, <1>7, <2>2 DEF GrantGrace
  <2>. QED BY <2>1, <2>2
<1>8. CASE grace' = grace /\ granting' \subseteq granting
  BY <1>4, <1>8
<1>. QED
  BY <1>5, <1>6, <1>7, <1>8 DEF Next, vars, Authorize, ConsumeToken, AskApproval, Execute,
     StoreFails, RejectHandler, GetHandler, ChangePolicy, Tick, Crash

LEMMA RequestsStep == Inv /\ [Next]_vars => RequestsAgree'
<1>. SUFFICES ASSUME Inv, [Next]_vars, NEW q \in Requests PROVE RequestAgrees(q)'
  BY DEF RequestsAgree
<1>. USE DEF Inv
<1>. DEFINE P == RequestAgrees(q)
<1>0. RequestAgrees(q) /\ req \in [Requests -> Request]
  BY DEF RequestsAgree, TypeOK
<1>1. \A id \in Ids : hist[id].decision = "approved" => hist'[id] = hist[id]
  BY HistoryStable
<1>2. ASSUME req'[q] = req[q] PROVE P'
  BY <1>0, <1>1, <1>2 DEF RequestAgrees
<1>3. ASSUME req'[q] = IdleRequest PROVE P'
  BY <1>3 DEF RequestAgrees, IdleRequest
<1>4. ASSUME NEW r \in Requests, Answer(r) PROVE P'
  BY <1>0, <1>2, <1>3, <1>4 DEF Answer
<1>5. ASSUME NEW r \in Requests, NEW p \in Plans, NEW who \in Requesters,
             NEW t \in Tokens \cup {NoToken}, Authorize(r, p, who, t)
      PROVE  P'
  <2>1. CASE r = q /\ AfterPolicy(p) # "idle"
    <3>1. req'[q] = [pc |-> AfterPolicy(p), plan |-> p, by |-> who, token |-> t,
                     via |-> IF AfterPolicy(p) = "granted" THEN "open" ELSE "none",
                     from |-> NoId]
      BY <1>0, <1>5, <2>1 DEF Authorize
    <3>2. AfterPolicy(p) \in {"granted", "grace"} /\ p \notin DeniedPlans
      BY <2>1 DEF AfterPolicy
    <3>3. AfterPolicy(p) = "granted" => p \notin ReviewedPlans \ ToggledPlans
      BY DEF AfterPolicy, RequiresApproval
    <3>. QED BY <3>1, <3>2, <3>3 DEF RequestAgrees
  <2>2. CASE ~(r = q /\ AfterPolicy(p) # "idle")
    BY <1>0, <1>2, <1>3, <1>5, <2>2 DEF Authorize
  <2>. QED BY <2>1, <2>2
<1>6. ASSUME NEW r \in Requests, ConsultGrace(r) PROVE P'
  <2>1. CASE r # q
    BY <1>0, <1>2, <1>6, <2>1 DEF ConsultGrace, Allow, Goto
  <2>2. CASE r = q
    <3>1. req[q].pc = "grace" /\ req[q].via = "none" /\ req[q].plan \in Plans \ DeniedPlans
      BY <1>0, <1>6, <2>2 DEF ConsultGrace, RequestAgrees
    <3>2. ASSUME NEW g \in ActiveGrace(ProjectOf[req[q].plan]), Allow(q, "grace", g.from) PROVE P'
      <4>1. /\ g.from \in Ids /\ hist[g.from].decision = "approved"
            /\ ProjectOf[hist[g.from].plan] = ProjectOf[req[q].plan]
        BY DEF ActiveGrace, LiveGrants, GraceAgrees
      <4>2. /\ req'[q].pc = "granted" /\ req'[q].via = "grace" /\ req'[q].from = g.from
            /\ req'[q].plan = req[q].plan
        BY <1>0, <3>2 DEF Allow, Request
      <4>. QED BY <1>1, <3>1, <4>1, <4>2 DEF RequestAgrees
    <3>3. ASSUME Goto(q, IF req[q].token # NoToken THEN "consume" ELSE "pend") PROVE P'
      <4>1. /\ req'[q].pc = IF req[q].token # NoToken THEN "consume" ELSE "pend"
            /\ req'[q].via = "none" /\ req'[q].token = req[q].token
            /\ req'[q].plan = req[q].plan
        BY <1>0, <3>1, <3>3 DEF Goto, Request
      <4>. QED BY <3>1, <4>1 DEF RequestAgrees
    <3>. QED BY <1>6, <2>2, <3>2, <3>3 DEF ConsultGrace
  <2>. QED BY <2>1, <2>2
<1>7. ASSUME NEW r \in Requests, ConsumeToken(r) PROVE P'
  <2>1. ASSUME NEW id \in Ids, Redeem(r, id), r = q PROVE P'
    <3>1. /\ req'[q].pc = "granted" /\ req'[q].via = "token" /\ req'[q].from = id
          /\ req'[q].plan = req[q].plan
      BY <1>0, <2>1 DEF Redeem, Allow, Request
    <3>2. hist[id].decision = "approved" /\ hist[id].plan = req[q].plan
      BY <2>1 DEF Redeem, Redeemable, MatchesPlan, RecordsAgree
    <3>3. req[q].plan \in Plans \ DeniedPlans
      BY <1>0, <1>7, <2>1 DEF ConsumeToken, RequestAgrees
    <3>. QED BY <1>1, <3>1, <3>2, <3>3 DEF RequestAgrees
  <2>2. ASSUME NEW id \in Ids, Redeem(r, id), r # q PROVE P'
    BY <1>0, <1>2, <2>2 DEF Redeem, Allow
  <2>. QED BY <1>4, <1>7, <2>1, <2>2 DEF ConsumeToken, Lapse
<1>8. CASE Crash
  BY <1>3, <1>8 DEF Crash
<1>9. CASE UNCHANGED req
  BY <1>2, <1>9
<1>. QED
  BY <1>4, <1>5, <1>6, <1>7, <1>8, <1>9 DEF Next, vars, AskApproval, Execute, StoreFails,
     ApproveHandler, RejectHandler, GetHandler, GrantGrace, ChangePolicy, Tick

\* Nothing was or is being spent on such an id.
Unspent(id) == approvals[id].status \in {"pending", "approved"} \/ hist[id].plan = NoPlan

LEMMA SpentStep == Inv /\ [Next]_vars => SpentOnce'
<1>. SUFFICES ASSUME Inv, [Next]_vars PROVE SpentOnce'
  OBVIOUS
<1>. USE DEF Inv
<1>0. req \in [Requests -> Request] /\ runs \in [Ids -> Nat]
  BY DEF TypeOK
<1>1. ASSUME \A r \in Requests, id \in Ids : TokenGrant(r, id)' => TokenGrant(r, id),
             runs' = runs,
             \A id \in Ids : Unspent(id)' => Unspent(id)
      PROVE  SpentOnce'
  BY <1>1 DEF SpentOnce, Unspent
<1>2. ASSUME NEW r \in Requests, NEW x, Answer(r) \/ Goto(r, x)
      PROVE  \A q \in Requests, id \in Ids : TokenGrant(q, id)' => TokenGrant(q, id)
  <2>1. \A q \in Requests : req'[q] = IdleRequest \/ req'[q] = req[q] \/ req'[q] = [req[q] EXCEPT !.pc = x]
    BY <1>0, <1>2 DEF Answer, Goto
  <2>2. \A q \in Requests : req[q].pc # "granted" => req[q].via = "none"
    BY DEF RequestsAgree, RequestAgrees
  <2>3. IdleRequest.via = "none" BY DEF IdleRequest
  <2>4. \A q \in Requests : LET m == [req[q] EXCEPT !.pc = x] IN
          m.via = req[q].via /\ m.from = req[q].from
    BY <1>0 DEF Request
  <2>5. \A q \in Requests : req'[q].via = "token" =>
          req[q].via = "token" /\ req'[q].from = req[q].from
    BY <2>1, <2>3, <2>4
  <2>. QED BY <2>2, <2>5 DEF TokenGrant
<1>3. ASSUME NEW r \in Requests, NEW p \in Plans, NEW who \in Requesters,
             NEW t \in Tokens \cup {NoToken}, Authorize(r, p, who, t)
      PROVE  SpentOnce'
  <2>1. \A q \in Requests : req'[q] = req[q] \/ req'[q].via \in {"none", "open"}
    BY <1>0, <1>3 DEF Authorize, IdleRequest
  <2>. QED BY <1>1, <1>3, <2>1 DEF Authorize, TokenGrant, Unspent
<1>4. ASSUME NEW r \in Requests, ConsultGrace(r) PROVE SpentOnce'
  <2>1. CASE \E g : Allow(r, "grace", g)
    <3>1. \A q \in Requests : req'[q] = req[q] \/ req'[q].via = "grace"
      BY <1>0, <2>1 DEF Allow, Request
    <3>. QED BY <1>1, <1>4, <3>1 DEF ConsultGrace, TokenGrant, Unspent
  <2>2. CASE \E x : Goto(r, x)
    BY <1>1, <1>2, <1>4, <2>2 DEF ConsultGrace, Unspent
  <2>. QED BY <1>4, <2>1, <2>2 DEF ConsultGrace
<1>5. ASSUME NEW r \in Requests, ConsumeToken(r) PROVE SpentOnce'
  <2>1. ASSUME NEW x \in Ids, Redeem(r, x) PROVE SpentOnce'
    <3>1. /\ approvals[x].status = "approved" /\ hist[x].plan # NoPlan
          /\ runs[x] = 0 /\ \A q \in Requests : ~TokenGrant(q, x)
      BY <2>1 DEF Redeem, Redeemable, RecordsAgree, SpentOnce
    <3>2. /\ approvals'[x].status = "used"
          /\ \A id \in Ids \ {x} : approvals'[id] = approvals[id]
      BY <2>1 DEF Redeem, MarkUsed, Stamped, TypeOK, Approval
    <3>3. /\ hist' = hist /\ runs' = runs
      BY <1>5 DEF ConsumeToken
    <3>4. \A q \in Requests, id \in Ids :
            TokenGrant(q, id)' => TokenGrant(q, id) \/ (q = r /\ id = x)
      BY <1>0, <2>1 DEF Redeem, Allow, TokenGrant, Request
    <3>5. req'[r].from = x /\ req'[r].pc = "granted"
      BY <1>0, <2>1 DEF Redeem, Allow, Request
    <3>. QED BY <3>1, <3>2, <3>3, <3>4, <3>5 DEF SpentOnce
  <2>2. ASSUME NEW x \in Ids, Lapse(r, x) PROVE SpentOnce'
    <3>1. /\ approvals'[x].status = "expired"
          /\ \A id \in Ids \ {x} : approvals'[id] = approvals[id]
      BY <2>2 DEF Lapse, Stamped, TypeOK, Approval
    <3>2. hist' = hist /\ runs' = runs /\ Answer(r)
      BY <1>5, <2>2 DEF ConsumeToken, Lapse
    <3>3. \A id \in Ids : Unspent(id)' => Unspent(id)
      BY <3>1, <3>2 DEF Unspent
    <3>. QED BY <1>1, <1>2, <3>2, <3>3
  <2>3. CASE Answer(r) /\ UNCHANGED approvals
    <3>1. \A id \in Ids : Unspent(id)' => Unspent(id)
      BY <1>5, <2>3 DEF ConsumeToken, Unspent
    <3>. QED BY <1>1, <1>2, <1>5, <2>3, <3>1 DEF ConsumeToken
  <2>. QED BY <1>5, <2>1, <2>2, <2>3 DEF ConsumeToken
<1>6. ASSUME NEW r \in Requests, AskApproval(r) PROVE SpentOnce'
  <2>1. req[r].plan \in Plans /\ FindOrCreatePending(req[r].plan, req[r].by)
    BY <1>6 DEF AskApproval, RequestsAgree, RequestAgrees
  <2>2. Absent.status = "absent" BY DEF Absent
  <2>3. \A id \in Ids : Unspent(id)' => Unspent(id)
    BY <2>1, <2>2, FindOrCreateEffect DEF Unspent
  <2>. QED BY <1>1, <1>2, <1>6, <2>3 DEF AskApproval
<1>7. ASSUME NEW r \in Requests, Execute(r) PROVE SpentOnce'
  <2>1. \A id \in Ids : Unspent(id)' => Unspent(id)
    BY <1>7 DEF Execute, Unspent
  <2>2. /\ ~\E id \in Ids : TokenGrant(r, id)'
        /\ \A q \in Requests, id \in Ids : TokenGrant(q, id)' => TokenGrant(q, id)
    BY <1>0, <1>2, <1>7 DEF Execute, Answer, TokenGrant, IdleRequest
  <2>3. CASE req[r].via = "token"
    <3>1. PICK x \in Ids : TokenGrant(r, x)
      BY <1>7, <2>3 DEF Execute, TokenGrant, RequestsAgree, RequestAgrees
    <3>2. runs[x] = 0 /\ ~Unspent(x)
      BY <3>1 DEF SpentOnce, Unspent
    <3>3. runs'[x] = 1 /\ \A id \in Ids \ {x} : runs'[id] = runs[id]
      BY <1>0, <1>7, <2>3, <3>1, <3>2 DEF Execute, TokenGrant
    <3>4. \A q \in Requests : ~TokenGrant(q, x)'
      BY <2>2, <3>1 DEF SpentOnce
    <3>. QED BY <2>1, <2>2, <3>2, <3>3, <3>4 DEF SpentOnce, Unspent
  <2>4. CASE req[r].via # "token"
    BY <1>1, <1>7, <2>1, <2>2, <2>4 DEF Execute
  <2>. QED BY <2>3, <2>4
<1>8. ASSUME NEW r \in Requests, StoreFails(r) PROVE SpentOnce'
  BY <1>1, <1>2, <1>8 DEF StoreFails, Unspent
<1>9. ASSUME NEW x \in Ids, NEW who \in Deciders, NEW g \in BOOLEAN, ApproveHandler(x, who, g)
      PROVE  SpentOnce'
  <2>1. Unspent(x) BY <1>9, DecisionIsFirst DEF ApproveHandler, Approve, Unspent
  <2>2. \A id \in Ids \ {x} : approvals'[id] = approvals[id] /\ hist'[id] = hist[id]
    BY <1>9 DEF ApproveHandler, Approve, TypeOK
  <2>3. \A r \in Requests, id \in Ids : TokenGrant(r, id)' => TokenGrant(r, id)
    BY <1>9 DEF ApproveHandler, TokenGrant
  <2>4. \A id \in Ids : Unspent(id)' => Unspent(id)
    BY <2>1, <2>2 DEF Unspent
  <2>. QED BY <1>1, <1>9, <2>3, <2>4 DEF ApproveHandler
<1>10. ASSUME NEW x \in Ids, NEW who \in Deciders, RejectHandler(x, who)
       PROVE  SpentOnce'
  <2>1. Unspent(x) BY <1>10, DecisionIsFirst DEF RejectHandler, Reject, Unspent
  <2>2. \A id \in Ids \ {x} : approvals'[id] = approvals[id] /\ hist'[id] = hist[id]
    BY <1>10 DEF RejectHandler, Reject, TypeOK
  <2>3. \A r \in Requests, id \in Ids : TokenGrant(r, id)' => TokenGrant(r, id)
    BY <1>10 DEF RejectHandler, TokenGrant
  <2>4. \A id \in Ids : Unspent(id)' => Unspent(id)
    BY <2>1, <2>2 DEF Unspent
  <2>. QED BY <1>1, <1>10, <2>3, <2>4 DEF RejectHandler
<1>11. ASSUME NEW x \in Ids, NEW t \in Tokens, GetHandler(x, t) PROVE SpentOnce'
  <2>1. \A id \in Ids : approvals'[id].status = approvals[id].status
    BY <1>11 DEF GetHandler, IssueToken, WithToken, TypeOK, Approval
  <2>. QED BY <1>1, <1>11, <2>1 DEF GetHandler, TokenGrant, Unspent
<1>12. CASE Crash
  BY <1>1, <1>12 DEF Crash, TokenGrant, IdleRequest, Unspent
<1>13. CASE UNCHANGED <<approvals, hist, req, runs>>
  BY <1>1, <1>13 DEF TokenGrant, Unspent
<1>. QED
  BY <1>3, <1>4, <1>5, <1>6, <1>7, <1>8, <1>9, <1>10, <1>11, <1>12, <1>13
     DEF Next, vars, GrantGrace, ChangePolicy, Tick

-----------------------------------------------------------------------------
(* Reuse and retention in FindOrCreatePending.                              *)

\* The sweep leaves a record alone unless the record's own time is over.
LEMMA SweepKeeps ==
  ASSUME TypeOK, NEW id \in Ids
  PROVE  /\ ~Expirable(approvals[id]) => expireApprovals[id] = approvals[id]
         /\ Expirable(approvals[id]) => expireApprovals[id].status = "expired"
BY DEF expireApprovals, Stamped, TypeOK, Approval

\* trimApprovals never gives up a record that can still be decided or redeemed.
LEMMA TrimKeepsLoadBearing ==
  ASSUME NEW store, NEW kept \in trimApprovals(store), NEW id \in Ids,
         store[id].status # "absent", approvalIsLoadBearing(store[id])
  PROVE  id \in kept
BY DEF trimApprovals

\* What FindOrCreatePending does to the file, in one of two ways.
LEMMA FindOrCreateCases ==
  ASSUME NEW p, NEW who, FindOrCreatePending(p, who)
  PROVE  \/ approvals' = expireApprovals
         \/ \E new \in Ids, kept \in SUBSET Ids :
              LET appended == [expireApprovals EXCEPT ![new] = NewApproval(p, who)] IN
              /\ hist[new].plan = NoPlan
              /\ Reusable(expireApprovals, p, who) = {}
              /\ kept \in trimApprovals(appended)
              /\ approvals' = Keeping(appended, kept)
<1>1. \A store : \A kept \in trimApprovals(store) : kept \subseteq Ids
  BY DEF trimApprovals
<1>. QED BY <1>1 DEF FindOrCreatePending

Waiting(id) == approvals[id].status = "pending" /\ approvals[id].expires > now

Twins(i, j) == approvals[i].plan = approvals[j].plan /\ approvals[i].by = approvals[j].by

\* A step that only lets requests stop waiting creates no duplicate.
LEMMA NoNewWaiting ==
  ASSUME NoDuplicatePending,
         \A id \in Ids : Waiting(id)' => Waiting(id) /\ approvals'[id] = approvals[id]
  PROVE  NoDuplicatePending'
<1>. SUFFICES ASSUME NEW i \in Ids, NEW j \in Ids, Waiting(i)', Waiting(j)', Twins(i, j)'
              PROVE  i = j
  BY DEF NoDuplicatePending, Waiting, Twins
<1>1. Waiting(i) /\ Waiting(j) /\ approvals'[i] = approvals[i] /\ approvals'[j] = approvals[j]
  OBVIOUS
<1>2. Twins(i, j) BY <1>1 DEF Twins
<1>. QED BY <1>1, <1>2 DEF NoDuplicatePending, Waiting, Twins

\* FindOrCreatePending appends only where the sweep left nothing to reuse.
LEMMA FindOrCreateNoDuplicate ==
  ASSUME TypeOK, NoDuplicatePending, NEW p \in Plans, NEW who, FindOrCreatePending(p, who),
         now' = now
  PROVE  NoDuplicatePending'
<1>0. \A id \in Ids : expireApprovals[id].status = "pending" => expireApprovals[id] = approvals[id]
  BY SweepKeeps
<1>1. CASE approvals' = expireApprovals
  BY <1>0, <1>1, NoNewWaiting DEF Waiting
<1>2. ASSUME NEW new \in Ids, NEW kept \in SUBSET Ids,
             Reusable(expireApprovals, p, who) = {},
             approvals' = Keeping([expireApprovals EXCEPT ![new] = NewApproval(p, who)], kept)
      PROVE  NoDuplicatePending'
  <2>1. DOMAIN expireApprovals = Ids BY DEF expireApprovals
  <2>2. Absent.status = "absent" BY DEF Absent
  <2>3. NewApproval(p, who).plan = p /\ NewApproval(p, who).by = who
    BY DEF NewApproval, Absent
  <2>4. \A id \in Ids \ {new} : approvals'[id] = expireApprovals[id] \/ approvals'[id] = Absent
    BY <1>2, <2>1 DEF Keeping
  <2>5. approvals'[new] = NewApproval(p, who) \/ approvals'[new] = Absent
    BY <1>2, <2>1 DEF Keeping
  <2>6. ASSUME NEW id \in Ids \ {new}, Waiting(id)'
        PROVE  /\ Waiting(id) /\ approvals'[id] = approvals[id]
               /\ ~(approvals[id].plan = p /\ approvals[id].by = who)
    <3>1. approvals'[id] = expireApprovals[id] /\ expireApprovals[id] = approvals[id]
      BY <1>0, <2>2, <2>4, <2>6 DEF Waiting
    <3>2. Waiting(id) BY <2>6, <3>1 DEF Waiting
    <3>3. id \notin Reusable(expireApprovals, p, who) BY <1>2
    <3>. QED BY <3>1, <3>2, <3>3 DEF Reusable, Waiting
  <2>. SUFFICES ASSUME NEW i \in Ids, NEW j \in Ids, Waiting(i)', Waiting(j)', Twins(i, j)',
                       i # j
                PROVE  FALSE
    BY DEF NoDuplicatePending, Waiting, Twins
  <2>7. CASE i # new /\ j # new
    BY <2>6, <2>7 DEF NoDuplicatePending, Waiting, Twins
  <2>8. CASE i = new \/ j = new
    <3>1. Waiting(new)' BY <2>8
    <3>2. approvals'[new].plan = p /\ approvals'[new].by = who
      BY <2>2, <2>3, <2>5, <3>1 DEF Waiting
    <3>. QED BY <2>6, <2>8, <3>2 DEF Twins
  <2>. QED BY <2>7, <2>8
<1>. QED BY <1>1, <1>2, FindOrCreateCases

\* No step leaves a requester with two live requests for one plan.
LEMMA DuplicateStep == Inv /\ NoDuplicatePending /\ [Next]_vars => NoDuplicatePending'
<1>. SUFFICES ASSUME Inv, NoDuplicatePending, [Next]_vars PROVE NoDuplicatePending'
  OBVIOUS
<1>. USE DEF Inv
<1>0. now \in Nat /\ approvals \in [Ids -> Approval] BY DEF TypeOK
<1>1. ASSUME now' = now,
             \A id \in Ids : approvals'[id] = approvals[id] \/ approvals'[id].status # "pending"
      PROVE  NoDuplicatePending'
  BY <1>1, NoNewWaiting DEF Waiting
<1>2. ASSUME NEW r \in Requests, ConsumeToken(r) PROVE NoDuplicatePending'
  <2>1. \A id \in Ids : /\ MarkUsed(approvals[id]).status = "used"
                        /\ Stamped(approvals[id], "expired").status = "expired"
    BY <1>0 DEF MarkUsed, Stamped, Approval
  <2>2. \A id \in Ids : approvals'[id] = approvals[id] \/ approvals'[id].status # "pending"
    BY <1>0, <1>2, <2>1 DEF ConsumeToken, Redeem, Lapse
  <2>. QED BY <1>1, <1>2, <2>2 DEF ConsumeToken
<1>3. ASSUME NEW r \in Requests, AskApproval(r) PROVE NoDuplicatePending'
  <2>1. req[r].plan \in Plans
    BY <1>3 DEF AskApproval, RequestsAgree, RequestAgrees
  <2>. QED BY <1>3, <2>1, FindOrCreateNoDuplicate DEF AskApproval
<1>4. ASSUME NEW x \in Ids, NEW who \in Deciders, NEW g \in BOOLEAN, ApproveHandler(x, who, g)
      PROVE  NoDuplicatePending'
  <2>1. Approved(approvals[x], who).status = "approved"
    BY <1>0 DEF Approved, Stamped, Approval
  <2>. QED BY <1>0, <1>1, <1>4, <2>1 DEF ApproveHandler, Approve
<1>5. ASSUME NEW x \in Ids, NEW who \in Deciders, RejectHandler(x, who)
      PROVE  NoDuplicatePending'
  <2>1. Rejected(approvals[x], who).status = "rejected"
    BY <1>0 DEF Rejected, Stamped, Approval
  <2>. QED BY <1>0, <1>1, <1>5, <2>1 DEF RejectHandler, Reject
<1>6. ASSUME NEW x \in Ids, NEW t \in Tokens, GetHandler(x, t) PROVE NoDuplicatePending'
  <2>1. WithToken(approvals[x], t).status = "approved"
    BY <1>0, <1>6 DEF GetHandler, IssueToken, ensureTokenIssueAllowed, WithToken, Approval
  <2>. QED BY <1>0, <1>1, <1>6, <2>1 DEF GetHandler, IssueToken
<1>7. CASE Tick
  <2>1. \A id \in Ids : approvals[id].expires \in Nat BY <1>0 DEF Approval
  <2>2. now' = now + 1 /\ approvals' = approvals BY <1>7 DEF Tick
  <2>3. \A id \in Ids : Waiting(id)' => Waiting(id)
    BY <1>0, <2>1, <2>2 DEF Waiting
  <2>. QED BY <2>2, <2>3, NoNewWaiting
<1>8. CASE UNCHANGED <<now, approvals>>
  BY <1>1, <1>8
<1>. QED
  BY <1>2, <1>3, <1>4, <1>5, <1>6, <1>7, <1>8 DEF Next, vars, Authorize, ConsultGrace,
     Execute, StoreFails, GrantGrace, ChangePolicy, Crash

\* What ApprovedSurvives calls granted and in time.
InTime(id) ==
  approvals[id].status = "approved" /\ ~PastExpiry(approvals[id]) /\ ~tokenExpired(approvals[id])

\* FindOrCreatePending neither sweeps nor trims nor overwrites such a record.
LEMMA FindOrCreateKeepsApproved ==
  ASSUME TypeOK, RecordsAgree, NEW p \in Plans, NEW who, FindOrCreatePending(p, who),
         NEW id \in Ids, InTime(id)
  PROVE  approvals'[id] = approvals[id]
<1>1. expireApprovals[id] = approvals[id]
  BY SweepKeeps DEF InTime, Expirable
<1>2. ASSUME NEW new \in Ids, NEW kept, hist[new].plan = NoPlan,
             kept \in trimApprovals([expireApprovals EXCEPT ![new] = NewApproval(p, who)]),
             approvals' = Keeping([expireApprovals EXCEPT ![new] = NewApproval(p, who)], kept)
      PROVE  approvals'[id] = approvals[id]
  <2>. DEFINE appended == [expireApprovals EXCEPT ![new] = NewApproval(p, who)]
  <2>1. id # new BY <1>2 DEF RecordsAgree, InTime
  <2>2. appended[id] = approvals[id]
    BY <1>1, <2>1 DEF expireApprovals
  <2>3. appended[id].status # "absent" /\ approvalIsLoadBearing(appended[id])
    BY <2>2 DEF InTime, approvalIsLoadBearing
  <2>. HIDE DEF appended
  <2>4. id \in kept BY <1>2, <2>3, TrimKeepsLoadBearing DEF appended
  <2>5. approvals' = Keeping(appended, kept) BY <1>2 DEF appended
  <2>. QED BY <2>2, <2>4, <2>5 DEF Keeping
<1>. QED BY <1>1, <1>2, FindOrCreateCases

\* An approval in time is left alone or used by every step.
LEMMA ApprovedStep ==
  ASSUME Inv, [Next]_vars, NEW id \in Ids, InTime(id)
  PROVE  approvals'[id].status \in {"approved", "used"}
<1>. USE DEF Inv
<1>. DEFINE P == approvals'[id].status \in {"approved", "used"}
<1>0. approvals \in [Ids -> Approval] BY DEF TypeOK
<1>1. ASSUME approvals'[id] = approvals[id] PROVE P
  BY <1>1 DEF InTime
<1>2. ASSUME NEW r \in Requests, ConsumeToken(r) PROVE P
  <2>1. ASSUME NEW x \in Ids, Redeem(r, x) PROVE P
    <3>1. MarkUsed(approvals[x]).status = "used" BY <1>0 DEF MarkUsed, Stamped, Approval
    <3>. QED BY <1>0, <1>1, <2>1, <3>1 DEF Redeem
  <2>2. ASSUME NEW x \in Ids, Lapse(r, x) PROVE P
    <3>1. x # id BY <2>2 DEF Lapse, Lapsed, Spent, InTime
    <3>. QED BY <1>0, <1>1, <2>2, <3>1 DEF Lapse
  <2>. QED BY <1>1, <1>2, <2>1, <2>2 DEF ConsumeToken
<1>3. ASSUME NEW r \in Requests, AskApproval(r) PROVE P
  <2>1. req[r].plan \in Plans
    BY <1>3 DEF AskApproval, RequestsAgree, RequestAgrees
  <2>. QED BY <1>1, <1>3, <2>1, FindOrCreateKeepsApproved DEF AskApproval
<1>4. ASSUME NEW x \in Ids, NEW who \in Deciders, NEW g \in BOOLEAN, ApproveHandler(x, who, g)
      PROVE  P
  <2>1. x # id BY <1>4 DEF ApproveHandler, Approve, ensureApprovalDecisionAllowed, InTime
  <2>. QED BY <1>0, <1>1, <1>4, <2>1 DEF ApproveHandler, Approve
<1>5. ASSUME NEW x \in Ids, NEW who \in Deciders, RejectHandler(x, who) PROVE P
  <2>1. x # id BY <1>5 DEF RejectHandler, Reject, ensureApprovalDecisionAllowed, InTime
  <2>. QED BY <1>0, <1>1, <1>5, <2>1 DEF RejectHandler, Reject
<1>6. ASSUME NEW x \in Ids, NEW t \in Tokens, GetHandler(x, t) PROVE P
  <2>1. WithToken(approvals[x], t).status = "approved"
    BY <1>0, <1>6 DEF GetHandler, IssueToken, ensureTokenIssueAllowed, WithToken, Approval
  <2>. QED BY <1>0, <1>1, <1>6, <2>1 DEF GetHandler, IssueToken
<1>7. CASE UNCHANGED approvals
  BY <1>1, <1>7
<1>. QED
  BY <1>2, <1>3, <1>4, <1>5, <1>6, <1>7 DEF Next, vars, Authorize, ConsultGrace, Execute,
     StoreFails, GrantGrace, ChangePolicy, Tick, Crash

-----------------------------------------------------------------------------
(* The theorems.                                                           *)

\* Inv holds initially and is kept by every step.
THEOREM Invariance == Spec => []Inv
<1>1. Init => Inv
  <2>. SUFFICES ASSUME Init PROVE Inv
    OBVIOUS
  <2>1. TypeOK
    BY AbsentType, IdleType DEF Init, TypeOK, NoGrant, Grant
  <2>2. RecordsAgree BY DEF Init, RecordsAgree, Absent
  <2>3. RequestsAgree BY DEF Init, RequestsAgree, RequestAgrees, IdleRequest
  <2>4. GraceAgrees BY DEF Init, GraceAgrees
  <2>5. SpentOnce BY DEF Init, SpentOnce, TokenGrant, IdleRequest, Absent
  <2>. QED BY <2>1, <2>2, <2>3, <2>4, <2>5 DEF Inv
<1>2. Inv /\ [Next]_vars => Inv'
  BY TypeStep, RecordsStep, RequestsStep, GraceStep, SpentStep DEF Inv
<1>. QED BY <1>1, <1>2, PTL DEF Spec

\* The files, the requests and the histories keep their types (store.go,
\* grace.go, handler_operations.go).
THEOREM TypeCorrect == Spec => []TypeOK
<1>1. Inv => TypeOK BY DEF Inv
<1>. QED BY <1>1, Invariance, PTL

\* ConsumeToken spends an approval once: however tokens are reissued, records
\* trimmed and requests interleaved, no approval backs two executions.
THEOREM ExecutionIsOneShot == Spec => []OneExecutionPerApproval
<1>1. Inv => OneExecutionPerApproval BY DEF Inv, SpentOnce, OneExecutionPerApproval
<1>. QED BY <1>1, Invariance, PTL

\* authorizeOperation lets through only what its policy, an approved request for
\* that plan, or a grace window of that project authorises.
THEOREM GateIsSound == Spec => []AuthorizationSound
<1>1. Inv => AuthorizationSound
  <2>. SUFFICES ASSUME Inv, NEW r \in Requests, req[r].pc = "granted"
                PROVE  /\ req[r].plan \notin DeniedPlans
                       /\ req[r].via = "open" => req[r].plan \notin ReviewedPlans \ ToggledPlans
                       /\ req[r].via = "token" =>
                            hist[req[r].from] = [plan |-> req[r].plan, decision |-> "approved"]
                       /\ req[r].via = "grace" =>
                            /\ req[r].from \in Ids
                            /\ hist[req[r].from].decision = "approved"
                            /\ ProjectOf[hist[req[r].from].plan] = ProjectOf[req[r].plan]
    BY DEF AuthorizationSound
  <2>1. RequestAgrees(r) BY DEF Inv, RequestsAgree
  <2>2. \A id \in Ids : hist[id] = [plan |-> hist[id].plan, decision |-> hist[id].decision]
    BY DEF Inv, TypeOK
  <2>. QED BY <2>1, <2>2 DEF RequestAgrees
<1>. QED BY <1>1, Invariance, PTL

\* FindOrCreatePending reuses the waiting request: however requests interleave,
\* a requester never has two live ones for one plan.
THEOREM PendingIsUnique == Spec => []NoDuplicatePending
<1>1. Init => NoDuplicatePending BY DEF Init, NoDuplicatePending, Absent
<1>2. Inv /\ NoDuplicatePending /\ [Next]_vars => NoDuplicatePending'
  BY DuplicateStep
<1>. QED BY <1>1, <1>2, Invariance, PTL DEF Spec

\* Neither the sweep, the retention budget, a later verdict nor a crash takes an
\* approval in time from its holder (expireApprovals, trimApprovals, Reject).
THEOREM ApprovalIsKept == Spec => ApprovedSurvives
<1>1. Inv /\ [Next]_vars =>
        [\A id \in Ids :
           /\ approvals[id].status = "approved"
           /\ ~PastExpiry(approvals[id]) /\ ~tokenExpired(approvals[id])
           => approvals'[id].status \in {"approved", "used"}]_vars
  BY ApprovedStep DEF InTime
<1>. QED BY <1>1, Invariance, PTL DEF Spec, ApprovedSurvives
=============================================================================
