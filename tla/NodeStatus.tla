----------------------------- MODULE NodeStatus -----------------------------
(***************************************************************************)
(* What the console shows of one host: the dispatcher's status streams     *)
(* feed the registry, the registry feeds its subscribers, and the agent's  *)
(* life cycle (agent/api/agent_lifecycle.go) adds the host to the targets  *)
(* and takes it away again.                                                *)
(***************************************************************************)
EXTENDS NodeTransport, NodeRegistry

CONSTANT MaxChanges   \* bound: how often the agent is attached or detached

ASSUME StatusConstants == MaxChanges \in Nat /\ NoNode \notin Frame

VARIABLES
  changes,    \* attachments and detachments so far
  detaching   \* the configuration is gone and Forget is still to come

lifeVars == <<changes, detaching>>
vars == <<transportVars, registryVars, lifeVars>>

TypeOK ==
  /\ TransportTypeOK /\ RegistryTypeOK(MaxDeps)
  /\ changes \in 0 .. MaxChanges /\ detaching \in BOOLEAN

Init ==
  /\ TransportInit /\ RegistryInit(target)
  /\ changes = 0 /\ detaching = FALSE

\* consumeTransport takes the next frame.
Deliver ==
  /\ out # <<>> /\ out' = Tail(out)
  /\ applyBatch(Head(out))
  /\ UNCHANGED <<up, flaps, target, route, watching, owner, w, done, call, lifeVars>>

SetTarget(configured) ==
  /\ target' = configured
  /\ UNCHANGED <<up, flaps, route, watching, owner, w, done, out, call, registryVars>>

\* An agent is installed or attached: its configuration is stored.
Attach ==
  /\ ~target /\ ~detaching /\ changes < MaxChanges
  /\ SetTarget(TRUE) /\ changes' = changes + 1 /\ UNCHANGED detaching

\* uninstallAgent and detachAgent: first the configuration ...
RemoveConfig ==
  /\ target /\ changes < MaxChanges
  /\ SetTarget(FALSE) /\ changes' = changes + 1 /\ detaching' = TRUE

\* ... then the snapshot.
ForgetNode ==
  /\ detaching /\ detaching' = FALSE
  /\ Forget
  /\ UNCHANGED <<transportVars, changes>>

\* Frames come every few seconds and staleAfter is 15: it passes only when the
\* route's link does not reach the host or the host is no target.
HeartbeatStops ==
  /\ ~target \/ selectedIndex \notin up
  /\ HeartbeatAges
  /\ UNCHANGED <<transportVars, lifeVars>>

MarkStale == markStale /\ UNCHANGED <<transportVars, lifeVars>>

Transport == TransportNext /\ UNCHANGED <<registryVars, lifeVars>>

Next ==
  \/ Transport \/ Deliver \/ HeartbeatStops \/ MarkStale
  \/ Attach \/ RemoveConfig \/ ForgetNode

\* With the subscribers of the registry.
Subscriber(s) ==
  /\ Subscribe(s) \/ SendInitial(s) \/ Consume(s)
  /\ UNCHANGED <<transportVars, lifeVars>>

ShownNext == Next \/ \E s \in Subs : Subscriber(s)

\* Tickers fire, goroutines run and live streams deliver; links, callers and the
\* operator promise nothing.
Alone(A) == A /\ UNCHANGED <<registryVars, lifeVars>>

Fairness ==
  /\ \A x \in Watchers : WF_vars(Alone(Watch(x)))
  /\ WF_vars(Alone(reconcile)) /\ WF_vars(Alone(HandleDone))
  /\ SF_vars(Alone(recoverChainHeads)) /\ WF_vars(Alone(CallReselects))
  /\ WF_vars(Deliver) /\ WF_vars(ForgetNode)
  /\ WF_vars(HeartbeatStops) /\ WF_vars(MarkStale)

Spec == Init /\ [][Next]_vars
FairSpec == Spec /\ Fairness

ShownSpec ==
  /\ Init /\ [][ShownNext]_vars /\ Fairness
  /\ \A s \in Subs :
       WF_vars((SendInitial(s) \/ Consume(s)) /\ UNCHANGED <<transportVars, lifeVars>>)

-----------------------------------------------------------------------------
(* Properties.                                                             *)

\* While a host stays reachable its services do not vanish from the snapshot
\* because a frame was incomplete (applyBatch).
ServicesKept ==
  [][(node # NoNode /\ node' # NoNode /\ node.reachable /\ node'.reachable)
       => node'.deps >= node.deps]_node

\* Once the head of the chain is reachable for good the route returns to it and
\* stays (recoverChainHead, reselect).
HeadPreferred == <>[](0 \in up /\ target) => <>[](route = 0)

\* A configured host that some link reaches for good ends as reachable in the
\* registry, whatever links, connections and late done events did before
\* (runSubscriptions, applyBatch).
LiveHostReported ==
  (covered /\ <>[](up # {} /\ target)) => <>[](node # NoNode /\ node.reachable)

\* A host that no link reaches any more ends as unreachable or forgotten in the
\* registry (markStale).
DeadHostMarked == <>[](up = {}) => <>[](node = NoNode \/ ~node.reachable)

-----------------------------------------------------------------------------
(* What comments promise and the code does not keep.                       *)

\* One watcher at most follows a host: the map of watchers has one per host.
OneWatcher ==
  Cardinality({x \in Watchers : w[x].pc # "free" /\ w[x].live}) <= 1

\* A host whose agent was removed is not in the snapshot once the removal is
\* over and nothing is on its way (Forget).
ForgottenStaysForgotten ==
  (~target /\ ~detaching /\ changes > 0 /\ out = <<>> /\ \A x \in Watchers : w[x].pc = "free")
    => node = NoNode

\* A subscriber that keeps reading ends with the registry's last snapshot: only
\* intermediate ones are skipped (Subscribe).
DeadHostShown ==
  \A s \in Subs :
    (<>[](up = {}) /\ <>(sub[s].pc # "off"))
      => <>[](sub[s].view = NoNode \/ ~sub[s].view.reachable)

\* A host that is configured and reachable for good is reported, whenever it was
\* added (Start computes the coverage once).
AddedHostReported ==
  <>[](up # {} /\ target) => []<>(node # NoNode /\ node.reachable)
=============================================================================
