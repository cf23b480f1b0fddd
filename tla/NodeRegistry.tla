---------------------------- MODULE NodeRegistry ----------------------------
(***************************************************************************)
(* The node registry (agent/noderegistry/registry.go) for one host: the    *)
(* last known status, the heartbeat that ages it, and the subscribers that *)
(* get every snapshot through a bounded channel.  Every operation holds    *)
(* the registry's mutex; only the initial snapshot of a subscription is    *)
(* sent after it is released.                                              *)
(***************************************************************************)
EXTENDS Integers, Sequences

CONSTANTS
  Subs,      \* subscribers: a /ws/nodes connection, the port mirror's bridge
  SubCap,    \* capacity of a subscriber's channel (16)
  Prompt,    \* Subscribe sends its initial snapshot before others fill the channel
  NoNode     \* the host is not in the snapshot

ASSUME RegistryConstants == SubCap \in Nat \ {0} /\ Prompt \in BOOLEAN

VARIABLES
  covered,   \* the host was a target when the registry started
  node,      \* nodes[host]: reachable, and how many deployments it lists
  seen,      \* lastSeen[host]: absent, recent, or older than staleAfter
  sub        \* the subscribers

registryVars == <<covered, node, seen, sub>>

Status(D) == [reachable : BOOLEAN, deps : 0 .. D]

RegistryTypeOK(D) ==
  /\ covered \in BOOLEAN
  /\ node \in Status(D) \cup {NoNode}
  /\ seen \in {"absent", "recent", "old"}
  /\ sub \in [Subs -> [pc : {"off", "initial", "on"}, initial : Status(D) \cup {NoNode},
                       ch : Seq(Status(D) \cup {NoNode}), view : Status(D) \cup {NoNode}]]
  /\ \A s \in Subs : Len(sub[s].ch) <= SubCap

\* Start preseeds every covered host, which has not been seen yet.
RegistryInit(isTarget) ==
  /\ covered = isTarget
  /\ node = IF isTarget THEN [reachable |-> FALSE, deps |-> 0] ELSE NoNode
  /\ seen = "absent"
  /\ sub = [s \in Subs |-> [pc |-> "off", initial |-> NoNode, ch |-> <<>>, view |-> NoNode]]

\* broadcastLocked: a full channel misses the snapshot.
Published(snapshot) ==
  [s \in Subs |->
     IF sub[s].pc = "off" \/ Len(sub[s].ch) = SubCap THEN sub[s]
     ELSE [sub[s] EXCEPT !.ch = Append(@, snapshot)]]

Store(status) ==
  /\ Prompt => \A s \in Subs : sub[s].pc = "initial" => Len(sub[s].ch) < SubCap - 1
  /\ node' = status /\ sub' = Published(status)

\* Mistake: a frame replaces what was known, whatever it leaves out.
TakeFrame(status) == status

\* A frame of a reachable host with fewer deployments than the last one is
\* incomplete: the known deployments are kept.
Merged(status) ==
  IF node # NoNode /\ status.reachable /\ status.deps < node.deps
  THEN [status EXCEPT !.deps = node.deps] ELSE status

\* applyBatch.  Coverage is what Covers returned at the start.
applyBatch(status) ==
  IF covered THEN Store(Merged(status)) /\ seen' = "recent" /\ UNCHANGED covered
             ELSE UNCHANGED registryVars

\* staleAfter passes without a frame.
HeartbeatAges ==
  seen = "recent" /\ seen' = "old" /\ UNCHANGED <<covered, node, sub>>

\* Mistake: the stale check forgets the host instead of marking it.
DropStale == seen = "old" /\ seen' = "absent" /\ UNCHANGED <<covered, node, sub>>

markStale ==
  /\ seen = "old" /\ node # NoNode /\ node.reachable
  /\ Store([node EXCEPT !.reachable = FALSE])
  /\ UNCHANGED <<covered, seen>>

Forget ==
  IF node = NoNode THEN UNCHANGED registryVars
  ELSE Store(NoNode) /\ seen' = "absent" /\ UNCHANGED covered

\* Subscribe registers the channel under the mutex ...
Subscribe(s) ==
  /\ sub[s].pc = "off"
  /\ sub' = [sub EXCEPT ![s] = [@ EXCEPT !.pc = "initial", !.initial = node]]
  /\ UNCHANGED <<covered, node, seen>>

\* ... and sends the initial snapshot after it, waiting for room.
SendInitial(s) ==
  /\ sub[s].pc = "initial" /\ Len(sub[s].ch) < SubCap
  /\ sub' = [sub EXCEPT ![s] = [@ EXCEPT !.pc = "on", !.initial = NoNode,
                                         !.ch = Append(@, sub[s].initial)]]
  /\ UNCHANGED <<covered, node, seen>>

\* The subscriber takes a snapshot and shows it.
Consume(s) ==
  /\ sub[s].pc = "on" /\ sub[s].ch # <<>>
  /\ sub' = [sub EXCEPT ![s] = [@ EXCEPT !.view = Head(sub[s].ch), !.ch = Tail(@)]]
  /\ UNCHANGED <<covered, node, seen>>
=============================================================================
