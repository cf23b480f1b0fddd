---------------------------- MODULE NodeTransport ----------------------------
(***************************************************************************)
(* The transport dispatcher (agent/nodetransport/dispatcher.go) for one    *)
(* host: the host has a chain of transports, a route remembers which of    *)
(* them is in use, requests and status streams that fail probe the chain   *)
(* and move the route, and the subscription loop keeps a status stream     *)
(* open on the route.  Hosts share nothing but the channels.               *)
(*                                                                         *)
(* The routes map is guarded by a mutex that no probe is made under: a     *)
(* watcher and a request each read the route, probe link by link and then  *)
(* write it.  The subscription loop's reconcile reads the route once and   *)
(* otherwise touches only its own map, so it is one action; the wake-up by *)
(* routeChanged only brings the ticker's next reconcile forward, and that  *)
(* may come at any moment here.  The providers (direct.go, tunnel.go) are  *)
(* the links they reach the host by: a stream delivers frames while its    *)
(* link is up and ends with one last frame.  Its buffer is the frame the   *)
(* watcher holds.                                                          *)
(***************************************************************************)
EXTENDS Integers, Sequences, FiniteSets

CONSTANTS
  LastLink,    \* the chain's transports are 0 .. LastLink
  Watchers,    \* bound: watcher goroutines alive at once
  MaxDeps,     \* deployments the host runs
  OutCap,      \* capacity of the frame channel (32)
  DoneCap,     \* capacity of the done channel (128, for all hosts)
  MaxFlaps,    \* bound: how often a link changes, a connection breaks or a call fails
  NoWatcher

ASSUME TransportConstants ==
  /\ LastLink \in Nat
  /\ IsFiniteSet(Watchers) /\ NoWatcher \notin Watchers
  /\ MaxDeps \in Nat /\ OutCap \in Nat \ {0} /\ DoneCap \in Nat /\ MaxFlaps \in Nat

Links == 0 .. LastLink

VARIABLES
  up,       \* the links that reach the host
  flaps,    \* link changes, broken connections and failed calls so far
  target,   \* the host has an agent configured
  route,    \* routes[host].selectedIndex
  watching, \* watchers[host]: its index, -1 when the entry is missing ...
  owner,    \* ... and the goroutine the entry's cancel stops
  w,        \* the watcher goroutines
  done,     \* their done events
  out,      \* frames on their way to the registry
  call      \* the link a request that failed is about to probe, -1 for none

transportVars == <<up, flaps, target, route, watching, owner, w, done, out, call>>

Frame == [reachable : BOOLEAN, deps : 0 .. MaxDeps]
Failure == [reachable |-> FALSE, deps |-> 0]
Free == [pc |-> "free", index |-> 0, live |-> FALSE, probe |-> 0, recovered |-> FALSE,
         frame |-> Failure, last |-> FALSE]

TransportTypeOK ==
  /\ up \subseteq Links /\ flaps \in 0 .. MaxFlaps /\ target \in BOOLEAN
  /\ route \in Links \cup {-1} /\ call \in Links \cup {-1}
  /\ watching \in Links \cup {-1} /\ owner \in Watchers \cup {NoWatcher}
  /\ w \in [Watchers ->
        [pc : {"free", "wait", "probe", "head", "check", "send"},
         index : Links, live : BOOLEAN, probe : Links, recovered : BOOLEAN,
         frame : Frame, last : BOOLEAN]]
  /\ done \in Seq(Links) /\ Len(done) <= DoneCap
  /\ out \in Seq(Frame) /\ Len(out) <= OutCap

TransportInit ==
  /\ up \in SUBSET Links /\ flaps = 0 /\ target \in BOOLEAN
  /\ route = 0 /\ call = -1
  /\ watching = -1 /\ owner = NoWatcher
  /\ w = [x \in Watchers |-> Free] /\ done = <<>> /\ out = <<>>

\* A link comes up or goes down.
Flap ==
  /\ flaps < MaxFlaps
  /\ \E l \in Links : up' = IF l \in up THEN up \ {l} ELSE up \cup {l}
  /\ flaps' = flaps + 1
  /\ UNCHANGED <<target, route, watching, owner, w, done, out, call>>

-----------------------------------------------------------------------------
(* Routes.                                                                 *)

\* selectedIndex: -1 and an index past the chain are stored back as the head.
selectedIndex == IF route \in Links THEN route ELSE 0

\* One probe of reselect's walk down the chain: the link answers and becomes
\* the route, or the next one is tried, or there is none left.
Reached(k) == k \in up /\ route' = k
NotReached(k) == k \notin up /\ k < LastLink /\ UNCHANGED route

NoneReached(k) == k \notin up /\ k = LastLink /\ route' = -1

\* Mistake: the degraded route is written back as it was read.
KeepDegraded == UNCHANGED route

\* recoverChainHead's probe and write.
recoverChainHead == route' = IF 0 \in up THEN 0 ELSE route

-----------------------------------------------------------------------------
(* Watcher goroutines.                                                     *)

Set(x, r) == w' = [w EXCEPT ![x] = r]
loopUnchanged == UNCHANGED <<target, watching, owner, call>>
streamOnly == loopUnchanged /\ UNCHANGED <<up, flaps, done, out>>

\* What the goroutine does with a reachable frame: recoverChainHeadOnStatus goes
\* on to probe the head of a degraded route, until that worked on this watcher.
Reachable(x, deps) ==
  [w[x] EXCEPT !.pc = IF ~w[x].recovered /\ route > 0 THEN "head" ELSE "check",
               !.frame = [reachable |-> TRUE, deps |-> deps]]

\* A frame of a reachable host; it may list fewer deployments than the host
\* runs when collecting them takes too long.
ReceiveFrame(x) ==
  /\ w[x].pc = "wait" /\ w[x].live /\ w[x].index \in up
  /\ \E n \in 0 .. MaxDeps : Set(x, Reachable(x, n))
  /\ streamOnly /\ UNCHANGED route

\* The stream ends with a last frame: unreachable when its link is down, and
\* also when the connection broke on a link that is up; reachable and without
\* deployments when only the stream is refused and the health call is answered.
ReceiveFailure(x) ==
  /\ w[x].pc = "wait" /\ w[x].live
  /\ \/ /\ w[x].index \notin up \/ flaps < MaxFlaps
        /\ flaps' = flaps + (IF w[x].index \in up THEN 1 ELSE 0)
        /\ Set(x, [w[x] EXCEPT !.pc = "probe", !.last = TRUE])
     \/ /\ w[x].index \in up
        /\ Set(x, [Reachable(x, 0) EXCEPT !.last = TRUE])
        /\ UNCHANGED flaps
  /\ loopUnchanged /\ UNCHANGED <<up, done, out, route>>

\* reselect after an unreachable frame.  Whatever it finds, the frame goes on to
\* the route check, which drops it when the route has moved or is gone.
Probe(x) ==
  /\ w[x].pc = "probe"
  /\ LET k == w[x].probe
     IN  \/ NotReached(k) /\ Set(x, [w[x] EXCEPT !.probe = k + 1])
         \/ /\ Reached(k) \/ NoneReached(k)
            /\ Set(x, [w[x] EXCEPT !.pc = "check", !.probe = 0])
  /\ streamOnly

\* recoverChainHead on a frame: the route it read is the past by now.
ProbeHead(x) ==
  /\ w[x].pc = "head"
  /\ recoverChainHead
  /\ Set(x, [w[x] EXCEPT !.pc = "check", !.recovered = 0 \in up])
  /\ streamOnly

\* The goroutine ends; its done event is dropped when the channel is full.
Ends(x) ==
  /\ Set(x, Free)
  /\ done' = IF Len(done) < DoneCap THEN Append(done, w[x].index) ELSE done

\* The goroutine is through with a frame.
AfterFrame(x) ==
  \/ w[x].last /\ Ends(x)
  \/ ~w[x].last /\ Set(x, [w[x] EXCEPT !.pc = "wait", !.frame = Failure]) /\ UNCHANGED done

\* A frame is forwarded only while its stream is the route's.
CheckRoute(x) ==
  /\ w[x].pc = "check"
  /\ \/ route = w[x].index /\ Set(x, [w[x] EXCEPT !.pc = "send"]) /\ UNCHANGED done
     \/ route # w[x].index /\ AfterFrame(x)
  /\ loopUnchanged /\ UNCHANGED <<up, flaps, out, route>>

SendFrame(x) ==
  /\ w[x].pc = "send" /\ Len(out) < OutCap
  /\ out' = Append(out, w[x].frame)
  /\ AfterFrame(x)
  /\ loopUnchanged /\ UNCHANGED <<up, flaps, route>>

\* A cancelled stream closes its channel.
Cancelled(x) ==
  /\ w[x].pc = "wait" /\ ~w[x].live
  /\ Ends(x)
  /\ loopUnchanged /\ UNCHANGED <<up, flaps, out, route>>

Watch(x) ==
  \/ ReceiveFrame(x) \/ ReceiveFailure(x) \/ Probe(x) \/ ProbeHead(x)
  \/ CheckRoute(x) \/ SendFrame(x) \/ Cancelled(x)

-----------------------------------------------------------------------------
(* runSubscriptions and recoveryLoop.                                      *)

\* cancel of the entry: its goroutine may be gone already.
WithoutOwner ==
  IF owner = NoWatcher \/ w[owner].pc = "free" THEN w ELSE [w EXCEPT ![owner].live = FALSE]

\* A host that is no target loses its watcher.
Unwatch ==
  /\ ~target /\ watching # -1
  /\ w' = WithoutOwner /\ watching' = -1 /\ owner' = NoWatcher
  /\ UNCHANGED <<up, flaps, target, route, done, out, call>>

\* A watcher on another index than the selected one is cancelled, and a new one
\* is started.
Rewatch ==
  /\ target /\ watching # selectedIndex
  /\ \E x \in Watchers : w[x].pc = "free"
  /\ owner' = CHOOSE x \in Watchers : w[x].pc = "free"
  /\ w' = [WithoutOwner EXCEPT ![owner'] =
             [Free EXCEPT !.pc = "wait", !.live = TRUE, !.index = selectedIndex]]
  /\ route' = selectedIndex /\ watching' = selectedIndex
  /\ UNCHANGED <<up, flaps, target, done, out, call>>

\* The watcher on the selected index stays; a route that was gone is the head.
Rewatched ==
  /\ target /\ watching = selectedIndex /\ route' = selectedIndex
  /\ UNCHANGED <<up, flaps, target, watching, owner, w, done, out, call>>

reconcile == Unwatch \/ Rewatch \/ Rewatched

\* Mistake: an ended watcher keeps its entry.
KeepEntry ==
  /\ done # <<>> /\ done' = Tail(done)
  /\ UNCHANGED <<up, flaps, target, route, watching, owner, w, out, call>>

\* A done event removes the entry of its index, whichever goroutine that entry
\* belongs to by now.
HandleDone ==
  /\ done # <<>> /\ done' = Tail(done)
  /\ IF watching = Head(done) THEN watching' = -1 /\ owner' = NoWatcher
                              ELSE UNCHANGED <<watching, owner>>
  /\ UNCHANGED <<up, flaps, target, route, w, out, call>>

\* recoverChainHeads, every seven minutes.
recoverChainHeads ==
  /\ target /\ LastLink > 0 /\ route > 0
  /\ recoverChainHead
  /\ UNCHANGED <<up, flaps, target, watching, owner, w, done, out, call>>

-----------------------------------------------------------------------------
(* Do and Stream: a call that fails, on any link and for any reason, walks *)
(* the chain.  The repetition on the new route reads it once more, which   *)
(* writes what the next reconcile writes.                                  *)

CallFails ==
  /\ call = -1 /\ target /\ flaps < MaxFlaps
  /\ call' = 0 /\ route' = selectedIndex /\ flaps' = flaps + 1
  /\ UNCHANGED <<up, target, watching, owner, w, done, out>>

CallReselects ==
  /\ call # -1
  /\ \/ NotReached(call) /\ call' = call + 1
     \/ (Reached(call) \/ NoneReached(call)) /\ call' = -1
  /\ UNCHANGED <<up, flaps, target, watching, owner, w, done, out>>

TransportNext ==
  \/ Flap
  \/ \E x \in Watchers : Watch(x)
  \/ reconcile \/ HandleDone \/ recoverChainHeads
  \/ CallFails \/ CallReselects
=============================================================================
