--------------------------- MODULE TunnelManager ---------------------------
(***************************************************************************)
(* The SSH tunnels of one host: agent/tunnel/manager.go with the forwards  *)
(* of agent/tunnel/tunnel.go.  The manager keeps everything per host id    *)
(* and its operations touch one id only (Close: each id alike), so one     *)
(* host shows all of it.                                                   *)
(*                                                                         *)
(* Each locked section of the manager is one action; dialling, closing a   *)
(* tunnel and waking the waiters happen outside the lock and are steps of  *)
(* their own.  A caller makes one EnsureConnected call and leads at most   *)
(* one dial in it, so an attempt, its channel and the tunnel it opens are  *)
(* all named by the caller.                                                *)
(***************************************************************************)
EXTENDS Naturals, FiniteSets

CONSTANTS
  Callers,      \* EnsureConnected calls
  Pins,         \* host-key identities a target may demand
  BadPin,       \* a fingerprint that is not canonical
  Forwarders,   \* goroutines in EnsureForward or DropForward
  Ports,        \* local ports to mirror
  BusyPorts,    \* local ports some other program listens on
  MaxGen,       \* bound: no Disconnect or MarkFailed from this generation on
  NoOne, NoPin

ASSUME TunnelConstants ==
  /\ NoOne \notin Callers
  /\ BadPin \notin Pins /\ NoPin \notin Pins /\ NoPin # BadPin
  /\ BusyPorts \subseteq Ports
  /\ MaxGen \in Nat

VARIABLES
  closed,     \* Manager.closed
  gen,        \* generation[host]
  conn,       \* conns[host]: the published tunnel
  evidence,   \* hostKeys[host]: the identity the published tunnel proved
  status,     \* status[host]
  connecting, \* connecting[host]: the attempt in flight
  done,       \* attempts whose done channel is closed
  call,       \* the EnsureConnected calls
  open,       \* tunnels whose SSH connection and listeners are up
  forwards,   \* Tunnel.forwards of each tunnel: the local ports it listens on
  doomed,     \* tunnels taken out of the map, their Close still to come
  fwd,        \* the forwarders, between reading conns and using the tunnel
  stale       \* history: attempts invalidated in flight or after publication

mgr == <<closed, gen, conn, evidence, status, connecting>>
tunnels == <<open, forwards, doomed>>
vars == <<mgr, done, call, tunnels, fwd, stale>>

Tunnel == Callers \cup {NoOne}

Call ==
  [pc : {"idle", "start", "drop", "dial", "silent", "publish", "fail", "discard",
         "signal", "wait", "ok", "err"},
   pin : Pins \cup {BadPin, NoPin},
   gen : Nat,              \* connectAttempt.generation once it leads; before that,
                           \* as history, the generation the call was made in
   wait : Tunnel,          \* the attempt it waits for
   drop : Tunnel,          \* replacedConn
   got : Tunnel]           \* the tunnel whose port it returns

TypeOK ==
  /\ closed \in BOOLEAN /\ gen \in Nat
  /\ conn \in Tunnel /\ connecting \in Tunnel
  /\ evidence \in Pins \cup {NoPin}
  /\ status \in {"disconnected", "connecting", "connected", "failed"}
  /\ done \subseteq Callers
  /\ call \in [Callers -> Call]
  /\ open \subseteq Callers /\ doomed \subseteq Callers /\ stale \subseteq Callers
  /\ forwards \in [Callers -> SUBSET Ports]
  /\ fwd \in [Forwarders -> [tunnel : Tunnel, port : Ports, add : BOOLEAN]]

Init ==
  /\ closed = FALSE /\ gen = 0
  /\ conn = NoOne /\ connecting = NoOne
  /\ evidence = NoPin /\ status = "disconnected"
  /\ done = {} /\ open = {} /\ doomed = {} /\ stale = {}
  /\ call = [c \in Callers |-> [pc |-> "idle", pin |-> NoPin, gen |-> 0, wait |-> NoOne,
                                drop |-> NoOne, got |-> NoOne]]
  /\ forwards = [c \in Callers |-> {}]
  /\ fwd \in [Forwarders -> [tunnel : {NoOne}, port : Ports, add : {TRUE}]]

-----------------------------------------------------------------------------
(* What the locked sections do to the host's entries.  Plausible mistakes  *)
(* stand before the definition they would replace; no action uses them.    *)

\* A call as made, waiting, leading and answered.
Made(r, pin) == [r EXCEPT !.pc = "start", !.pin = pin, !.gen = gen]
Waiting(r, x) == [r EXCEPT !.pc = "wait", !.wait = x]
Leading(r, pc, x, g) == [r EXCEPT !.pc = pc, !.drop = x, !.gen = g]
Answered(r, pc, x) == [r EXCEPT !.pc = pc, !.got = x]

GoTo(c, pc) == call' = [call EXCEPT ![c].pc = pc]

\* Mistake: whatever is connected will do.
AnyTunnel(c) == conn # NoOne

\* A tunnel the caller may share: proved against the caller's own pin.
Reusable(c) == conn # NoOne /\ evidence = call[c].pin

BumpGeneration == gen' = gen + 1

\* Mistake: the evidence of the removed tunnel stays.
EvidenceKept == evidence' = evidence
ClearEvidence == evidence' = NoPin

\* Nothing published and nothing in flight may come back.
Invalidate ==
  /\ stale' = stale \cup ({conn, connecting} \ {NoOne})
  /\ conn' = NoOne /\ ClearEvidence
  /\ doomed' = doomed \cup ({conn} \ {NoOne})

\* Mistake: only a closed manager refuses a late result.
OnlyClosedCounts(c) == closed

Invalidated(c) == closed \/ gen # call[c].gen

-----------------------------------------------------------------------------
(* EnsureConnected.                                                        *)

EnsureConnected(c, pin) ==
  /\ call[c].pc = "idle"
  /\ call' = [call EXCEPT ![c] = Made(@, pin)]
  /\ UNCHANGED <<mgr, done, tunnels, fwd, stale>>

RejectClosed(c) ==
  /\ call[c].pc = "start" /\ closed
  /\ GoTo(c, "err")
  /\ UNCHANGED <<mgr, done, tunnels, fwd, stale>>

\* An invalid fingerprint fails the host: MarkFailed, then the error.
RejectPin(c) ==
  /\ call[c].pc = "start" /\ ~closed /\ call[c].pin = BadPin
  /\ BumpGeneration /\ Invalidate
  /\ status' = "failed"
  /\ GoTo(c, "err")
  /\ UNCHANGED <<closed, connecting, done, open, forwards, fwd>>

MayEnter(c) == call[c].pc = "start" /\ ~closed /\ call[c].pin # BadPin

Reuse(c) ==
  /\ MayEnter(c) /\ Reusable(c)
  /\ call' = [call EXCEPT ![c] = Answered(@, "ok", conn)]
  /\ UNCHANGED <<mgr, done, tunnels, fwd, stale>>

\* A tunnel proved against another pin is taken out first.
Replace ==
  IF conn = NoOne
    THEN UNCHANGED <<gen, conn, evidence, stale>>
    ELSE /\ BumpGeneration
         /\ conn' = NoOne /\ ClearEvidence
         /\ stale' = stale \cup {conn}

\* Somebody is dialling: wait for that attempt, stale or not.
Join(c) ==
  /\ MayEnter(c) /\ ~Reusable(c) /\ connecting # NoOne
  /\ Replace
  /\ doomed' = doomed \cup ({conn} \ {NoOne})
  /\ call' = [call EXCEPT ![c] = Waiting(@, connecting)]
  /\ UNCHANGED <<closed, status, connecting, done, open, forwards, fwd>>

Lead(c) ==
  /\ MayEnter(c) /\ ~Reusable(c) /\ connecting = NoOne
  /\ Replace
  /\ connecting' = c
  /\ status' = "connecting"
  /\ call' = [call EXCEPT ![c] =
                 Leading(@, IF conn = NoOne THEN "dial" ELSE "drop", conn, gen')]
  /\ UNCHANGED <<closed, done, tunnels, fwd>>

\* Tunnel.Close takes every forward down with the connection.
Shut(x) == open' = open \ {x} /\ forwards' = [forwards EXCEPT ![x] = {}]

\* replacedConn.Close, before the new dial.
CloseReplaced(c) ==
  /\ call[c].pc = "drop"
  /\ Shut(call[c].drop)
  /\ GoTo(c, "dial")
  /\ UNCHANGED <<mgr, done, doomed, fwd, stale>>

\* The handshake proves the pin: the tunnel is up, nobody knows of it yet.
DialSucceeds(c) ==
  /\ call[c].pc = "dial"
  /\ open' = open \cup {c}
  /\ GoTo(c, "publish")
  /\ UNCHANGED <<mgr, done, forwards, doomed, fwd, stale>>

\* No connection, or one that proved another key and was closed at once.
DialFails(c) ==
  /\ call[c].pc = "dial"
  /\ GoTo(c, "fail")
  /\ UNCHANGED <<mgr, done, tunnels, fwd, stale>>

\* The peer accepts the connection and never answers in the handshake.  The
\* timeout of the dial covers the connecting alone: the dial never ends.
FallsSilent(c) ==
  /\ call[c].pc = "dial"
  /\ GoTo(c, "silent")
  /\ UNCHANGED <<mgr, done, tunnels, fwd, stale>>

FreeSlot(c) == connecting' = IF connecting = c THEN NoOne ELSE connecting

Publish(c) ==
  /\ call[c].pc = "publish" /\ ~Invalidated(c)
  /\ FreeSlot(c) /\ conn' = c
  /\ evidence' = call[c].pin /\ status' = "connected"
  /\ call' = [call EXCEPT ![c] = Answered(@, "signal", c)]
  /\ UNCHANGED <<closed, gen, done, tunnels, fwd, stale>>

Fail(c) ==
  /\ call[c].pc = "fail" /\ ~Invalidated(c)
  /\ FreeSlot(c)
  /\ ClearEvidence /\ status' = "failed"
  /\ GoTo(c, "signal")
  /\ UNCHANGED <<closed, gen, conn, done, tunnels, fwd, stale>>

\* A result that came too late is thrown away.
Discard(c) ==
  /\ call[c].pc \in {"publish", "fail"} /\ Invalidated(c)
  /\ FreeSlot(c)
  /\ GoTo(c, IF call[c].pc = "publish" THEN "discard" ELSE "signal")
  /\ UNCHANGED <<closed, gen, conn, evidence, status, done, tunnels, fwd, stale>>

CloseDiscarded(c) ==
  /\ call[c].pc = "discard"
  /\ Shut(c)
  /\ GoTo(c, "signal")
  /\ UNCHANGED <<mgr, done, doomed, fwd, stale>>

\* Mistake: only a dial that succeeded wakes its waiters.
AnnounceSuccess(c) == done' = IF call[c].got = c THEN done \cup {c} ELSE done
Announce(c) == done' = done \cup {c}

\* close(attempt.done), and the leader returns.
Signal(c) ==
  /\ call[c].pc = "signal"
  /\ Announce(c)
  /\ GoTo(c, IF call[c].got = c THEN "ok" ELSE "err")
  /\ UNCHANGED <<mgr, tunnels, fwd, stale>>

Woken(c) == call[c].pc = "wait" /\ call[c].wait \in done

\* The attempt a waiter waited for still counts.
StillCounts(c) == ~closed /\ call[call[c].wait].gen = gen

\* A waiter comes back: the attempt was invalidated or failed, ...
WakeFails(c) ==
  /\ Woken(c) /\ (~StillCounts(c) \/ conn = NoOne)
  /\ GoTo(c, "err")
  /\ UNCHANGED <<mgr, done, tunnels, fwd, stale>>

\* ... or there is a tunnel, of its own pin ...
WakeShares(c) ==
  /\ Woken(c) /\ StillCounts(c) /\ Reusable(c)
  /\ call' = [call EXCEPT ![c] = Answered(@, "ok", conn)]
  /\ UNCHANGED <<mgr, done, tunnels, fwd, stale>>

\* ... or of another: the whole call again.
WakeRetries(c) ==
  /\ Woken(c) /\ StillCounts(c) /\ conn # NoOne /\ ~Reusable(c)
  /\ GoTo(c, "start")
  /\ UNCHANGED <<mgr, done, tunnels, fwd, stale>>

CallStep(c) ==
  \/ RejectClosed(c) \/ RejectPin(c) \/ Reuse(c) \/ Join(c) \/ Lead(c)
  \/ CloseReplaced(c) \/ DialSucceeds(c) \/ DialFails(c)
  \/ Publish(c) \/ Fail(c) \/ Discard(c) \/ CloseDiscarded(c)
  \/ Signal(c) \/ WakeFails(c) \/ WakeShares(c) \/ WakeRetries(c)

-----------------------------------------------------------------------------
(* The other operations of the manager.                                    *)

\* Mistake: the attempt in flight is struck off as well.
SlotFreed == connecting' = NoOne

\* The attempt stays registered until its dial ends.
SlotKept == UNCHANGED connecting

Disconnect ==
  /\ ~closed /\ gen < MaxGen
  /\ BumpGeneration /\ Invalidate
  /\ status' = "disconnected"
  /\ SlotKept
  /\ UNCHANGED <<closed, done, call, open, forwards, fwd>>

MarkFailed ==
  /\ ~closed /\ gen < MaxGen
  /\ BumpGeneration /\ Invalidate
  /\ status' = "failed"
  /\ SlotKept
  /\ UNCHANGED <<closed, done, call, open, forwards, fwd>>

Close ==
  /\ ~closed
  /\ closed' = TRUE
  /\ IF connecting = NoOne THEN UNCHANGED gen ELSE BumpGeneration
  /\ Invalidate
  /\ status' = "disconnected"
  /\ SlotKept
  /\ UNCHANGED <<done, call, open, forwards, fwd>>

\* The Close that follows the unlock of the three above.
CloseDoomed(x) ==
  /\ x \in doomed
  /\ Shut(x)
  /\ doomed' = doomed \ {x}
  /\ UNCHANGED <<mgr, done, call, fwd, stale>>

-----------------------------------------------------------------------------
(* Forwards: the tunnel is looked up under the manager's lock and used     *)
(* under its own.                                                          *)

LookUp(f, p, add) ==
  /\ fwd[f].tunnel = NoOne /\ conn # NoOne
  /\ fwd' = [fwd EXCEPT ![f] = [tunnel |-> conn, port |-> p, add |-> add]]
  /\ UNCHANGED <<mgr, done, call, tunnels, stale>>

Listening == BusyPorts \cup UNION {forwards[x] : x \in Callers}

\* Mistake: AddForward does not ask whether the tunnel was closed.
NeverClosed(x) == TRUE
NotClosed(x) == x \in open

\* A port somebody listens on, or a closed tunnel, is an error and no change.
AddForward(f) ==
  /\ fwd[f].tunnel # NoOne /\ fwd[f].add
  /\ LET x == fwd[f].tunnel  p == fwd[f].port IN
       forwards' = IF NotClosed(x) /\ p \notin Listening
                     THEN [forwards EXCEPT ![x] = @ \cup {p}] ELSE forwards
  /\ fwd' = [fwd EXCEPT ![f].tunnel = NoOne]
  /\ UNCHANGED <<mgr, done, call, open, doomed, stale>>

RemoveForward(f) ==
  /\ fwd[f].tunnel # NoOne /\ ~fwd[f].add
  /\ forwards' = [forwards EXCEPT ![fwd[f].tunnel] = @ \ {fwd[f].port}]
  /\ fwd' = [fwd EXCEPT ![f].tunnel = NoOne]
  /\ UNCHANGED <<mgr, done, call, open, doomed, stale>>

-----------------------------------------------------------------------------
Next ==
  \/ \E c \in Callers : CallStep(c) \/ FallsSilent(c)
  \/ \E c \in Callers, pin \in Pins \cup {BadPin} : EnsureConnected(c, pin)
  \/ Disconnect \/ MarkFailed \/ Close
  \/ \E x \in Callers : CloseDoomed(x)
  \/ \E f \in Forwarders : AddForward(f) \/ RemoveForward(f)
  \/ \E f \in Forwarders, p \in Ports, add \in BOOLEAN : LookUp(f, p, add)

\* A dial whose peer answers ends one way or the other (ssh.ClientConfig.Timeout
\* ends the connecting; nothing ends a handshake the peer has abandoned, so
\* FallsSilent may come first), the lock is granted, and a Close that follows
\* an unlock is reached.
Fairness ==
  /\ \A c \in Callers : WF_vars(CallStep(c))
  /\ \A x \in Callers : WF_vars(CloseDoomed(x))

Spec == Init /\ [][Next]_vars
FairSpec == Spec /\ Fairness

-----------------------------------------------------------------------------
(* Properties.                                                             *)

\* An attempt that was in flight, or a tunnel that was published, when the
\* host was disconnected, failed, re-pinned or the manager closed is never
\* the host's tunnel again (manager.go:130-132, 241-256).
NeverResurrected == conn \notin stale

\* What the manager says of the host is what it has: connected with evidence
\* for the very pin the tunnel was dialled with, or nothing published and
\* "connecting" exactly while an attempt that still counts is in flight.
StatusIsTruth ==
  /\ conn # NoOne => status = "connected" /\ ~closed /\ evidence = call[conn].pin
  /\ conn = NoOne => status # "connected" /\ evidence = NoPin
  /\ status = "connecting" <=>
       connecting # NoOne /\ ~closed /\ call[connecting].gen = gen

\* A caller that returns a port returns that of a tunnel dialled for its own
\* pin, also when it waited for somebody else's dial (manager.go:180, 211).
OwnPinOnly == \A c \in Callers : call[c].pc = "ok" =>
                 call[c].got # NoOne /\ call[call[c].got].pin = call[c].pin

Dialling(c) == call[c].pc \in {"drop", "dial", "silent", "publish", "fail"}

\* One dial at a time, even when the host is disconnected under a dial and
\* connected again before it ends (manager.go:129, 193-229).
SingleFlight ==
  \A c, d \in Callers : Dialling(c) /\ Dialling(d) => c = d

\* Whoever owns an open tunnel will close it: the map, a Close still to come,
\* or the call that dialled it; and only open tunnels have listeners, so an
\* EnsureForward that loses the race with Disconnect leaves none behind
\* (manager.go:9, tunnel.go:474-494).
NothingLeaks ==
  /\ conn # NoOne => conn \in open
  /\ \A x \in Callers :
       /\ x \in open => \/ x = conn \/ x \in doomed
                        \/ call[x].pc \in {"publish", "discard"}
                        \/ \E c \in Callers : call[c].pc = "drop" /\ call[c].drop = x
       /\ forwards[x] # {} => x \in open

\* The call dials a silent peer, or waits for one that does.
HangsOnPeer(c) ==
  \/ call[c].pc = "silent"
  \/ call[c].pc = "wait" /\ call[call[c].wait].pc = "silent"

\* Every call returns, unless the very attempt it leads or waits for dials a
\* peer that falls silent: no waiter is left behind by an invalidated, failed
\* or re-pinned attempt (manager.go:198, 250, 273).
CallsReturn == \A c \in Callers :
  call[c].pc \notin {"idle", "ok", "err"} ~> call[c].pc \in {"ok", "err"} \/ HangsOnPeer(c)

-----------------------------------------------------------------------------
(* What comments and documents say and the code does not keep: each is     *)
(* refuted by the configuration the README names for it.                   *)

\* A call made after a failure dials anew, or shares a dial begun after it: it
\* does not wait for an attempt of an earlier generation (manager.go:325).
RedialsAfterFailure ==
  \A c \in Callers : call[c].pc = "wait" => call[call[c].wait].gen >= call[c].gen
=============================================================================
