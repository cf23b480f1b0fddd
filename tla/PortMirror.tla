----------------------------- MODULE PortMirror -----------------------------
(***************************************************************************)
(* Port mirroring: agent/portmirror/manager.go and the stop-occupier       *)
(* handler of agent/api/handler_port_mirrors.go.  Every running service    *)
(* of a development machine gets its ports forwarded to the same local     *)
(* ports.                                                                  *)
(*                                                                         *)
(* One goroutine reconciles; node frames, the host switch and the retry    *)
(* button only write its inbox and then wake it.  A round snapshots the    *)
(* inbox, tears down what is no longer expected, connects the hosts that   *)
(* have something due and then visits the expected mirrors in key order.   *)
(* Between any two of these calls the world moves: new input, tunnels that *)
(* break, programs that take a local port.                                 *)
(*                                                                         *)
(* A frame is reduced to the ports its running instances declare, and the  *)
(* tunnel manager to the interface the mirror uses (EnsureConnected,       *)
(* EnsureForward, DropForward).  Time is counted in ticks.                 *)
(***************************************************************************)
EXTENDS Integers, Sequences, FiniteSets, Functions

CONSTANTS
  Hosts, Deployments, Ports,  \* ids, as numbers: the code orders them
  Programs,     \* local programs that may listen on a port
  Agent,        \* the agent's own process
  NoOne,
  Cooldown,     \* defaultCooldown, in ticks
  SubBuffer,    \* capacity of a subscriber's channel; 0: nobody subscribes
  Events        \* which of the AllEvents happen besides node frames

AllEvents == {"switch", "projects", "retry", "stop", "close",  \* user and shutdown
              "programs",                 \* local programs take and leave ports
              "outage", "unconfigured",   \* hosts and tunnels fail, lose their agent
              "hang",                     \* an SSH handshake is never answered
              "unreadable"}               \* the host list cannot be read

ASSUME MirrorConstants ==
  /\ Hosts \subseteq Nat /\ Deployments \subseteq Nat /\ Ports \subseteq Nat
  /\ IsFiniteSet(Hosts) /\ IsFiniteSet(Deployments) /\ IsFiniteSet(Ports)
  /\ Agent \notin Programs /\ NoOne \notin Programs /\ NoOne # Agent
  /\ Cooldown \in Nat \ {0} /\ SubBuffer \in Nat /\ Events \subseteq AllEvents

Key == [host : Hosts, dep : Deployments, port : Ports]        \* mirrorKey
FwdKey == [host : Hosts, port : Ports]                        \* fwdKey
Fwd(k) == [host |-> k.host, port |-> k.port]
Process == Programs \cup {Agent, NoOne}

\* mirrorEntry.  wait is what is left of the cooldown since lastAttempt; the
\* code reads it in conflict and failed only, and it is 0 elsewhere.
Entry == [state : {"pending", "active", "conflict", "failed"},
          err : {"none", "conflict", "duplicate", "connection"},
          occupier : Process, wait : 0 .. Cooldown, up : BOOLEAN]

VARIABLES
  frame,     \* latestFrame: the ports declared by running instances
  dev,       \* hosts with DevMachineMode
  known,     \* KnownDeployments
  retryReqs, \* Retry requests not yet taken by a round
  posting,   \* inputs written whose wake signal is still to be sent
  wake,      \* the wake channel, capacity one
  closing,   \* Close was called
  pc,        \* where the loop is
  round,     \* the locals of the round in progress
  age,       \* ticks since the round took its time stamp
  entries,   \* the mirrors, by key
  snapshot,  \* what Statuses returns
  chan, seen,\* a subscriber's channel and the last snapshot it read
  host,      \* each host: no agent configured, unreachable, reachable by SSH
             \* with a quiet agent, reachable with an agent that answers
  tunnels,   \* hosts with a connected tunnel
  fwds,      \* forwards listening locally, on the tunnels
  listens,   \* the program listening on each local port
  stop       \* the stop-occupier request in progress

inbox == <<frame, dev, known, retryReqs, posting, wake, closing>>
loop == <<pc, round, age, entries>>
out == <<snapshot, chan, seen>>
net == <<host, tunnels, fwds, listens>>
vars == <<inbox, loop, out, net, stop>>

\* the locals of a round: computeExpected's result, the mirrors due, the hosts
\* still to connect and those that failed, the mirrors still to visit
Round == [exp : SUBSET Key, due : SUBSET Key, dial : SUBSET Hosts, bad : SUBSET Hosts,
          todo : SUBSET Key]
Idle == [exp |-> {}, due |-> {}, dial |-> {}, bad |-> {}, todo |-> {}]

HostState == {"no_agent", "unreachable", "quiet", "reachable"}

StopRequest == [pc : {"idle", "recheck", "signal"}, host : Hosts \cup {0},
                port : Ports \cup {0}, pid : Process]
NoStop == [pc |-> "idle", host |-> 0, port |-> 0, pid |-> NoOne]

\* MirrorStatus
Status == [state : {"pending", "active", "conflict", "failed"},
           err : {"none", "conflict", "duplicate", "connection"}, occupier : Process]

Snapshots == UNION {[K -> Status] : K \in SUBSET Key}

TypeOK ==
  /\ frame \subseteq Key /\ dev \subseteq Hosts /\ known \subseteq Deployments
  /\ retryReqs \subseteq FwdKey /\ posting \subseteq {"frame", "host", "retry", "stop"}
  /\ wake \in BOOLEAN /\ closing \in BOOLEAN
  /\ pc \in {"select", "round", "hung", "exit", "gone"}
  /\ round \in Round /\ age \in 0 .. Cooldown
  /\ DOMAIN entries \subseteq Key /\ entries \in [DOMAIN entries -> Entry]
  /\ DOMAIN snapshot \subseteq Key /\ snapshot \in [DOMAIN snapshot -> Status]
  /\ chan \in Seq(Snapshots) /\ Len(chan) <= SubBuffer
  /\ host \in [Hosts -> HostState]
  /\ tunnels \subseteq Hosts /\ fwds \subseteq FwdKey
  /\ listens \in [Ports -> Programs \cup {NoOne}]
  /\ stop \in StopRequest

Empty == [k \in {} |-> 0]

Init ==
  /\ frame = {} /\ known = Deployments
  /\ dev = IF "switch" \in Events THEN {} ELSE Hosts
  /\ retryReqs = {} /\ posting = {} /\ wake = FALSE /\ closing = FALSE
  /\ pc = "select" /\ round = Idle /\ age = 0 /\ entries = Empty
  /\ snapshot = Empty /\ seen = Empty
  /\ chan = IF SubBuffer > 0 THEN <<Empty>> ELSE <<>>
  /\ host = [h \in Hosts |-> "reachable"]
  /\ tunnels = {} /\ fwds = {} /\ listens = [p \in Ports |-> NoOne]
  /\ stop = NoStop

---------------------------------------------------------------------------
(* Input: written first, the wake signal sent after.                       *)

Post(what) == posting' = posting \cup {what}

ApplyNodes(f) ==
  /\ ~closing /\ "frame" \notin posting
  /\ frame' = f /\ Post("frame")
  /\ UNCHANGED <<dev, known, retryReqs, wake, closing, loop, out, net, stop>>

\* PUT /api/hosts: the switch is saved, then ReconcileNow
SetDevMachineMode(h) ==
  /\ "switch" \in Events /\ "host" \notin posting
  /\ dev' = IF h \in dev THEN dev \ {h} ELSE dev \cup {h}
  /\ posting' = IF closing THEN posting ELSE posting \cup {"host"}
  /\ UNCHANGED <<frame, known, retryReqs, wake, closing, loop, out, net, stop>>

Retry(f) ==
  /\ "retry" \in Events /\ ~closing /\ "retry" \notin posting
  /\ retryReqs' = retryReqs \cup {f} /\ Post("retry")
  /\ UNCHANGED <<frame, dev, known, wake, closing, loop, out, net, stop>>

\* A signal to a channel that already holds one is dropped: the round to come
\* reads the newest input anyway.
signalWake ==
  \E w \in posting :
    /\ posting' = posting \ {w} /\ wake' = TRUE
    /\ UNCHANGED <<frame, dev, known, retryReqs, closing, loop, out, net, stop>>

Close ==
  /\ "close" \in Events /\ ~closing /\ closing' = TRUE
  /\ UNCHANGED <<frame, dev, known, retryReqs, posting, wake, loop, out, net, stop>>

---------------------------------------------------------------------------
(* A round, part one: snapshot, expected state, teardown.                  *)

\* The declared ports of known deployments on development machines.
Declared(hosts) == {k \in frame : k.host \in hosts /\ k.dep \in known}

\* Of the deployments that declare one port of one host the smallest id wins.
Duplicate(exp, k) == \E o \in exp : Fwd(o) = Fwd(k) /\ o.dep < k.dep

Retried(e) ==
  IF e.state \in {"conflict", "failed"}
  THEN [e EXCEPT !.state = "pending", !.err = "none", !.occupier = NoOne, !.wait = 0]
  ELSE e

applyRetries(es) ==
  [k \in DOMAIN es |-> IF Fwd(k) \in retryReqs THEN Retried(es[k]) ELSE es[k]]

\* Mistake: a failure is remembered for good
NeverAgain(es, k) == k \in DOMAIN es => es[k].state \notin {"conflict", "failed"}

isDue(es, k) ==
  k \in DOMAIN es /\ es[k].state \in {"conflict", "failed"} => es[k].wait = 0

\* Forwards the entries of ks believe they have.
ForwardsOf(es, ks) == {Fwd(k) : k \in {x \in ks : es[x].up}}

\* Mistake: a host switched off is skipped
TeardownOnDevHosts(es, exp) ==
  ForwardsOf(es, {k \in DOMAIN es \ exp : k.host \in dev})

teardownUnexpected(es, exp) == ForwardsOf(es, DOMAIN es \ exp)

\* An unreadable host list yields no host at all.
HostLists == IF "unreadable" \in Events THEN {dev, {}} ELSE {dev}

BeginRound ==
  /\ pc = "select" /\ wake
  /\ \E hosts \in HostLists :
       LET exp == Declared(hosts)
           es == applyRetries(entries)
           due == {k \in exp : ~Duplicate(exp, k) /\ isDue(es, k)}
       IN /\ entries' = Restrict(es, DOMAIN es \cap exp)
          /\ fwds' = fwds \ teardownUnexpected(es, exp)
          /\ round' = [exp |-> exp, due |-> due, dial |-> {k.host : k \in due},
                       bad |-> {}, todo |-> exp]
  /\ wake' = FALSE /\ retryReqs' = {} /\ age' = 0 /\ pc' = "round"
  /\ UNCHANGED <<frame, dev, known, posting, closing, out, host, tunnels, listens, stop>>

---------------------------------------------------------------------------
(* Part two: each due host is connected once, in no particular order.      *)

Dialable(h) == host[h] \in {"quiet", "reachable"}

ConnectHost(h) ==
  /\ pc = "round" /\ h \in round.dial
  /\ LET ok == host[h] # "no_agent" /\ (h \in tunnels \/ Dialable(h))
     IN /\ tunnels' = IF ok THEN tunnels \cup {h} ELSE tunnels
        /\ round' = [round EXCEPT !.dial = @ \ {h},
                                  !.bad = IF ok THEN @ ELSE @ \cup {h}]
  /\ UNCHANGED <<inbox, pc, age, entries, out, host, fwds, listens, stop>>

\* The host takes the connection and never answers in the handshake, which
\* no timeout covers: the loop stays in EnsureConnected for good.
RoundHangs(h) ==
  /\ "hang" \in Events /\ pc = "round" /\ h \in round.dial
  /\ h \notin tunnels /\ host[h] # "no_agent"
  /\ pc' = "hung"
  /\ UNCHANGED <<inbox, round, age, entries, out, net, stop>>

---------------------------------------------------------------------------
(* Part three: the expected mirrors in the order host, port, deployment.   *)

lessKey(a, b) ==
  \/ a.host < b.host
  \/ a.host = b.host /\ a.port < b.port
  \/ a.host = b.host /\ a.port = b.port /\ a.dep < b.dep

NextKey(k) ==
  /\ pc = "round" /\ round.dial = {} /\ k \in round.todo
  /\ \A o \in round.todo \ {k} : lessKey(k, o)

ensureEntry(k) ==
  IF k \in DOMAIN entries THEN entries[k]
  ELSE [state |-> "pending", err |-> "none", occupier |-> NoOne, wait |-> 0, up |-> FALSE]

\* lastAttempt is the round's time stamp, not the moment of the attempt.
Remaining == Cooldown - age

Failed(code) == [state |-> "failed", err |-> code, occupier |-> NoOne,
                 wait |-> Remaining, up |-> FALSE]

\* the visit to k: its entry and the forwards that remain
Visited(k, e, f) ==
  /\ entries' = [x \in DOMAIN entries \cup {k} |-> IF x = k THEN e ELSE entries[x]]
  /\ fwds' = f
  /\ round' = [round EXCEPT !.todo = @ \ {k}]
  /\ UNCHANGED <<inbox, pc, age, out, host, tunnels, listens, stop>>

\* Mistake: the forward is left to the tunnel
KeepForward(up, k) == fwds

DropForward(up, k) == IF up THEN fwds \ {Fwd(k)} ELSE fwds

markDuplicate(k) ==
  /\ NextKey(k) /\ Duplicate(round.exp, k)
  /\ LET e == ensureEntry(k)
     IN Visited(k, IF e.err = "duplicate" THEN [e EXCEPT !.up = FALSE] ELSE Failed("duplicate"),
                DropForward(e.up, k))

CoolingDown(k) ==
  /\ NextKey(k) /\ ~Duplicate(round.exp, k) /\ k \notin round.due
  /\ Visited(k, entries[k], fwds)

markConnectFailed(k) ==
  /\ NextKey(k) /\ k \in round.due /\ k.host \in round.bad
  /\ Visited(k, Failed("connection"), DropForward(ensureEntry(k).up, k))

\* Who listens on local port p, as lsof reports it.
Listener(p) == IF \E f \in fwds : f.port = p THEN Agent ELSE listens[p]

Attempt(k) == NextKey(k) /\ k \in round.due /\ k.host \notin round.bad

EnsureForwardOK(k) ==
  k.host \in tunnels /\ (Fwd(k) \in fwds \/ Listener(k.port) = NoOne)

Forwarded(e) == [e EXCEPT !.state = "active", !.err = "none", !.occupier = NoOne,
                          !.wait = 0, !.up = TRUE]

attemptForward(k) ==
  /\ Attempt(k) /\ EnsureForwardOK(k)
  /\ Visited(k, Forwarded(ensureEntry(k)), fwds \cup {Fwd(k)})

\* ErrLocalPortBusy; the occupier is unknown when lsof fails
ForwardConflict(k) ==
  /\ Attempt(k) /\ k.host \in tunnels /\ ~EnsureForwardOK(k)
  /\ \E o \in {Listener(k.port), NoOne} :
       Visited(k, [state |-> "conflict", err |-> "conflict", occupier |-> o,
                   wait |-> Remaining, up |-> FALSE], fwds)

ForwardFailed(k) ==
  /\ Attempt(k) /\ k.host \notin tunnels
  /\ Visited(k, Failed("connection"), fwds)

---------------------------------------------------------------------------
(* The end of a round, and of the loop.                                    *)

buildSnapshot == [k \in DOMAIN entries |-> [state |-> entries[k].state, err |-> entries[k].err,
                                            occupier |-> entries[k].occupier]]

\* A full channel keeps what it holds and loses the new snapshot.
Broadcast(snap) ==
  chan' = IF SubBuffer > 0 /\ Len(chan) < SubBuffer THEN Append(chan, snap) ELSE chan

\* Publish if anything changed; the loop then looks at done before it waits.
publishIfChanged ==
  /\ pc = "round" /\ round.dial = {} /\ round.todo = {}
  /\ snapshot' = buildSnapshot
  /\ IF snapshot' = snapshot THEN chan' = chan ELSE Broadcast(snapshot')
  /\ round' = Idle /\ age' = 0
  /\ pc' = IF closing THEN "exit" ELSE "select"
  /\ UNCHANGED <<inbox, entries, seen, net, stop>>

teardownAll ==
  /\ closing /\ pc \in {"select", "exit"}
  /\ fwds' = fwds \ ForwardsOf(entries, DOMAIN entries)
  /\ entries' = Empty /\ pc' = "gone"
  /\ UNCHANGED <<inbox, round, age, out, host, tunnels, listens, stop>>

Receive ==
  /\ chan # <<>>
  /\ seen' = Head(chan) /\ chan' = Tail(chan)
  /\ UNCHANGED <<inbox, loop, snapshot, net, stop>>

---------------------------------------------------------------------------
(* POST /api/port-mirrors/stop-occupier.                                   *)

\* findPortMirrorOccupier: what the published conflict names
StopOccupier(k) ==
  /\ "stop" \in Events /\ stop.pc = "idle" /\ k \in DOMAIN snapshot
  /\ snapshot[k].state = "conflict" /\ snapshot[k].occupier # NoOne
  /\ stop' = [pc |-> "recheck", host |-> k.host, port |-> k.port,
              pid |-> snapshot[k].occupier]
  /\ UNCHANGED <<inbox, loop, out, net>>

\* Manager.Retry, called at the end of the handler
RetryAfterStop ==
  IF closing' THEN UNCHANGED <<retryReqs, posting>>
  ELSE /\ retryReqs' = retryReqs \cup {[host |-> stop.host, port |-> stop.port]}
       /\ Post("stop")

RecheckOccupier ==
  /\ stop.pc = "recheck" /\ UNCHANGED closing
  /\ CASE Listener(stop.port) = NoOne -> stop' = NoStop /\ RetryAfterStop
       [] Listener(stop.port) = stop.pid ->
            stop' = [stop EXCEPT !.pc = "signal"] /\ UNCHANGED <<retryReqs, posting>>
       [] OTHER -> stop' = NoStop /\ UNCHANGED <<retryReqs, posting>>
  /\ UNCHANGED <<frame, dev, known, wake, loop, out, net>>

\* The process gets SIGTERM and exits within the grace period.  The agent
\* handles its own by shutting down.  If the entry that closes the audit cannot
\* be written, the handler returns before the retry.
TerminateOccupier ==
  /\ stop.pc = "signal"
  /\ listens' = [p \in Ports |-> IF listens[p] = stop.pid THEN NoOne ELSE listens[p]]
  /\ closing' = (closing \/ stop.pid = Agent)
  /\ RetryAfterStop \/ UNCHANGED <<retryReqs, posting>>
  /\ stop' = NoStop
  /\ UNCHANGED <<frame, dev, known, wake, loop, out, host, tunnels, fwds>>

\* Nothing is stopped: the occupier cannot be looked up again, the entry that
\* opens the audit cannot be written, or the process survives the grace period.
StopRefused ==
  /\ stop.pc # "idle" /\ stop' = NoStop
  /\ UNCHANGED <<inbox, loop, out, net>>

---------------------------------------------------------------------------
(* The world around the manager.                                           *)

ProjectsChange(ds) ==
  /\ "projects" \in Events /\ ds # known /\ known' = ds
  /\ UNCHANGED <<frame, dev, retryReqs, posting, wake, closing, loop, out, net, stop>>

HostChanges(h, s) ==
  /\ host[h] # s /\ host' = [host EXCEPT ![h] = s]
  /\ s \in {"unreachable", "quiet"} => "outage" \in Events
  /\ s = "no_agent" => "unconfigured" \in Events
  /\ UNCHANGED <<inbox, loop, out, tunnels, fwds, listens, stop>>

\* The tunnel is closed under the mirror: Disconnect, MarkFailed, a new pin.
TunnelLost(h) ==
  /\ "outage" \in Events /\ h \in tunnels
  /\ tunnels' = tunnels \ {h} /\ fwds' = {f \in fwds : f.host # h}
  /\ UNCHANGED <<inbox, loop, out, host, listens, stop>>

Listen(p, x) ==
  /\ "programs" \in Events /\ Listener(p) = NoOne
  /\ listens' = [listens EXCEPT ![p] = x]
  /\ UNCHANGED <<inbox, loop, out, host, tunnels, fwds, stop>>

ProgramExits(x) ==
  /\ \E p \in Ports : listens[p] = x
  /\ listens' = [p \in Ports |-> IF listens[p] = x THEN NoOne ELSE listens[p]]
  /\ UNCHANGED <<inbox, loop, out, host, tunnels, fwds, stop>>

Tick ==
  /\ entries' = [k \in DOMAIN entries |->
                   [entries[k] EXCEPT !.wait = IF @ = 0 THEN 0 ELSE @ - 1]]
  /\ age' = IF pc = "round" /\ age < Cooldown THEN age + 1 ELSE age
  /\ <<entries, age>>' # <<entries, age>>
  /\ UNCHANGED <<inbox, pc, round, out, net, stop>>

Visit ==
  \/ \E k \in round.todo :
       \/ markDuplicate(k) \/ CoolingDown(k) \/ markConnectFailed(k)
       \/ attemptForward(k) \/ ForwardConflict(k) \/ ForwardFailed(k)

Loop ==
  \/ BeginRound
  \/ \E h \in Hosts : ConnectHost(h)
  \/ Visit
  \/ publishIfChanged
  \/ teardownAll

Handler ==
  \/ \E k \in Key : StopOccupier(k)
  \/ RecheckOccupier \/ TerminateOccupier \/ StopRefused

Input ==
  \/ \E f \in SUBSET Key : ApplyNodes(f)
  \/ \E h \in Hosts : SetDevMachineMode(h)
  \/ \E f \in FwdKey : Retry(f)
  \/ Close

World ==
  \/ \E ds \in SUBSET Deployments : ProjectsChange(ds)
  \/ \E h \in Hosts, s \in HostState : HostChanges(h, s)
  \/ \E h \in Hosts : TunnelLost(h) \/ RoundHangs(h)
  \/ \E p \in Ports, x \in Programs : Listen(p, x)
  \/ \E x \in Programs : ProgramExits(x)

Next == Loop \/ signalWake \/ Receive \/ Handler \/ Input \/ World \/ Tick

Spec == Init /\ [][Next]_vars

---------------------------------------------------------------------------
(* Properties.                                                             *)

\* Every forward that listens locally is on record in an entry that will drop
\* it: at each moment of a round, with tunnels breaking and reconnecting in
\* between.  Once the loop is gone there are no entries, so no forward
\* outlives Close.
ForwardsOwned ==
  \A f \in fwds : \E k \in DOMAIN entries : Fwd(k) = f /\ entries[k].up

\* No input is lost between the inbox and the loop: when the loop waits and no
\* signal is on its way, every forward belongs to a port that the newest frame
\* declares on a host whose development-machine switch is on.
NoForwardPastItsService ==
  pc = "select" /\ ~wake /\ posting = {} /\ ~closing =>
    \A f \in fwds : f.host \in dev /\ \E k \in frame : Fwd(k) = f

\* Some agent answers.  It reports every five seconds, changed or not, and the
\* registry hands every report on as a frame of all hosts; while all agents are
\* silent it sends nothing.
Heard == \E h \in Hosts : host[h] = "reachable"

\* The loop runs, signals are delivered, time passes and, as long as some agent
\* answers, the registry sends its next frame.
Fairness ==
  /\ WF_vars(Loop) /\ WF_vars(signalWake) /\ WF_vars(Tick)
  /\ WF_vars(Heard /\ ApplyNodes(frame))

FairSpec == Spec /\ Fairness

\* Steps in which nothing but the mirror itself moves.
Undisturbed ==
  \/ BeginRound /\ round'.exp = Declared(dev)
  \/ Loop /\ ~BeginRound
  \/ signalWake \/ Receive \/ Tick \/ ApplyNodes(frame)

Wanted == {k \in Declared(dev) : ~Duplicate(Declared(dev), k)}

Mirrored ==
  /\ \A k \in Wanted : Dialable(k.host) /\ listens[k.port] = NoOne =>
       \E o \in Wanted : o.port = k.port /\ Fwd(o) \in fwds
                       /\ o \in DOMAIN snapshot /\ snapshot[o].state = "active"
  /\ fwds \subseteq {Fwd(k) : k \in Wanted}
  /\ \A k \in DOMAIN snapshot : snapshot[k].state = "active" => Fwd(k) \in fwds

\* From any state, once the world holds still with some agent answering, the
\* mirror converges and stays: every wanted port that is free and on a host SSH
\* reaches is forwarded and shown active, nothing else is, whatever failures
\* came before.  A loop caught in an unanswered handshake never does: the code
\* has no timeout there and the manager no timer of its own.
Converges ==
  <>[][Undisturbed]_vars /\ <>[]Heard => <>[](Mirrored \/ closing \/ pc = "hung")

-----------------------------------------------------------------------------
(* What comments and documents say and the code does not keep: each is     *)
(* refuted by the configuration the README names for it.                   *)

\* What MirrorStateActive says, between rounds: the forward is there.
ActiveMeansForwarded ==
  pc = "select" /\ ~closing =>
    \A k \in DOMAIN snapshot : snapshot[k].state = "active" => Fwd(k) \in fwds

\* stop-occupier ends other people's processes, never the agent itself.
NeverStopsItself == [][TerminateOccupier => stop.pid # Agent]_vars

\* A subscriber that has read everything sent to it knows the current state.
SubscriberIsCurrent == SubBuffer > 0 /\ chan = <<>> => seen = snapshot
=============================================================================
