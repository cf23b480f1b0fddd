# SuperDev: models, checks and proofs

SuperDev is a local development agent (Go, under `src/agent`) with a desktop
front end. The agent starts, watches and debugs services, opens SSH tunnels to
development machines, mirrors their ports and shows their status, runs
deployment pipelines, hands out throw-away test databases, and puts every write
operation asked for by an AI client behind an approval. This directory models
the parts of the agent whose correctness hangs on the order in which goroutines,
files, servers and child processes move, checks them with TLC on small instances,
and proves the most important facts with TLAPS for every instance.

## 1. The system

| Component | State | Operations | What makes it correct |
|---|---|---|---|
| Operation approval gate (`operation/`, `api/handler_operations.go`) | approvals file, grace file, settings | ask, approve, reject, fetch the token, redeem it, open a grace window; sweep, trim | only what was authorised runs, once per approval; decisions stand; a live approval is not trimmed |
| Test database provisioning (`dbprovision/`, `store/provision.go`) | two SQLite tables; PostgreSQL and Redis servers | acquire, renew, release, dry run, reconcile | a slot has one tenant; nobody's keys are flushed; nothing leaks |
| SSH tunnel manager (`tunnel/`) | per host: published tunnel, host-key evidence, status, attempt in flight, generation | connect, disconnect, mark failed, close, add and drop forwards | nothing invalidated comes back; a caller gets a tunnel of its own pin; no tunnel, listener or waiter is left behind |
| Port mirroring (`portmirror/`, `api/handler_port_mirrors.go`) | inbox, mirror entries, published snapshot | node frame, host switch, retry, stop the occupier, reconcile round, close | forwards are on record and wanted; the mirror converges |
| Process manager (`process/`, `api/handler_deployments.go`, `api/runtime_reconcile.go`) | runners, status, generations, readiness, pid file | start, stop, restart, exit callback, readiness probe, reconcile | no living process is lost; a stop is final; nothing stays in starting unattended |
| Pipeline engine (`pipeline/`, `api/pipeline_deploy_service.go`, `api/run_hub.go`, `api/handler_run_logs_ws.go`) | a run's plan, phases, steps and tasks; its record and log lines; the hub's subscribers | plan, run, retry, batch, hooks, save, broadcast, follow | dependencies hold, failures are contained, the verdict is true, every run settles, no console misses a line |
| Node registry and transport (`noderegistry/`, `nodetransport/`) | per host: route, watchers, last status, subscribers | watch, probe, fall back, recover, merge, mark stale, forget | a live host ends as live and a dead one as dead; the preferred link is used again |
| Host deployment reconciler and collectors (`api/host_deployment_reconciler.go`, `api/managed_*.go`, `collector/`) | desired lists; the agent's projects, saved list, collectors | push, apply, save, restart | what was confirmed survives; the lists converge |
| Code debugger (`codedebug/`) | runtimes, leases, event pumps, adapters | open, start, resolve a lease, stop, close, retire | no adapter is left behind, no dead runtime is reused |
| Node adoption, project transfer and the rest | see `PROJECT.json` | | |

How they interact: HTTP handlers and MCP tools call all of them from one
goroutine per request. The gate is called first by every write. Port mirroring
sits on the tunnel manager (`EnsureConnected`, `EnsureForward`, `DropForward`) and
gets its input from the node registry, which the transport dispatcher feeds. The
host reconciler pushes through the same dispatcher and wakes up on tunnel events.
Collectors and the debugger's attach use the process manager. Stores are JSON
files behind a mutex or SQLite; they survive a crash of the agent, goroutines do
not.

What is hard here: locks are held for single map accesses, never for a whole
operation, so a value read under one lock is used under the next one; exit
callbacks, probes, dials, pushes and reclaims end when they like; files and
servers outlive the agent; background loops (reaper, reconcile, recovery, ticker)
redo what a client is doing at the same moment; every channel to a console is
bounded and drops or cuts off. `PROJECT.json` lists 40 such hazards at their
lines.

## 2. Modules and the code

Each module takes one lock section, SQL statement, provisioner call or system
call as one action, and names the state variables after the fields they stand
for. `PROJECT.json` maps every definition to its lines. Definitions introduced
by "Mistake:" are deliberately wrong variants of the definition that follows;
nothing uses them but the mutation tests listed in `PROJECT.json`.

**OperationGate.** `approvals` and `grace` are the two files; a store method runs
under its mutex and ends in one save, so it is one action. `authorizeOperation`
is a process `req[r]` that goes from the policy (`Authorize`) through the grace
window (`ConsultGrace`) and the token (`ConsumeToken`) to a new request
(`AskApproval`), with the other requests, deciders (`ApproveHandler`,
`RejectHandler`), token fetches (`GetHandler`), setting changes, failing saves,
the clock and a crash in between. The crash may tear the grace file, which is
written in place. A plan stands for its fingerprint, a token for its hash.
`hist`, `minted` and `runs` are histories for the properties. Not modelled: the
audit log and how plans and fingerprints are made.

**TestDBLease.** `lease`, `rows`, `slot` are the SQLite tables, `databases` and
`redis` the servers. Each Acquire, each Release, the dry run and the reaper's
round is a process whose steps are the SQL statements and provisioner calls of
`lease.go` in their order, failure paths included: the fault `"store"` lets every
statement fail that closes a row or a lease, whose error the code ignores
(`MarkResourceReclaimed`, `MarkLeaseReleased`), or reports (`InsertResource`,
`MarkResourceActive`). The partial unique index over unreclaimed Redis rows is
`SlotUnclaimed`. Tenants and the user write keys at any time. `Faults` and
`Actors` choose which failures and which actors an instance has. `kept` is a
history: the rows that such a failed statement, a lost datasource or a Release
under a running Acquire may leave behind.

**TunnelManager.** One host of the manager (operations touch one host id only).
`EnsureConnected` is a process: reuse, wait for the attempt in flight, or lead a
dial (`Lead`, `Dial...`, `Publish`, `Fail`, `Discard`, `Signal`); tunnels taken
out of the map are closed after the unlock (`CloseDoomed`). `fwd` holds a
forwarder between the lookup of the tunnel and its use. The timeout of a dial
covers the TCP connect only (`tunnel.go:288`, `314`): a peer that then says
nothing keeps the dial for good (`FallsSilent`).

**PortMirror.** The reconcile goroutine with its inbox, a round in its parts
(`BeginRound`, `ConnectHost`, the visit of each mirror in key order,
`publishIfChanged`, `teardownAll`), a subscriber's channel, the handler that ends
the occupier of a port, and a world in which tunnels, hosts and local programs
come and go. The tunnel manager appears by the three calls the mirror makes. The
cool-down counts ticks from the time stamp of the round. A host is
reachable by SSH with its agent answering (`"reachable"`) or not (`"quiet"`), not
reachable, or without a configured agent (`"no_agent"`). Frames come while some
agent is heard (`Heard`), for the mirror has no timer and the registry broadcasts
only what arrives. A round may be caught in an
unanswered handshake (`RoundHangs`). Stopping an occupier may end the process and
still report a failure, without the retry that follows a success.

**ProcessManager.** One local deployment. A request is a process through
Reconcile, Stop, startByID and the pid store (`Handler`); each child has a waiter
that runs the exit callback (`Watch`) and, if `Probes` allows it, an
`awaitReadiness` goroutine (`Probe`); `ReconcileLoop` is the three-second loop.
The shell may exit and leave a process in the background. A flush of the pid file
may fail (`FlushFails`): the handler answers with the error after the work is
done. Any number of requests may run beside each other (`MaxBusy`); a call's
`overlapped` remembers that it did, and `last` holds who wrote `starting`, who was
answered last and whether a probe wrote late. Not modelled: launchd, remote and
debug runtimes, `KillAll` at start-up.

**PipelinePlan, PipelineRun, DeploymentRun.** `PipelinePlan` is `ValidateDAG`:
the queue of Kahn's algorithm turn by turn (`Kahn`, with `InDegree` and the steps a
turn `Released`), as recursive functions so that it can be proved about, next to
a reference definition of a dependency order (`Acyclic`, `IsDependencyOrder`).
`PipelineRun` is one run: the
request plans it (`Prepare`, `Refuse`), the engine's goroutine walks the phases
step by step (`SettleStep`, `ExecuteStep`, `NextBatch`, `FinishStep`), the tasks of
a batch run concurrently with their retries and log lines, the hooks register or
restore the artifact, `Notify` saves and broadcasts after every step, and
`FinalSave`, `BroadcastDone`, `Close` end it; a panic, failing saves and a crash
may come in between. Consoles connect, subscribe, replay and receive (`Viewers`);
a subscriber whose buffer is full is cut off (`Send`). A plugin runs without a
timeout, so nothing says it returns. `DeploymentRun` is the
abstract specification: a step is settled once and only runs on steps that
succeeded, a deployment only follows a build without a failure, cleaning up comes
last and the verdict is final. `ImplementsDeploymentRun` states the refinement,
with the recorded step states and the run's status in memory as the mapping.

**NodeTransport, NodeRegistry, NodeStatus.** `NodeTransport` is the dispatcher for
one host: the route into the chain of links, the watchers with their probes
(`Probe`, `ProbeHead`, `CheckRoute`, `SendFrame`), `reconcile`, the done channel,
the recovery loop and a failing request. `NodeRegistry` keeps the status a frame
leaves (`applyBatch`), ages it (`HeartbeatAges`, `markStale`) and publishes it to
subscribers. `NodeStatus` composes them through the frame channel (`Deliver`) and
adds the life cycle of the agent's configuration.

**ManagedDeployments.** The controller's list for one host (`desired`), its pushes
(one at a time per host, given up by a timeout), the PUT handlers of the agent
(`Handle`), which may overlap after a timeout, the collectors with the lock
sections of `collector.Manager` as separate steps, the saved list and a restart,
which goes on with an empty list if the file cannot be loaded
(`managed_deployments.go:24`); `unread` remembers that until the next list.

**CodeDebug.** One deployment of the debugger's manager. A request (`Start`) goes
through lookup, liveness check, launch or attach, handshake, pump and
registration; record and lease carry the name of the request that made them.
`Housekeeping` is the pump's end, the retirement goroutine and the end of
`record.close`. At a stop the pump's loop asks for the stack without a deadline
(`Asks`, `Answered`; `pump.go:108`), during which it neither hears an end nor lets
`record.close` go on; an event that meets a full buffer is dropped (`Told`). The
debuggee, the service and the adapter end when they like. Not modelled:
breakpoints, the contents of captures, evaluation.

`MCOperationGate`, `MCTestDBLease`, `MCTunnelManager`, `MCProcessManager` and
`MCPipelineRun` give constants values (which plan belongs to which project, which
kinds a lease wants, which pipelines there are) and symmetry sets. The other
modules are run directly. Each of the eight `...Proofs` modules extends the
module it is named after and holds its inductive invariants, lemmas and theorems
(section 5).

## 3. What is checked

All runs exhaust their state space:

| Run | Instance | Shows |
|---|---|---|
| `gate_all` | 2 requests, 2 approvals, 2 tokens, 3 plans (reviewed, switched by a setting, denied), a project with grace, retention budget 1 with floor 0, 2 instants: a token and a window can end, an approval cannot (see `OperationGate_tokens.cfg`) | `OneExecutionPerApproval`, `NoDuplicatePending`, `AuthorizationSound`, `ApprovedSurvives`, `TypeOK` |
| `lease_slots` | 2 leases, 2 slots, 2 clients, a user, store faults, 1 crash, symmetric in leases and clients | `HeldExclusively`, `TenantDataKept`, `UserDataKept` |
| `lease_reaper` | 1 lease of both kinds, all four kinds of failure, renewals, dry run, 1 crash, fair | `NoStrandedRow`, `DatabasesReclaimed` |
| `tunnel_all` | 2 callers, 2 pins and a malformed one, a peer that may fall silent, 1 forwarder, a free and a busy port, fair | `NeverResurrected`, `StatusIsTruth`, `OwnPinOnly`, `SingleFlight`, `NothingLeaks`, `CallsReturn` |
| `mirror_inputs` | 1 mirror with every user input, a local program and a subscriber | `NoForwardPastItsService` |
| `mirror_live` | 2 deployments that declare one port of one host, outages, lost agents, unanswered handshakes, a local program, close, fair | `ForwardsOwned`, `Converges` |
| `process_all` | 2 starts or stops one after the other, with and without a probe | `NoOrphan`, `StopIsFinal`, `StartingIsAttended` |
| `pipeline_engine` | 5 steps; all 512 dependency relations of three of them, rolling and parallel targets with retries, conditional, broken and empty steps, rollback, 2 faults, fair | `PlanCorrect`, `DeployNeedsArtifact`, `FailureContained`, `VerdictTrue`, `FinallyRuns`, `ImplementsDeploymentRun`, `AcceptedRunSettles` |
| `pipeline_console` | 4 steps, concurrent tasks, 2 log lines, a console with a buffer of 2, 1 fault, fair | `NoGapBeforeDone`, `JoinedConsoleEnds` |
| `node_live` | 2 links, 2 watchers at once, 1 change of the links or connections, 1 change of the configuration, fair | `ServicesKept`, `HeadPreferred`, `LiveHostReported`, `DeadHostMarked` |
| `managed_lists` | 2 deployments, 2 handlers at once, 2 edits, 2 faults of eight kinds, fair | `ConfirmedSurvives`, `ListsConverge` |
| `debug_life` | 2 requests of any kind one after the other, early ends of the debuggee, dying and silent adapters, dropped events, fair | `NoAdapterLeak`, `ClosedOnce`, `EndedIsRetired` |

Two more instances are kept beside them and pass as well,
`tlc -config <cfg> <module>`: `OperationGate_tokens.cfg` with `MCOperationGate`
(one plan, two tokens, two deciders and four instants, so that approvals expire
too) and `ProcessManager_probe.cfg` with `ProcessManager` (restarts, and the
liveness properties `NeverStuckStarting` and `DeadIsForgotten` under `FairSpec`).
The modules that are run have a `TypeOK`, which holds in these instances. It is
proved for all of them but `NodeStatus`, and for the gate it is part of the run too.

The bounds. Two of each actor is what a race needs: a pair to interleave, with
one more party (reaper, user, loop, clock, ticker) in the background. Times are
chosen so that each deadline, but for the approvals' in `gate_all`, can fall
before, at and after the event it competes with. A third handler, watcher or
console would meet the same two at a time. All safety properties but
`ServicesKept` are proved in section 5 for every value of the bounds: for them the
runs are the first test of the claim, not the last. `MaxTime`, `MaxCrashes`,
`MaxGen`, `MaxTries`, `MaxBusy`, `MaxLogs`, `MaxFaults`, `MaxTasks`, `MaxFlaps`,
`MaxChanges` and `MaxEdits` are the only bounds of the models and each is a guard
or a set's size. Deadlock checking is off where an instance ends because its
requests, leases or ticks are used up.

`MaxBusy = 1` in `process_all` and `debug_life` is a matter of size: the safety
properties say what they say of any request that had no other beside it, and are
proved for any `MaxBusy`; the orphan, overlap and late-probe configurations of
section 6 show what requests beside each other leave of the unqualified claims.
`DoneCap` in `node_live` (larger than the watchers can fill) is a real restriction:
without it `LiveHostReported` fails, as section 6 describes.

`process_all` is explored under `VIEW WithoutStore`, which leaves out the pid file
in memory and on disk: no guard and none of the three invariants reads it, so
states that differ in it only have the same futures. `lease_slots` uses
`SYMMETRY Alike`: both leases want the same and no definition but `Min` over slot
numbers orders anything.

## 4. Fairness

Weak fairness is asked of goroutines that always have a next statement, and of
tickers; never of users, clients, hosts, local programs or the operating system.

- Lease: the clock, each Acquire and Release once begun, the dry run and the
  reaper's round (its ticker never stops). Strong fairness of `SweepOrphan` says
  that a DROP DATABASE that is repeated every round does not fail every time.
- Tunnel: each call's next step (the TCP connect has a timeout, locks are held
  briefly) and the Close that follows an unlock. A dial whose peer fell silent has
  no next step: the handshake has no deadline. `CallsReturn` names such a call and
  those that wait for it as the exception.
- Mirror: the loop, the delivery of wake signals, the clock, and, only while some
  agent is heard, the node registry's frames: an agent that answers sends its
  status every five seconds, changed or not, and the registry broadcasts what it
  applies; of an unreachable host nothing is applied. `Converges` asks that the
  world comes to rest with an agent answering, and gives up a loop caught in a
  handshake.
- Process (`ProcessManager_probe.cfg`): handlers, waiters, probes (they time out)
  and the reconcile loop.
- Pipeline: the service's and the engine's goroutines, the start of a task and the
  broadcast of a stored line, but not a plugin, which runs under
  `context.Background()`. `AcceptedRunSettles` and `JoinedConsoleEnds` take
  `PluginsReturn` as a premise. Consoles keep reading; nobody has to connect or leave.
- Nodes: watchers (probes and streams have deadlines), the dispatcher's loop, the
  registry's loops and a detachment once begun. Strong fairness of the recovery
  loop: its ticker never stops and some of its probes find the route as it is.
- Managed deployments: the goroutine of an edit and each handler. Strong fairness
  of the ticker's push: it queues at the host's mutex, which others release again
  and again, and a Go mutex starves nobody. Faults are bounded: in the end the
  host is reachable.
- Debugger: each request (the handshake has its deadlines), retirement, close, and
  the pump but for the answer to its question for a stack: an adapter that hangs
  with its connection open owes none (`MayHang`). Nobody has to stop or close
  anything.

## 5. What is proved

The theorems hold for every value of the constants that satisfies the modules'
assumptions (`GateConstants`, `GateNumbers`, `LeaseConstants`, `TunnelConstants`,
`MirrorConstants`, `ProcessConstants`, `DebugConstants`, `ManagedConstants`,
`RunConstants`: sentinels are not members of the sets, numbers are naturals), for
any number of actors. Each rests on an inductive invariant, with `Init => Inv`,
one lemma per action or group of actions for `Inv /\ [Next]_vars => Inv'`, and
`Inv` implying the property. `TypeCorrect` (`Spec => []TypeOK`) is proved in every
one of the eight modules and not repeated below.

No theorem restricts the number of requests, releasers or faults, or which actors
run. Where the code does not keep the unqualified claim, the property itself names
the histories that break it, and section 6 has the configuration that shows each:

| Property | What it excepts | Unqualified claim, refuted by |
|---|---|---|
| `NoOrphan` | a process whose own request ran beside another one (`overlapped`); later requests may overlap as they like | `NothingIsLost`, `ProcessManager_orphan.cfg` |
| `StopIsFinal` | the same, and a probe that compared the generation before the stop and wrote after it (`last.late`) | `NothingIsLost` and `StopStaysStopped`, `ProcessManager_lateprobe.cfg` |
| `StartingIsAttended` | a status written by a request that ran beside another one | as for `NoOrphan` |
| `NoAdapterLeak` | an adapter whose request ran beside another one | `NothingIsLeft`, `CodeDebug_overlap.cfg` |
| `NoStrandedRow` | a row whose closing statement failed, whose datasource was gone, or whose lease was released under its own Acquire (`kept`) | `EveryRowGivenUp`, `TestDBLease_leak.cfg` |
| `TenantDataKept` | a Release with a stale snapshot, the roll-back of a lease released under it, a dry run (`StaleRelease`, `LateAcquire`, `DryClean`) | `TenantKeysKept`, `TestDBLease_flush.cfg` |
| `UserDataKept` | these three, and a Release of a row that was never seen empty (`UnverifiedRelease`) | `UserKeysKept`, `TestDBLease_crashflush.cfg` |
| `ConfirmedSurvives` | what the agent runs by, not its file, after a restart that could not load the file | no configuration: `Restart` with `"unreadable"` is one step |

**OperationGateProofs**: `ExecutionIsOneShot` (`OneExecutionPerApproval`),
`GateIsSound` (`AuthorizationSound`), `PendingIsUnique` (`NoDuplicatePending`),
`ApprovalIsKept` (`ApprovedSurvives`). One execution per approval
is not inductive: a record can be trimmed and a token reissued, so `Inv` adds that
records agree with the history (`RecordsAgree`), that what a request carries at
each step was justified when it got it (`RequestsAgree`), that windows and grants
in flight come from an approved request of their project (`GraceAgrees`), and that
an approval that can still be decided or redeemed was never spent and is in
nobody's hands (`SpentOnce`). The last two follow action by action: only
`AskApproval` makes a record wait, and it looked at all that did; a trim never
takes a record whose time has not come.

**TestDBLeaseProofs**: `IndexHolds` (`SlotsUnique`, the partial unique index) and
`HeldIsExclusive` (`HeldExclusively`) hold without a hypothesis. `HeldExclusively`
says that a client's answer is backed by the tables, so `Inv` follows an Acquire through
them: which rows it has made so far (`OwnRows`), which it still has to roll back
(`RolledBack`), that a lease is fresh until it is entered (`NotYetEntered`), and
that whoever works on another lease marked it ended first (`ReleaseKnows`).
`RowsAreGivenUp` (`NoStrandedRow`) follows what is still `Owed` to the registry: a
Release has all of it on its list (`ListIsFull`), a closed lease owes nothing
(`ClosedIsEmpty`), and an Acquire whose lease was released under it is excused, with
all its rows in `kept` (`ReleaseWaits`). `TenantsKeepTheirData` and
`UsersKeepTheirData` are about FLUSHDB, action by action: a client's keys are in the
db its lease holds (`OwnKeys`), and a user's keys are in no registered db that was
verified (`UserApart`).

**TunnelManagerProofs**: `NoResurrection` (`NeverResurrected`), `StatusIsSound`
(`StatusIsTruth`), `PinIsRespected` (`OwnPinOnly`), `DialIsSingleFlight`
(`SingleFlight`), `TunnelsAreOwned` (`NothingLeaks`). The key strengthenings: the
slot `connecting` names exactly the one call that is dialling, also after a
Disconnect under the dial (`SlotAgrees`); whatever was invalidated is behind the
generation for good (`StaleAgrees`); the published tunnel is of the current
generation (`PublishedAgrees`); a tunnel waiting to be closed is stale and its call
is done with it (`HandsAgree`).

**PortMirrorProofs**: `ForwardsAreOwned` (`ForwardsOwned`), `ForwardsFollowServices`
(`NoForwardPastItsService`), `CloseDropsAll`. `ForwardsOwned` needs that a forward
dies with its tunnel (`OnTunnels`), because an attempt that finds no tunnel takes
its entry off the record without dropping anything. The second needs that, with no
wake-up under way, entries and the mirrors of a round are declared by the newest
input (`Followed`).

**ProcessManagerProofs**: `NothingIsOrphaned` (`NoOrphan`), `StopStays`
(`StopIsFinal`), `StartingAttended` (`StartingIsAttended`). What
outlives a request is the danger: a Reconcile acts on a look at the process that
may be old, so `LooksAreTrue` says that a group found dead stays dead;
`WaitersFollow` ties each exit callback to its child; `Alone` says that a request
which met no other is the only one under way, `RunnerByStep` at which of its steps
the map is empty or holds its own runner, and `KeepsItsPlace` that no later request
puts another one over it without a Stop. `StopReaches` and `StopHolds` are what a
stop has achieved at each step and what stays so, `Generations` why only a probe
that had passed its check may still write, `StartingHolds` and `StarterIsKnown` who
attends to a deployment in starting.

**CodeDebugProofs**: `RuntimeClosedOnce` (`ClosedOnce`, however many requests
overlap) from `UnregisteredIsFresh` and `MappedIsOpen`; `AdaptersAreOwned`
(`NoAdapterLeak`) from `AdapterOwned`, `BusyHaveMet` and `FoundIsCurrent`: what a
request that found no usable runtime overwrites when it registers its own is nothing,
or the runtime of a request that met another one.

**ManagedDeploymentsProofs**: `ConfirmedIsKept` (`ConfirmedSurvives`). A push may be
given up and its handler go on, so what the controller may believe rests on
handlers that met no other: such a handler is the only one (`Alone`), what it wrote
is still there (`Written`, which also says that it ended an `unread`), and while
anything is confirmed none runs (`ConfirmedIsIdle`).

**PipelineRunProofs**, in the order of the module:

- `PlannerIsCorrect`: for any list of steps without a repetition and any needs,
  `ValidateDAG` returns a dependency order of exactly these steps if the needs are
  known and acyclic, and refuses otherwise. The provers have no induction scheme,
  so loop invariants (`KahnInv`) are proved from a least counterexample (`Least`,
  `NoFirst`).
- `PlansAreCorrect` (`PlanCorrect`): a run executes such an order, and without a
  fault is refused only for a reason.
- The engine's invariant `EngineInv` says where the run can be (`Where`), that what
  lies ahead is untouched (`Ahead`), what lies behind is settled and was started if
  it was wanted (`Behind`), that the error variables say what is failed (`Errors`)
  and how far a rolling step has come (`Rolling`). From it `FailuresAreContained`
  (`FailureContained`), `DeploysOnArtifact` (`DeployNeedsArtifact`), `VerdictIsTrue`
  (`VerdictTrue`), `FinallyAlwaysRuns` (`FinallyRuns`).
- `RunIsDeployment` (`ImplementsDeploymentRun`): the run implements
  `DeploymentRun`. An accepted `Prepare` is `StartRun`; `ExecuteStep` is `Run`;
  `SettleStep` is `Skip`, or `Judge` for a step without a task or with something wrong
  in itself; the end of a
  step's last batch is `Finish`; skipping the deploy phase skips its steps; the ends
  of a phase and the panics are `Decide` where they set the verdict. Tasks, retries,
  log lines, saves, consoles and a crash stutter.
- `FollowersSeeAll` (`NoGapBeforeDone`): for a console that follows the run every
  stored line was seen, is in its channel or is in the hands of the task that stored
  it (`Follows`), such lines exist only while tasks run (`LinesHere`), and nothing is
  sent after done (`DoneLast`).

Only model-checked: the action property `ServicesKept` of `NodeStatus`, and all liveness
(`DatabasesReclaimed`, `CallsReturn`, `Converges`, `AcceptedRunSettles`,
`JoinedConsoleEnds`, `HeadPreferred`, `LiveHostReported`, `DeadHostMarked`,
`ListsConverge`, `EndedIsRetired`), which needs fairness and is outside what the
installed provers handle.

## 6. Where the code falls short of its comments

Each of these is one command, `tlc -config <cfg> <module>`, and TLC refutes the
property with a trace:

| Configuration | Module | Property | What happens |
|---|---|---|---|
| `TestDBLease_flush.cfg` | `MCTestDBLease` | `TenantKeysKept` | `redis.go:179` says Reclaim flushes only a db its lease holds; of two concurrent releases (client and reaper) the slower one flushes the db after the next lease got it (`lease.go:356`) |
| `TestDBLease_crashflush.cfg` | `MCTestDBLease` | `UserKeysKept` | a crash leaves a row whose db was never verified; the user fills that db, the reaper flushes it (`lease.go:341`) |
| `TestDBLease_sweep.cfg` | `MCTestDBLease` | `DatabaseKept` | the registry is read before the server is listed, so a database created in between is dropped as an orphan (`lease.go:473`) |
| `TestDBLease_leak.cfg` | `MCTestDBLease` | `EveryRowGivenUp` | the statement that gives a row up fails, its error is ignored, and the lease is marked released all the same: nobody looks at the row again (`lease.go:360`) |
| `TunnelManager_redial.cfg` | `MCTunnelManager` | `RedialsAfterFailure` | a call made after MarkFailed joins the attempt that was written off and gets its error (`manager.go:194`) |
| `PortMirror_selfstop.cfg` | `PortMirror` | `NeverStopsItself` | two hosts declare one port: the occupier is the agent itself (`handler_port_mirrors.go:319`) |
| `ProcessManager_orphan.cfg` | `ProcessManager` | `NothingIsLost` | between registering a runner and spawning its child a concurrent Stop finds nothing to kill; the child spawned next is in no map (`manager.go:481`) |
| `ProcessManager_lateprobe.cfg` | `ProcessManager` | `StopStaysStopped` | a probe compares the generation, a stop runs, the probe writes its status (`manager.go:528`) |
| `PipelineRun_done.cfg` | `MCPipelineRun` | `DoneIsComplete` | the engine saves a terminal status before the hub is closed; a console that reads it is sent done and leaves with lines unread (`handler_run_logs_ws.go:45`) |
| `NodeStatus_slowconsole.cfg` | `NodeStatus` | `DeadHostShown` | a full subscriber channel loses the newest snapshot, and nothing is published after it (`registry.go:412`) |
| `NodeStatus_lostdone.cfg` | `NodeStatus` | `LiveHostReported` | a done event that finds the channel full is dropped, and the ended watcher's entry keeps any other from starting (`dispatcher.go:201`) |
| `ManagedDeployments_emptied.cfg` | `ManagedDeployments` | `EmptiedHostCleared` | the one push after the last deployment is removed fails, and the ticker skips hosts that no project names (`host_deployment_reconciler.go:140`) |
| `ManagedDeployments_overlap.cfg` | `ManagedDeployments` | `ListsAgree` | two handlers swap projects and save in opposite orders: an idle agent runs one list and would restart with the other (`handler_managed_deployments.go:29`) |
| `ManagedDeployments_stray.cfg` | `ManagedDeployments` | `NoStrayCollector` | one handler stops a collector, another starts and marks it, the first unmarks it: a collector that Reconcile never stops (`collector/reconcile.go:87`) |
| `CodeDebug_overlap.cfg` | `CodeDebug` | `NothingIsLeft` | of two requests that both find no runtime the later one overwrites the record of the earlier, whose adapter nobody closes (`manager.go:420`) |
| `CodeDebug_lease.cfg` | `CodeDebug` | `LeaseHasRuntime` | the lease is created from a snapshot after its runtime was retired, and ResolveLease goes on handing it out (`manager.go:207`, `979`) |
| `CodeDebug_window.cfg` | `CodeDebug` | `DeadIsRetired` | a terminated event before the pump subscribes is lost, and the runtime of a dead debuggee is registered (`manager.go:391`) |

These are refuted in the same way by a configuration changed as the second column
says, with the property of the first (as an invariant or a temporal property)
in place of its own:

| Property | Configuration | What happens |
|---|---|---|
| `EveryRowGivenUp` | `TestDBLease_leak.cfg` with `Faults = {}` | an Acquire that outlives its lease revives the row its release gave up (`lease.go:277`) |
| `EveryRowGivenUp` | `TestDBLease_leak.cfg` with `Faults = {"datasource"}`, `MaxTime = 2` | a Release skips a row whose datasource it does not find and marks the lease released (`lease.go:344`) |
| `TenantKeysKept` | `TestDBLease_flush.cfg` with `Clients = {c1}` | an Acquire whose lease was released, and its db taken, cleans up behind itself (`lease.go:278`) |
| `TenantKeysKept` | `TestDBLease_crashflush.cfg` with `TTLs = {3}`, `Actors = {"dryrun"}`, `MaxTime = 3`, `MaxCrashes = 0` | a dry run reserves nothing, so its deferred FLUSHDB hits the lease that took the slot (`lease.go:423`) |
| `QuotaRespected` | `TestDBLease_sweep.cfg` with `Leases = {l1,l2}`, `Quota = 1`, `Actors = {}` | two acquires pass the count before either inserts (`lease.go:177`) |
| `LifetimeLimited` | `TestDBLease_sweep.cfg` with `TTLs = {2}`, `MaxLife = 3`, `Actors = {"renew"}`, `MaxTime = 6` | a renewal shortly before the 24-hour limit ends after it (`lease.go:303`) |
| `ActiveMeansForwarded` | `PortMirror_selfstop.cfg` with `Hosts = {1}`, `Deployments = {1, 2}`, `Programs = {}`, `Events = {}` | a smaller deployment id takes a port over; the loser, visited later, drops the forward they share; the next round repairs it (`manager.go:502`) |
| `SubscriberIsCurrent` | `PortMirror_selfstop.cfg` with `Hosts = {1}`, `SubBuffer = 2`, `Events = {"programs"}` | a full channel keeps the oldest frames and loses the newest (`manager.go:621`) |
| `ReadinessHonoured` | `ProcessManager_lateprobe.cfg` as it is | the loop turns a deployment whose probe timed out back to running (`reconcile.go:48`) |
| `RecordedWhenIdle` | `ProcessManager_orphan.cfg` with `MaxBusy = 1` | the loop removes the pid record of the process a restart has just recorded (`runtime_reconcile.go:47`) |
| `FalseRunningHeals` | `ProcessManager_orphan.cfg` with `MaxBusy = 1`, `SPECIFICATION FairSpec` | a child dies between the look at its group and the write of running; no runner is left for Reconcile to correct (`manager.go:503`) |
| `NobodyWaitsForNothing` | `PipelineRun_done.cfg` as it is | a console reads running, the run ends and the hub is closed, the console subscribes and waits for a done that was already sent (`handler_run_logs_ws.go:39`) |
| `OneWatcher` | `NodeStatus_lostdone.cfg` with `DoneCap = 2` | a done event carries host and index only: the late notice of an old watcher removes its successor's entry, and a second one is started beside it (`dispatcher.go:293`) |
| `ForgottenStaysForgotten` | `NodeStatus_lostdone.cfg` with `DoneCap = 2`, `MaxFlaps = 1`, `MaxChanges = 1` | a frame on its way is applied after Forget and brings the host back (`registry.go:214`, `245`) |
| `AddedHostReported` | `NodeStatus_lostdone.cfg` with `DoneCap = 2`, `MaxFlaps = 0`, `MaxChanges = 1` | coverage is computed at Start: frames of a host added later are ignored (`registry.go:105`) |
| `SourceFollowed` | `ManagedDeployments_emptied.cfg` with `Sources = {app, web}`, `MaxFaults = 0`, `Kinds = {}` | a collector that exists is left as it is when its deployment's log source changes (`collector/manager.go:124`) |
| `CollectorsRevive` | `ManagedDeployments_emptied.cfg` with `MaxEdits = 1`, `Kinds = {"exit"}` | a collector whose process ended stays in the map, and no push starts it again (`collector/manager.go:124`) |
| `BrokenNotReused` | `CodeDebug_lease.cfg` with `Faults = {"link"}` | the adapter of an attached runtime is gone, the check looks at the service's pid, and the runtime is reused (`manager.go:292`) |

## 7. Not modelled, and the plan

Not modelled for good: the desktop application, routing and JSON of the HTTP and
MCP servers, browser debugging, configuration merging, language runtimes,
templates, ingress, metrics, installation and platform validation: input and
output, pure construction of text, or the protocol of another program. Together
they are most of the repository's lines. Project transfer is one sequential
import of file and git operations. Node adoption does each operation under one
mutex.

In order:

1. Proofs: type correctness and `ServicesKept` of `NodeStatus`; the steps of its
   parts as lemmas about `NodeTransport` and `NodeRegistry`; the abstract
   specifications of item 4 with their refinements.
2. `NodeAdoption`: requests, expiry, approval, one exchange, with the exchange's
   step after its unlock.
3. The audit log and its retention in `OperationGate`; `KillAll` after a crash in
   `ProcessManager`; captures, which pause a debuggee, in `CodeDebug`.
4. More abstract specifications: a single-use permission implemented by the gate,
   an exclusive slot allocator by the leases; the mirror composed with the tunnel
   manager and the registry instead of their interfaces.
