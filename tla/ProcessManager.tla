--------------------------- MODULE ProcessManager ---------------------------
(***************************************************************************)
(* The life of one local deployment: process.Manager (manager.go,          *)
(* reconcile.go, runner.go of agent/process), the start, stop and restart  *)
(* handlers of agent/api/handler_deployments.go, the reconcile loop of     *)
(* agent/api/runtime_reconcile.go and the pid file.                        *)
(*                                                                         *)
(* The manager keeps everything per id, so one id shows all of it.  Nothing *)
(* serialises the handlers: each locked section, each look at the process  *)
(* group and each write of the status is a step of its own, between which  *)
(* other requests, the goroutine that waits for the child, the readiness   *)
(* probe and the reconcile loop run.  A call starts at most one child, so   *)
(* a runner, its process group, its waiter and its probe bear the call's   *)
(* name.                                                                   *)
(***************************************************************************)
EXTENDS Naturals, FiniteSets

CONSTANTS
  Calls,        \* requests
  Kinds,        \* what they ask for, of "start", "stop" and "restart"
  MaxBusy,      \* how many requests run at the same time
  Probes,       \* may the deployment declare a readiness probe: a set of BOOLEANs
  NoOne

ASSUME ProcessConstants ==
  /\ NoOne \notin Calls /\ "loop" \notin Calls /\ Kinds \subseteq {"start", "stop", "restart"}
  /\ MaxBusy \in Nat \ {0} /\ Probes \subseteq BOOLEAN /\ Probes # {}

VARIABLES
  runner,       \* runners[id]
  status,       \* status[id]
  gen,          \* generations[id]
  ready,        \* readiness[id] is set
  backgrounded, \* backgrounded[id]
  call,         \* the requests
  rec,          \* what each running Reconcile has read: calls, and the loop
  loop,         \* the reconcile loop
  proc,         \* each runner's process group, as the OS has it
  waiter,       \* the goroutine that waits for the child and runs OnExit
  probe,        \* awaitReadiness
  pids, pidFile,\* pidStore in memory and on disk
  last          \* history: the last request that ended, the last that wrote "starting",
                \* and whether a probe of an older generation wrote since the last stop

maps == <<runner, status, gen, ready, backgrounded>>
kids == <<proc, waiter, probe>>
store == <<pids, pidFile>>
vars == <<maps, call, rec, loop, kids, store, last>>

Runner == Calls \cup {NoOne}
Actors == Calls \cup {"loop"}

Active == {"read", "apply", "forget", "reflush", "bump", "detach", "kill", "stopped", "unrecord",
           "ready", "reread", "reapply", "check", "starting", "advance", "register",
           "spawn", "spawnFailed", "alive", "running", "record", "flush"}

Pcs == Active \cup {"idle", "done", "error"}
\* overlapped is a history: another request was under way at the same time.
CallState == [pc : Pcs, kind : {"start", "stop", "restart"}, gen : Nat, victim : Runner,
              overlapped : BOOLEAN]
Reading == [r : Runner, group : {"none", "alive", "dead"}, clean : BOOLEAN, bg : BOOLEAN]
LastState == [done : Runner, starter : Runner, late : BOOLEAN]
Waiter == [pc : {"none", "drain", "exited", "alive", "gone", "done"}, ok : BOOLEAN]

TypeOK ==
  /\ runner \in Runner /\ gen \in Nat
  /\ status \in {"stopped", "starting", "running", "failed"}
  /\ ready \in BOOLEAN /\ backgrounded \in BOOLEAN
  /\ call \in [Calls -> CallState] /\ rec \in [Actors -> Reading]
  /\ loop \in {"idle", "apply", "forget", "flush"}
  /\ proc \in [Calls -> {"none", "up", "background", "dead"}]
  /\ waiter \in [Calls -> Waiter]
  /\ probe \in [Calls -> {"none", "probing", "passed", "commit", "expired", "failed", "done"}]
  /\ pids \in Runner /\ pidFile \in Runner
  /\ last \in LastState

NothingRead == [r |-> NoOne, group |-> "none", clean |-> FALSE, bg |-> FALSE]

Init ==
  /\ runner = NoOne /\ status = "stopped" /\ gen = 0
  /\ ready = FALSE /\ backgrounded = FALSE
  /\ call = [c \in Calls |-> [pc |-> "idle", kind |-> "start", gen |-> 0, victim |-> NoOne,
                           overlapped |-> FALSE]]
  /\ rec = [a \in Actors |-> NothingRead]
  /\ loop = "idle"
  /\ proc = [c \in Calls |-> "none"]
  /\ waiter = [c \in Calls |-> [pc |-> "none", ok |-> FALSE]]
  /\ probe = [c \in Calls |-> "none"]
  /\ pids = NoOne /\ pidFile = NoOne
  /\ last = [done |-> NoOne, starter |-> NoOne, late |-> FALSE]

Alive(r) == r # NoOne /\ proc[r] \in {"up", "background"}    \* ProcessGroupAlive
Spawned(r) == r # NoOne /\ proc[r] # "none"                  \* ProcessGroupID # 0
Exited(r) == waiter[r].pc \in {"exited", "alive", "gone", "done"}  \* ExitInfo

At(c, pc) == call[c].pc = pc
GoTo(c, pc) == call' = [call EXCEPT ![c].pc = pc]

Busy == {c \in Calls : call[c].pc \in Active}

\* A request arrives; start and restart handlers alike reconcile first.
Request(c, kind) ==
  /\ At(c, "idle") /\ Cardinality(Busy) < MaxBusy
  /\ call' = [d \in Calls |->
                IF d = c THEN [call[c] EXCEPT !.pc = "read", !.kind = kind,
                                              !.overlapped = Busy # {}]
                ELSE IF d \in Busy THEN [call[d] EXCEPT !.overlapped = TRUE]
                ELSE call[d]]
  /\ UNCHANGED <<maps, rec, loop, kids, store, last>>

---------------------------------------------------------------------------
(* Manager.Reconcile, run by requests and by the loop.                     *)

\* It reads the runner under the lock, then looks at its process group and at
\* how its child ended.  A dead group stays dead, so the looks are one step.
\* A runner without a child yet is left alone.
ReconcileRead(a) ==
  rec' = [rec EXCEPT ![a] =
            [r |-> runner, bg |-> backgrounded,
             group |-> IF ~Spawned(runner) THEN "none"
                       ELSE IF Alive(runner) THEN "alive" ELSE "dead",
             clean |-> runner # NoOne /\ Exited(runner) /\ waiter[runner].ok]]

reconcileDeadStatus(clean, bg) ==
  IF ~bg /\ (status = "stopped" \/ clean) THEN "stopped" ELSE "failed"

\* The runner it looked at is still the one in the map, and its group was dead.
Corrects(a) == rec[a].group = "dead" /\ rec[a].r = runner

\* Its second locked section.
ReconcileApply(a) ==
  LET r == rec[a].r IN
  /\ rec' = [rec EXCEPT ![a] = NothingRead]
  /\ IF Corrects(a)
     THEN /\ runner' = NoOne /\ backgrounded' = FALSE
          /\ status' = reconcileDeadStatus(rec[a].clean, rec[a].bg \/ backgrounded)
          /\ UNCHANGED <<gen, ready>>
     ELSE IF rec[a].group = "alive" /\ r = runner /\ status # "starting"
     THEN /\ status' = "running" /\ backgrounded' = (backgrounded \/ Exited(r))
          /\ UNCHANGED <<runner, gen, ready>>
     ELSE UNCHANGED maps

\* reconcileLocalDeployment, at the head of every handler
HandlerRead(c) ==
  /\ At(c, "read") /\ ReconcileRead(c) /\ GoTo(c, "apply")
  /\ UNCHANGED <<maps, loop, kids, store, last>>

Begin(c) == IF call[c].kind = "start" THEN "ready" ELSE "bump"

HandlerApply(c) ==
  /\ At(c, "apply") /\ ReconcileApply(c)
  /\ GoTo(c, IF Corrects(c) THEN "forget" ELSE Begin(c))
  /\ UNCHANGED <<loop, kids, store, last>>

\* PIDStore.Flush writes the file in place: a failing one may leave it empty.
FlushFails == pidFile' \in {pidFile, NoOne}

\* applyProcessReconcileResults: pidStore.Remove, then Flush, whose error is logged
HandlerForget(c) ==
  /\ At(c, "forget") /\ pids' = NoOne /\ GoTo(c, "reflush")
  /\ UNCHANGED <<maps, rec, loop, kids, pidFile, last>>

HandlerReflush(c) ==
  /\ At(c, "reflush") /\ (pidFile' = pids \/ FlushFails) /\ GoTo(c, Begin(c))
  /\ UNCHANGED <<maps, rec, loop, kids, pids, last>>

\* The loop, every three seconds.
LoopRead ==
  /\ loop = "idle" /\ runner # NoOne /\ loop' = "apply" /\ ReconcileRead("loop")
  /\ UNCHANGED <<maps, call, kids, store, last>>

LoopApply ==
  /\ loop = "apply" /\ ReconcileApply("loop")
  /\ loop' = IF Corrects("loop") THEN "forget" ELSE "idle"
  /\ UNCHANGED <<call, kids, store, last>>

LoopForget ==
  /\ loop = "forget" /\ pids' = NoOne /\ loop' = "flush"
  /\ UNCHANGED <<maps, call, rec, kids, pidFile, last>>

LoopFlush ==
  /\ loop = "flush" /\ (pidFile' = pids \/ FlushFails) /\ loop' = "idle"
  /\ UNCHANGED <<maps, call, rec, kids, pids, last>>

---------------------------------------------------------------------------
(* Manager.Stop.                                                           *)

StopBump(c) ==
  /\ At(c, "bump") /\ gen' = gen + 1 /\ GoTo(c, "detach")
  /\ UNCHANGED <<runner, status, ready, backgrounded, rec, loop, kids, store, last>>

StopDetach(c) ==
  /\ At(c, "detach")
  /\ runner' = NoOne /\ ready' = FALSE /\ backgrounded' = FALSE
  /\ call' = [call EXCEPT ![c].pc = "kill", ![c].victim = runner]
  /\ UNCHANGED <<status, gen, rec, loop, kids, store, last>>

\* Runner.Stop kills the whole group; on a runner without a child it does nothing.
StopKill(c) ==
  /\ At(c, "kill")
  /\ call' = [call EXCEPT ![c].pc = "stopped", ![c].victim = NoOne]
  /\ LET r == call[c].victim
     IN IF Alive(r)
        THEN /\ proc' = [proc EXCEPT ![r] = "dead"]
             /\ waiter' = IF proc[r] = "up" THEN [waiter EXCEPT ![r].pc = "drain"] ELSE waiter
        ELSE UNCHANGED <<proc, waiter>>
  /\ UNCHANGED <<maps, rec, loop, probe, store, last>>

AfterStop(c) == IF call[c].kind = "stop" THEN "unrecord" ELSE "ready"

StopDone(c) ==
  /\ At(c, "stopped") /\ status' = "stopped" /\ GoTo(c, AfterStop(c))
  /\ last' = [last EXCEPT !.late = FALSE]
  /\ UNCHANGED <<runner, gen, ready, backgrounded, rec, loop, kids, store>>

Unrecord(c) ==
  /\ At(c, "unrecord") /\ pids' = NoOne /\ GoTo(c, "flush")
  /\ UNCHANGED <<maps, rec, loop, kids, pidFile, last>>

---------------------------------------------------------------------------
(* Manager.StartDeployment: setReadiness, then startByID.                  *)

SetReadiness(c) ==
  /\ At(c, "ready") /\ ready' \in Probes /\ GoTo(c, "reread")
  /\ UNCHANGED <<runner, status, gen, backgrounded, rec, loop, kids, store, last>>

StartRead(c) ==
  /\ At(c, "reread") /\ ReconcileRead(c) /\ GoTo(c, "reapply")
  /\ UNCHANGED <<maps, loop, kids, store, last>>

StartApply(c) ==
  /\ At(c, "reapply") /\ ReconcileApply(c) /\ GoTo(c, "check")
  /\ UNCHANGED <<loop, kids, store, last>>

\* Mistake: a start does not look at the process group.
StatusOnly == status # "starting"

\* Something starts or runs already: the request is answered as done.
MayStart == status # "starting" /\ ~Alive(runner)

StartCheck(c) ==
  /\ At(c, "check")
  /\ IF MayStart
     THEN /\ runner' = NoOne
          /\ backgrounded' = (runner = NoOne /\ backgrounded)
          /\ GoTo(c, "starting")
     ELSE GoTo(c, "record") /\ UNCHANGED <<runner, backgrounded>>
  /\ UNCHANGED <<status, gen, ready, rec, loop, kids, store, last>>

StartStatus(c) ==
  /\ At(c, "starting") /\ status' = "starting" /\ GoTo(c, "advance")
  /\ last' = [last EXCEPT !.starter = c]
  /\ UNCHANGED <<runner, gen, ready, backgrounded, rec, loop, kids, store>>

\* Mistake: the generation is read before it advances.
OldGeneration(c) ==
  /\ At(c, "advance") /\ gen' = gen + 1
  /\ call' = [call EXCEPT ![c].pc = "register", ![c].gen = gen]
  /\ UNCHANGED <<runner, status, ready, backgrounded, rec, loop, kids, store, last>>

StartBump(c) ==
  /\ At(c, "advance") /\ gen' = gen + 1
  /\ call' = [call EXCEPT ![c].pc = "register", ![c].gen = gen + 1]
  /\ UNCHANGED <<runner, status, ready, backgrounded, rec, loop, kids, store, last>>

StartRegister(c) ==
  /\ At(c, "register") /\ runner' = c /\ GoTo(c, "spawn")
  /\ UNCHANGED <<status, gen, ready, backgrounded, rec, loop, kids, store, last>>

\* Runner.Start: the pre-run step and the child, both under the runner's lock.
Spawn(c) ==
  /\ At(c, "spawn") /\ proc' = [proc EXCEPT ![c] = "up"] /\ GoTo(c, "alive")
  /\ UNCHANGED <<maps, rec, loop, waiter, probe, store, last>>

SpawnFails(c) ==
  /\ At(c, "spawn") /\ GoTo(c, "spawnFailed")
  /\ UNCHANGED <<maps, rec, loop, kids, store, last>>

StartFailed(c) ==
  /\ At(c, "spawnFailed")
  /\ IF runner = c
     THEN /\ runner' = NoOne /\ ready' = FALSE /\ backgrounded' = FALSE /\ status' = "failed"
     ELSE UNCHANGED <<runner, ready, backgrounded, status>>
  /\ GoTo(c, "error") /\ last' = [last EXCEPT !.done = c]
  /\ UNCHANGED <<gen, rec, loop, kids, store>>

\* The child is up: without a probe that means running, once the status is
\* written; with one, the probe decides.
StartAlive(c) ==
  /\ At(c, "alive")
  /\ IF Alive(c) /\ ready
     THEN probe' = [probe EXCEPT ![c] = "probing"] /\ GoTo(c, "record")
     ELSE GoTo(c, IF Alive(c) THEN "running" ELSE "record") /\ UNCHANGED probe
  /\ UNCHANGED <<maps, rec, loop, proc, waiter, store, last>>

StartRunning(c) ==
  /\ At(c, "running") /\ status' = "running" /\ GoTo(c, "record")
  /\ UNCHANGED <<runner, gen, ready, backgrounded, rec, loop, kids, store, last>>

\* pidStore.Set(DeploymentPID), then Flush
Record(c) ==
  /\ At(c, "record") /\ pids' = (IF Spawned(runner) THEN runner ELSE NoOne) /\ GoTo(c, "flush")
  /\ UNCHANGED <<maps, rec, loop, kids, pidFile, last>>

\* A request whose Flush fails is answered with the error, its work done.
Flush(c) ==
  /\ At(c, "flush")
  /\ \/ pidFile' = pids /\ GoTo(c, "done")
     \/ FlushFails /\ GoTo(c, "error")
  /\ last' = [last EXCEPT !.done = c]
  /\ UNCHANGED <<maps, rec, loop, kids, pids>>

---------------------------------------------------------------------------
(* The child, the goroutine that waits for it, and the readiness probe.    *)

\* The shell exits, with or without children that stay behind.
ShellExits(c, ok, left) ==
  /\ proc[c] = "up"
  /\ proc' = [proc EXCEPT ![c] = IF left THEN "background" ELSE "dead"]
  /\ waiter' = [waiter EXCEPT ![c] = [pc |-> "drain", ok |-> ok]]
  /\ UNCHANGED <<maps, call, rec, loop, probe, store, last>>

BackgroundDies(c) ==
  /\ proc[c] = "background" /\ proc' = [proc EXCEPT ![c] = "dead"]
  /\ UNCHANGED <<maps, call, rec, loop, waiter, probe, store, last>>

WaitReturns(c) ==
  /\ waiter[c].pc = "drain" /\ waiter' = [waiter EXCEPT ![c].pc = "exited"]
  /\ UNCHANGED <<maps, call, rec, loop, proc, probe, store, last>>

\* handleRunnerExit: the generation, then the group, then the locked section
ExitLooks(c) ==
  /\ waiter[c].pc = "exited"
  /\ waiter' = [waiter EXCEPT ![c].pc =
       IF gen # call[c].gen THEN "done" ELSE IF Alive(c) THEN "alive" ELSE "gone"]
  /\ UNCHANGED <<maps, call, rec, loop, proc, probe, store, last>>

\* Mistake: any callback is obeyed.
AnyExit(c) == TRUE

\* A callback of another runner's child changes nothing.
OwnExit(c) == runner = c

ExitKeeps(c) ==
  /\ waiter[c].pc = "alive" /\ waiter' = [waiter EXCEPT ![c].pc = "done"]
  /\ IF OwnExit(c)
     THEN /\ status' = (IF ready THEN status ELSE "running") /\ backgrounded' = TRUE
          /\ UNCHANGED <<runner, gen, ready>>
     ELSE UNCHANGED maps
  /\ UNCHANGED <<call, rec, loop, proc, probe, store, last>>

ExitEnds(c) ==
  /\ waiter[c].pc = "gone" /\ waiter' = [waiter EXCEPT ![c].pc = "done"]
  /\ IF OwnExit(c)
     THEN /\ runner' = NoOne /\ ready' = FALSE /\ backgrounded' = FALSE
          /\ status' = (IF waiter[c].ok THEN "stopped" ELSE "failed")
          /\ UNCHANGED gen
     ELSE UNCHANGED maps
  /\ UNCHANGED <<call, rec, loop, proc, probe, store, last>>

\* awaitReadiness: the probe passes or times out, the generation is compared,
\* and only then the status is written.
ProbeAnswers(c, pc) ==
  /\ probe[c] = "probing"
  /\ probe' = [probe EXCEPT ![c] = IF gen # call[c].gen THEN "done" ELSE pc]
  /\ UNCHANGED <<maps, call, rec, loop, proc, waiter, store, last>>

ProbeWrites(c, s) ==
  /\ status' = s /\ last' = [last EXCEPT !.late = @ \/ gen # call[c].gen]
  /\ UNCHANGED <<runner, gen, ready, backgrounded, call, rec, loop, proc, waiter, store>>

ProbeExpired(c) ==
  /\ probe[c] = "expired" /\ probe' = [probe EXCEPT ![c] = "failed"]
  /\ ProbeWrites(c, "failed")

ProbeLooks(c) ==
  /\ probe[c] = "passed"
  /\ probe' = [probe EXCEPT ![c] = IF Alive(runner) THEN "commit" ELSE "done"]
  /\ UNCHANGED <<maps, call, rec, loop, proc, waiter, store, last>>

ProbeCommits(c) ==
  /\ probe[c] = "commit" /\ probe' = [probe EXCEPT ![c] = "done"]
  /\ ProbeWrites(c, "running")

---------------------------------------------------------------------------
Handler(c) ==
  \/ HandlerRead(c) \/ HandlerApply(c) \/ HandlerForget(c) \/ HandlerReflush(c)
  \/ StopBump(c) \/ StopDetach(c) \/ StopKill(c) \/ StopDone(c) \/ Unrecord(c)
  \/ SetReadiness(c) \/ StartRead(c) \/ StartApply(c) \/ StartCheck(c) \/ StartStatus(c)
  \/ StartBump(c) \/ StartRegister(c) \/ Spawn(c) \/ SpawnFails(c) \/ StartFailed(c)
  \/ StartAlive(c) \/ StartRunning(c) \/ Record(c) \/ Flush(c)

Watch(c) == WaitReturns(c) \/ ExitLooks(c) \/ ExitKeeps(c) \/ ExitEnds(c)

Probe(c) ==
  \/ \E pc \in {"passed", "expired"} : ProbeAnswers(c, pc)
  \/ ProbeExpired(c) \/ ProbeLooks(c) \/ ProbeCommits(c)

ReconcileLoop == LoopRead \/ LoopApply \/ LoopForget \/ LoopFlush

Next ==
  \/ \E c \in Calls :
       \/ \E kind \in Kinds : Request(c, kind)
       \/ Handler(c) \/ Watch(c) \/ Probe(c)
       \/ \E ok, left \in BOOLEAN : ShellExits(c, ok, left)
       \/ BackgroundDies(c)
  \/ ReconcileLoop

Spec == Init /\ [][Next]_vars

\* Handlers, waiters and probes are goroutines that always have a next
\* statement to run or a timeout to meet, and the loop's ticker never stops.
\* Requests and the ends of children are up to the user and the OS.
FairSpec ==
  /\ Spec /\ WF_vars(ReconcileLoop)
  /\ \A c \in Calls : WF_vars(Handler(c)) /\ WF_vars(Watch(c)) /\ WF_vars(Probe(c))

---------------------------------------------------------------------------
(* Properties.                                                             *)

\* A Stop or a Restart can still end c's process group: c is the runner in the
\* map, or a Stop has taken it out and is about to kill it.
Held(c) == runner = c \/ \E d \in Calls : call[d].victim = c

\* Every process group that still lives can be stopped, unless its own request
\* ran beside another one.  startByID, Reconcile and the exit callback drop a
\* runner from the map without killing it, on the word of an earlier look at its
\* group, and later requests may overlap as they like.
NoOrphan == \A c \in Calls : Alive(c) /\ ~call[c].overlapped => Held(c)

\* A stop request was the last to be answered.
Stopped == Busy = {} /\ last.done # NoOne /\ call[last.done].kind = "stop"

\* Once a stop request is answered, and until the next request, nothing lives of
\* what was started before, and the deployment is reported stopped, whatever exit
\* callback or reconcile round was under way when the stop came.  Only a request
\* that ran beside another one, and a readiness probe that had compared the
\* generation before the stop advanced it, may get past a stop.
StopIsFinal ==
  Stopped =>
    /\ \A c \in Calls : Alive(c) => call[c].overlapped
    /\ call[last.done].overlapped \/ status = "stopped" \/ last.late

\* A deployment reported "starting" is attended to, unless the request that said
\* so ran beside another one: a start or a stop is on its way to a verdict, or a
\* probe of the current generation is, or the runner's group is dead and its exit
\* callback or a reconcile round will say so.
StartingIsAttended ==
  status = "starting" =>
    \/ call[last.starter].overlapped
    \/ \E c \in Calls : call[c].pc \in {"advance", "register", "spawn", "spawnFailed", "alive",
                                       "running", "detach", "kill", "stopped"}
    \/ \E c \in Calls : probe[c] \in {"probing", "passed", "commit", "expired"}
                        /\ call[c].gen = gen
    \/ runner # NoOne /\ proc[runner] = "dead"

\* A runner whose process group died leaves the map, by its exit callback or
\* by a reconcile round.
DeadIsForgotten ==
  \A c \in Calls : (runner = c /\ proc[c] = "dead") ~> (runner # c)

\* No deployment stays "starting" for ever: startByID answers every start
\* request with success while that status lasts.
NeverStuckStarting == (status = "starting") ~> (status # "starting")

-----------------------------------------------------------------------------
(* What comments and documents say and the code does not keep: each is     *)
(* refuted by the configuration the README names for it.                   *)

\* Whatever lives can be stopped, also when its request ran beside another one.
NothingIsLost == \A c \in Calls : Alive(c) => Held(c)

\* A stop answered for a request of its own is not undone by anything.
StopStaysStopped == Stopped /\ ~call[last.done].overlapped => status = "stopped"

\* A deployment whose readiness probe timed out is not reported running.
ReadinessHonoured ==
  status = "running" /\ runner # NoOne => probe[runner] # "failed"

\* With no request and no reconcile round under way, the pid file names every
\* process that KillAll would have to kill after a crash of the agent.
RecordedWhenIdle ==
  Busy = {} /\ loop = "idle" => \A c \in Calls : Alive(c) => pidFile = c

\* A deployment reported running while nothing of it lives is corrected.
FalseRunningHeals ==
  (status = "running" /\ \A c \in Calls : ~Alive(c))
    ~> (status # "running" \/ \E c \in Calls : Alive(c))
=============================================================================
