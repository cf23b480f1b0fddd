----------------------------- MODULE PipelineRun -----------------------------
(***************************************************************************)
(* One run of a deployment pipeline, from the request to the last event a  *)
(* console receives: the deploy service (agent/api/                        *)
(* pipeline_deploy_service.go), the engine (agent/pipeline/engine.go), the *)
(* run's record and log lines (agent/store/runs.go), the event hub         *)
(* (agent/api/run_hub.go) and the consoles that replay the log and then    *)
(* follow the hub (agent/api/handler_run_logs_ws.go).                      *)
(*                                                                         *)
(* One goroutine walks the phases; the tasks of a batch run concurrently,  *)
(* each appending a line to the store and then broadcasting it.  A         *)
(* Broadcast is one action: it copies the subscriber set and sends to each *)
(* subscriber under that subscriber's own mutex, and a subscriber that     *)
(* joins or leaves between the two is one that did so after or before.     *)
(* The run's context is context.Background(): it is never cancelled.       *)
(***************************************************************************)
EXTENDS PipelinePlan

CONSTANTS
  Steps,       \* steps, named by their phase and name (phaseStepKey)
  Declared,    \* [Phases -> Seq(Steps)]: the steps of each phase as declared
  Pipelines,   \* the pipelines that may be deployed, see Pipeline below
  Viewers,     \* console connections
  Buffer,      \* capacity of a subscriber's channel
  MaxTasks,    \* bound: targets of a step
  MaxLogs,     \* bound: log lines of the run
  MaxFaults    \* bound: store failures, panics and crashes

\* What a pipeline says of its steps.  A step that no template resolves to a
\* registered and valid plugin is not usable; tasks counts its targets; width
\* is how many of them run at once: 1 for serial, all for parallel, N for
\* batch:N.  retries is step.Retries.
Pipeline ==
  [needs : [Steps -> SUBSET Steps], runIf : [Steps -> {"run", "skip", "invalid"}],
   usable : [Steps -> BOOLEAN], tasks : [Steps -> 0 .. MaxTasks],
   width : [Steps -> Nat \ {0}], retries : [Steps -> Nat]]

ASSUME RunConstants ==
  /\ Declared \in [Phases -> Seq(Steps)]
  /\ Steps = UNION {ToSet(Declared[p]) : p \in Phases}
  /\ \A p, q \in Phases : p # q => ToSet(Declared[p]) \cap ToSet(Declared[q]) = {}
  /\ \A p \in Phases : \A i, j \in DOMAIN Declared[p] :   \* ValidateDAG refuses duplicates
       Declared[p][i] = Declared[p][j] => i = j
  /\ Pipelines \subseteq Pipeline
  /\ Buffer \in Nat \ {0} /\ MaxTasks \in Nat /\ MaxLogs \in Nat /\ MaxFaults \in Nat

VARIABLES
  pipe,      \* the pipeline deployed
  rollback,  \* artifact_version was given: SkipBuild and BeforeDeploy
  plan,      \* Plan.Phases: the ordered steps of each phase
  pc,        \* where the run's goroutine is
  phase,     \* the phase it is in
  pos,       \* position in the phase
  from,      \* first task of the current batch
  step,      \* StepRun.Status
  task,      \* the tasks of each step: status, attempts made, line to broadcast
  status,    \* run.Status, in memory
  phaseErr, buildFailed, runErr,  \* the engine's error variables
  saved,     \* pipeline_runs: the status of the persisted snapshot
  logs,      \* pipeline_run_logs: how many lines, their ids are 1 .. logs
  faults,    \* faults so far
  sub,       \* the hub: each connection's subscriber
  viewer     \* each connection's handler

engineVars == <<phase, pos, from, step, task, status, phaseErr, buildFailed, runErr>>
vars == <<pipe, rollback, plan, pc, engineVars, saved, logs, faults, sub, viewer>>

StepStatus == {"pending", "running", "success", "failed", "skipped"}
RunStatus == {"none", "running", "success", "failed"}
Terminal == {"success", "failed"}              \* isTerminalRunStatus

Task == [status : StepStatus, attempts : Nat, line : Nat]
Event == [kind : {"log", "status", "done"}, id : Nat]

Pcs == {"plan", "refused", "start", "step", "tasks", "afterBuild", "skipDeploy",
        "beforeDeploy", "final", "done", "close", "over", "crashed"}
Subscriber == [in : BOOLEAN, closed : BOOLEAN, chan : Seq(Event)]
Console == [pc : {"off", "read", "subscribed", "live", "ended"}, read : RunStatus,
            seen : SUBSET (1 .. MaxLogs), end : {"none", "done", "closed", "left"}]

TypeOK ==
  /\ pipe \in Pipelines /\ rollback \in BOOLEAN
  /\ plan \in [Phases -> Seq(Steps)]
  /\ pc \in Pcs
  /\ phase \in Phases /\ pos \in Nat /\ from \in Nat
  /\ step \in [Steps -> StepStatus]
  /\ task \in [Steps -> [1 .. MaxTasks -> Task]]
  /\ status \in RunStatus
  /\ phaseErr \in BOOLEAN /\ buildFailed \in BOOLEAN /\ runErr \in BOOLEAN
  /\ saved \in RunStatus
  /\ logs \in 0 .. MaxLogs /\ faults \in 0 .. MaxFaults
  /\ sub \in [Viewers -> Subscriber]
  /\ \A v \in Viewers : Len(sub[v].chan) <= Buffer
  /\ viewer \in [Viewers -> Console]

Absent == [in |-> FALSE, closed |-> FALSE, chan |-> <<>>]
NoTask == [status |-> "pending", attempts |-> 0, line |-> 0]

Init ==
  /\ pipe \in Pipelines /\ rollback \in BOOLEAN
  /\ plan = [p \in Phases |-> <<>>]
  /\ pc = "plan" /\ phase = "build" /\ pos = 1 /\ from = 1
  /\ step = [s \in Steps |-> "pending"]
  /\ task = [s \in Steps |-> [i \in 1 .. MaxTasks |-> NoTask]]
  /\ status = "none"
  /\ phaseErr = FALSE /\ buildFailed = FALSE /\ runErr = FALSE
  /\ saved = "none" /\ logs = 0 /\ faults = 0
  /\ sub = [v \in Viewers |-> Absent]
  /\ viewer = [v \in Viewers |->
                 [pc |-> "off", read |-> "none", seen |-> {}, end |-> "none"]]

-----------------------------------------------------------------------------
(* Store and hub.                                                          *)

Fault == faults < MaxFaults /\ faults' = faults + 1

\* A store call may fail; the service only remembers the error.
StoreCall(ok) == IF ok THEN UNCHANGED faults ELSE Fault

\* Mistake: a full channel drops the event and keeps the subscriber.
SendOrDrop(b, e) ==
  IF Len(b.chan) < Buffer THEN [b EXCEPT !.chan = Append(@, e)] ELSE b

\* runSubscriber.send, and the removal of a subscriber that could not take it.
Send(b, e) ==
  IF Len(b.chan) < Buffer THEN [b EXCEPT !.chan = Append(@, e)]
  ELSE [b EXCEPT !.in = FALSE, !.closed = TRUE]

Broadcast(e) ==
  sub' = [v \in Viewers |-> IF sub[v].in THEN Send(sub[v], e) ELSE sub[v]]

StatusEvent == [kind |-> "status", id |-> 0]

\* OnRunUpdate is saveUpdate: the snapshot is saved, then broadcast whether or
\* not the save worked.  Its many status patches are one event here.
Notify(st, ok) ==
  /\ StoreCall(ok)
  /\ saved' = IF ok THEN st ELSE saved
  /\ Broadcast(StatusEvent)

-----------------------------------------------------------------------------
(* The deploy service's first half and the phases of RunWithOptions.       *)

Planned(p) == ValidateDAG(Declared[p], pipe.needs)

\* prepareProjectPipelineRun: BuildPlan, then the run is saved as running.  The
\* project, environment, roles and hosts of the request exist.
Prepare(ok) ==
  /\ pc = "plan"
  /\ \A p \in Phases : Planned(p).ok
  /\ StoreCall(ok)
  /\ plan' = [p \in Phases |-> Planned(p).steps]
  /\ IF ok THEN pc' = "start" /\ saved' = "running" /\ status' = "running"
           ELSE pc' = "refused" /\ UNCHANGED <<saved, status>>
  /\ UNCHANGED <<pipe, rollback, phase, pos, from, step, task, phaseErr, buildFailed,
                 runErr, logs, sub, viewer>>

Refuse ==
  /\ pc = "plan"
  /\ \E p \in Phases : ~Planned(p).ok
  /\ pc' = "refused"
  /\ UNCHANGED <<pipe, rollback, plan, engineVars, saved, logs, faults, sub, viewer>>

EnterPhase(p) ==
  pc' = "step" /\ phase' = p /\ pos' = 1 /\ phaseErr' = FALSE

SkipTasks(s) == [i \in 1 .. MaxTasks |-> [task[s][i] EXCEPT !.status = "skipped"]]

skipPhase(p) ==
  /\ step' = [s \in Steps |-> IF s \in ToSet(plan[p]) THEN "skipped" ELSE step[s]]
  /\ task' = [s \in Steps |-> IF s \in ToSet(plan[p]) THEN SkipTasks(s) ELSE task[s]]

\* The run's temporary directory cannot be made: no phase runs at all.
StartFails ==
  /\ pc = "start"
  /\ pc' = "final" /\ status' = "failed"
  /\ UNCHANGED <<pipe, rollback, plan, phase, pos, from, step, task, phaseErr,
                 buildFailed, runErr, saved, logs, faults, sub, viewer>>

StartBuild ==
  /\ pc = "start" /\ ~rollback
  /\ EnterPhase("build")
  /\ UNCHANGED <<pipe, rollback, plan, from, step, task, status, buildFailed, runErr,
                 saved, logs, faults, sub, viewer>>

\* SkipBuild: a rollback marks the build phase skipped.
StartRollback(ok) ==
  /\ pc = "start" /\ rollback
  /\ skipPhase("build")
  /\ Notify(status, ok)
  /\ pc' = "beforeDeploy"
  /\ UNCHANGED <<pipe, rollback, plan, phase, pos, from, status, phaseErr, buildFailed,
                 runErr, logs, viewer>>

AtPhaseEnd(p) == pc = "step" /\ phase = p /\ pos > Len(plan[p])

EndBuild ==
  /\ AtPhaseEnd("build")
  /\ buildFailed' = phaseErr /\ runErr' = phaseErr
  /\ pc' = IF phaseErr THEN "skipDeploy" ELSE "afterBuild"
  /\ UNCHANGED <<pipe, rollback, plan, phase, pos, from, step, task, status, phaseErr,
                 saved, logs, faults, sub, viewer>>

\* Mistake: the hook's error is recorded and the deployment goes on.
DeployUnregistered(registered, ok) ==
  /\ pc = "afterBuild"
  /\ Notify(status, ok)
  /\ EnterPhase("deploy")
  /\ buildFailed' = ~registered /\ runErr' = ~registered
  /\ UNCHANGED <<pipe, rollback, plan, from, step, task, status, logs, viewer>>

\* The hook registers the artifact; its error fails the build.
AfterBuild(registered, ok) ==
  /\ pc = "afterBuild"
  /\ Notify(status, ok)
  /\ IF registered
     THEN EnterPhase("deploy") /\ UNCHANGED <<buildFailed, runErr>>
     ELSE /\ buildFailed' = TRUE /\ runErr' = TRUE /\ pc' = "skipDeploy"
          /\ UNCHANGED <<phase, pos, phaseErr>>
  /\ UNCHANGED <<pipe, rollback, plan, from, step, task, status, logs, viewer>>

SkipDeploy(ok) ==
  /\ pc = "skipDeploy"
  /\ skipPhase("deploy")
  /\ Notify(status, ok)
  /\ EnterPhase("finally")
  /\ UNCHANGED <<pipe, rollback, plan, from, status, buildFailed, runErr, logs, viewer>>

\* The hook restores the artifact of the version rolled back to.
RestoreArtifact ==
  /\ pc = "beforeDeploy"
  /\ EnterPhase("deploy")
  /\ UNCHANGED <<pipe, rollback, plan, from, step, task, status, buildFailed, runErr,
                 saved, logs, faults, sub, viewer>>

RestoreFails(ok) ==
  /\ pc = "beforeDeploy"
  /\ runErr' = TRUE
  /\ skipPhase("deploy")
  /\ Notify(status, ok)
  /\ EnterPhase("finally")
  /\ UNCHANGED <<pipe, rollback, plan, from, status, buildFailed, logs, viewer>>

\* A failed deploy phase writes run.Status before the finally phase runs.
EndDeploy ==
  /\ AtPhaseEnd("deploy")
  /\ runErr' = (runErr \/ phaseErr)
  /\ status' = IF phaseErr THEN "failed" ELSE status
  /\ EnterPhase("finally")
  /\ UNCHANGED <<pipe, rollback, plan, from, step, task, buildFailed, saved, logs,
                 faults, sub, viewer>>

\* Mistake: an error of the finally phase is not the run's error.
RunFailedBeforeFinally == runErr

RunFailed == runErr \/ phaseErr

EndFinally(ok) ==
  /\ AtPhaseEnd("finally")
  /\ runErr' = RunFailed
  /\ status' = IF RunFailed THEN "failed" ELSE "success"
  /\ Notify(status', ok)
  /\ pc' = "final"
  /\ UNCHANGED <<pipe, rollback, plan, phase, pos, from, step, task, phaseErr,
                 buildFailed, logs, viewer>>

-----------------------------------------------------------------------------
(* runPhase: the steps of a phase, one after the other.  A failed step only *)
(* blocks the steps that need it.                                          *)

Current == plan[phase][pos]

\* Mistake: a step waits for the steps it needs and not for their success.
BlockedByFailureOnly(s) == \E d \in pipe.needs[s] : step[d] = "failed"

\* statuses[dep] is StepRun.Status of a step of this phase once it completed;
\* before that it is neither, and not success.
dependencyBlocked(s) == \E d \in pipe.needs[s] : step[d] # "success"

\* Mistake: the finally phase is left out after an error.
VerdictWithoutFinally(s) ==
  IF phase = "finally" /\ runErr THEN "skipped"
  ELSE IF dependencyBlocked(s) \/ pipe.runIf[s] = "skip" THEN "skipped"
  ELSE IF pipe.runIf[s] = "invalid" \/ ~pipe.usable[s] THEN "failed"
  ELSE IF pipe.tasks[s] = 0 THEN "success"
  ELSE "execute"

\* What becomes of a step, tested in the order of runPhase and executeStep;
\* only "execute" starts tasks.
Verdict(s) ==
  IF dependencyBlocked(s) THEN "skipped"
  ELSE IF pipe.runIf[s] = "invalid" THEN "failed"
  ELSE IF pipe.runIf[s] = "skip" THEN "skipped"
  ELSE IF pipe.tasks[s] = 0 THEN "success"
  ELSE IF ~pipe.usable[s] THEN "failed"
  ELSE "execute"

AtStep == pc = "step" /\ pos <= Len(plan[phase])

\* A step that is settled without running: completeStep notifies.
SettleStep(ok) ==
  /\ AtStep
  /\ LET s == Current
         v == Verdict(s)
     IN  /\ v # "execute"
         /\ step' = [step EXCEPT ![s] = v]
         /\ task' = IF v = "skipped" THEN [task EXCEPT ![s] = SkipTasks(s)] ELSE task
         /\ phaseErr' = (phaseErr \/ v = "failed")
  /\ pos' = pos + 1
  /\ Notify(status, ok)
  /\ UNCHANGED <<pipe, rollback, plan, pc, phase, from, status, buildFailed, runErr,
                 logs, viewer>>

ExecuteStep ==
  /\ AtStep
  /\ Verdict(Current) = "execute"
  /\ step' = [step EXCEPT ![Current] = "running"]
  /\ pc' = "tasks" /\ from' = 1
  /\ UNCHANGED <<pipe, rollback, plan, phase, pos, task, status, phaseErr, buildFailed,
                 runErr, saved, logs, faults, sub, viewer>>

\* The tasks that run concurrently: executeTaskBatch, or one task of a serial
\* step.
Batch(s) == {i \in 1 .. pipe.tasks[s] : from <= i /\ i < from + pipe.width[s]}

InBatch(i) == pc = "tasks" /\ i \in Batch(Current)

SetTask(i, t) == task' = [task EXCEPT ![Current][i] = t]

\* startTask, in the task's own goroutine.
StartTask(i) ==
  /\ InBatch(i)
  /\ task[Current][i].status = "pending"
  /\ SetTask(i, [task[Current][i] EXCEPT !.status = "running"])
  /\ Broadcast(StatusEvent)
  /\ UNCHANGED <<pipe, rollback, plan, pc, phase, pos, from, step, status, phaseErr,
                 buildFailed, runErr, saved, logs, faults, viewer>>

Running(i) ==
  InBatch(i) /\ task[Current][i].status = "running" /\ task[Current][i].line = 0

\* emit of a log line: the line is stored under the next id ...
AppendLine(i) ==
  /\ Running(i) /\ logs < MaxLogs
  /\ logs' = logs + 1
  /\ SetTask(i, [task[Current][i] EXCEPT !.line = logs + 1])
  /\ UNCHANGED <<pipe, rollback, plan, pc, phase, pos, from, step, status, phaseErr,
                 buildFailed, runErr, saved, faults, sub, viewer>>

\* ... or not at all: then nothing is broadcast either.
AppendFails(i) ==
  /\ Running(i)
  /\ Fault
  /\ UNCHANGED <<pipe, rollback, plan, pc, engineVars, saved, logs, sub, viewer>>

BroadcastLine(i) ==
  /\ InBatch(i) /\ task[Current][i].line # 0
  /\ Broadcast([kind |-> "log", id |-> task[Current][i].line])
  /\ SetTask(i, [task[Current][i] EXCEPT !.line = 0])
  /\ UNCHANGED <<pipe, rollback, plan, pc, phase, pos, from, step, status, phaseErr,
                 buildFailed, runErr, saved, logs, faults, viewer>>

\* executeWithRetries and finishTask: the plugin returns.
AttemptSucceeds(i) ==
  /\ Running(i)
  /\ SetTask(i, [status |-> "success", attempts |-> task[Current][i].attempts + 1,
                 line |-> 0])
  /\ Broadcast(StatusEvent)
  /\ UNCHANGED <<pipe, rollback, plan, pc, phase, pos, from, step, status, phaseErr,
                 buildFailed, runErr, saved, logs, faults, viewer>>

Attempts(s) == pipe.retries[s] + 1

AttemptFails(i) ==
  /\ Running(i)
  /\ LET n == task[Current][i].attempts + 1
     IN  IF n < Attempts(Current)
         THEN /\ SetTask(i, [task[Current][i] EXCEPT !.attempts = n])
              /\ UNCHANGED sub
         ELSE /\ SetTask(i, [status |-> "failed", attempts |-> n, line |-> 0])
              /\ Broadcast(StatusEvent)
  /\ UNCHANGED <<pipe, rollback, plan, pc, phase, pos, from, step, status, phaseErr,
                 buildFailed, runErr, saved, logs, faults, viewer>>

BatchDone ==
  /\ pc = "tasks"
  /\ \A i \in Batch(Current) : task[Current][i].status \in {"success", "failed"}

BatchFailed == \E i \in Batch(Current) : task[Current][i].status = "failed"

\* Mistake: the batches go on and the step fails at its end.
CarryOnAfterFailure == from + pipe.width[Current] <= pipe.tasks[Current]

MoreBatches == ~BatchFailed /\ from + pipe.width[Current] <= pipe.tasks[Current]

NextBatch ==
  /\ BatchDone /\ MoreBatches
  /\ from' = from + pipe.width[Current]
  /\ UNCHANGED <<pipe, rollback, plan, pc, phase, pos, step, task, status, phaseErr,
                 buildFailed, runErr, saved, logs, faults, sub, viewer>>

FinishStep(ok) ==
  /\ BatchDone /\ ~MoreBatches
  /\ step' = [step EXCEPT ![Current] = IF BatchFailed THEN "failed" ELSE "success"]
  /\ phaseErr' = (phaseErr \/ BatchFailed)
  /\ pos' = pos + 1 /\ pc' = "step"
  /\ Notify(status, ok)
  /\ UNCHANGED <<pipe, rollback, plan, phase, from, task, status, buildFailed, runErr,
                 logs, viewer>>

\* A plugin panics in the run's own goroutine, where a serial step executes:
\* the service recovers and the run is over, its finally phase included.
Panic(i) ==
  /\ Running(i) /\ pipe.width[Current] = 1
  /\ Fault
  /\ pc' = "final" /\ status' = "failed"
  /\ UNCHANGED <<pipe, rollback, plan, phase, pos, from, step, task, phaseErr,
                 buildFailed, runErr, saved, logs, sub, viewer>>

-----------------------------------------------------------------------------
(* runPreparedProjectPipeline after the engine: save, broadcast, close.    *)

\* Mistake: the last update is taken to have saved the final record.
FinalSaveLeftOut(ok) ==
  /\ pc = "final" /\ ok
  /\ pc' = "done"
  /\ UNCHANGED <<pipe, rollback, plan, engineVars, saved, logs, faults, sub, viewer>>

FinalSave(ok) ==
  /\ pc = "final"
  /\ StoreCall(ok)
  /\ saved' = IF ok THEN status ELSE saved
  /\ pc' = "done"
  /\ UNCHANGED <<pipe, rollback, plan, engineVars, logs, sub, viewer>>

BroadcastDone ==
  /\ pc = "done"
  /\ Broadcast([kind |-> "done", id |-> 0])
  /\ pc' = "close"
  /\ UNCHANGED <<pipe, rollback, plan, engineVars, saved, logs, faults, viewer>>

\* Mistake: only the map entry goes, the channels stay open.
ForgetSubscribers ==
  sub' = [v \in Viewers |-> [sub[v] EXCEPT !.in = FALSE]]

CloseSubscribers ==
  sub' = [v \in Viewers |->
            IF sub[v].in THEN [sub[v] EXCEPT !.in = FALSE, !.closed = TRUE] ELSE sub[v]]

Close ==
  /\ pc = "close"
  /\ CloseSubscribers
  /\ pc' = "over"
  /\ UNCHANGED <<pipe, rollback, plan, engineVars, saved, logs, faults, viewer>>

\* The agent dies: the run and every connection with it.  Nothing looks for
\* runs left "running" when it starts again.
Crash ==
  /\ pc \notin {"plan", "refused", "over", "crashed"}
  /\ Fault
  /\ pc' = "crashed"
  /\ sub' = [v \in Viewers |-> Absent]
  /\ viewer' = [v \in Viewers |->
                  IF viewer[v].pc \in {"off", "ended"} THEN viewer[v]
                  ELSE [viewer[v] EXCEPT !.pc = "ended", !.end = "left"]]
  /\ UNCHANGED <<pipe, rollback, plan, engineVars, saved, logs>>

-----------------------------------------------------------------------------
(* wsRunLogs: one console connection.                                      *)

runUnchanged == UNCHANGED <<pipe, rollback, plan, pc, engineVars, saved, logs, faults>>

\* GetRun, before the subscription.
Connect(v) ==
  /\ viewer[v].pc = "off" /\ saved # "none"
  /\ viewer' = [viewer EXCEPT ![v].pc = "read", ![v].read = saved]
  /\ UNCHANGED sub /\ runUnchanged

Subscribe(v) ==
  /\ viewer[v].pc = "read"
  /\ viewer' = [viewer EXCEPT ![v].pc = "subscribed"]
  /\ sub' = [sub EXCEPT ![v].in = TRUE]
  /\ runUnchanged

\* writeRunLogReplay: every stored line.  Its pages end with a read that finds
\* nothing more, and that read is this step.  A run that was terminal when it
\* was read gets its done event at once.
Replay(v) ==
  /\ viewer[v].pc = "subscribed"
  /\ IF viewer[v].read \in Terminal
     THEN /\ viewer' = [viewer EXCEPT ![v].pc = "ended", ![v].end = "done",
                                      ![v].seen = @ \cup 1 .. logs]
          /\ sub' = [sub EXCEPT ![v] = [@ EXCEPT !.in = FALSE, !.closed = TRUE]]
     ELSE /\ viewer' = [viewer EXCEPT ![v].pc = "live", ![v].seen = @ \cup 1 .. logs]
          /\ UNCHANGED sub
  /\ runUnchanged

Receive(v) ==
  /\ viewer[v].pc = "live" /\ sub[v].chan # <<>>
  /\ LET e == Head(sub[v].chan)
     IN  /\ viewer' = [viewer EXCEPT
              ![v].seen = IF e.kind = "log" THEN @ \cup {e.id} ELSE @,
              ![v].pc = IF e.kind = "done" THEN "ended" ELSE @,
              ![v].end = IF e.kind = "done" THEN "done" ELSE @]
         /\ sub' = [sub EXCEPT ![v] =
              [in |-> @.in /\ e.kind # "done", closed |-> @.closed \/ e.kind = "done",
               chan |-> Tail(@.chan)]]
  /\ runUnchanged

ChannelClosed(v) ==
  /\ viewer[v].pc = "live" /\ sub[v].chan = <<>> /\ sub[v].closed
  /\ viewer' = [viewer EXCEPT ![v].pc = "ended", ![v].end = "closed"]
  /\ UNCHANGED sub /\ runUnchanged

\* The peer goes away, or a write or the replay's read fails.
Leave(v) ==
  /\ viewer[v].pc \in {"read", "subscribed", "live"}
  /\ viewer' = [viewer EXCEPT ![v].pc = "ended", ![v].end = "left"]
  /\ sub' = [sub EXCEPT ![v] = [@ EXCEPT !.in = FALSE, !.closed = TRUE]]
  /\ runUnchanged

-----------------------------------------------------------------------------

\* What a plugin does while it has the task: emit lines, return, panic.
PluginStep(i) ==
  AppendLine(i) \/ AppendFails(i) \/ AttemptSucceeds(i) \/ AttemptFails(i) \/ Panic(i)

TaskStep(i) == StartTask(i) \/ BroadcastLine(i) \/ PluginStep(i)

\* The service and the engine between the tasks.
Service ==
  \/ \E ok \in BOOLEAN :
       \/ Prepare(ok) \/ StartRollback(ok) \/ SkipDeploy(ok) \/ RestoreFails(ok)
       \/ SettleStep(ok) \/ FinishStep(ok) \/ EndFinally(ok) \/ FinalSave(ok)
       \/ \E registered \in BOOLEAN : AfterBuild(registered, ok)
  \/ Refuse \/ StartFails \/ StartBuild \/ EndBuild \/ RestoreArtifact \/ EndDeploy
  \/ ExecuteStep \/ NextBatch \/ BroadcastDone \/ Close

\* One step of the goroutine that executes the run, or of one of its tasks.
Engine == Service \/ \E i \in 1 .. MaxTasks : TaskStep(i)

Serve(v) == Subscribe(v) \/ Replay(v) \/ Receive(v) \/ ChannelClosed(v)

Next ==
  \/ Engine
  \/ Crash
  \/ \E v \in Viewers : Connect(v) \/ Serve(v) \/ Leave(v)

Spec == Init /\ [][Next]_vars

\* A goroutine that can run is run, and a console's reads return.  Of a plugin
\* nothing is asked: a local command has no timeout.
FairSpec ==
  /\ Spec
  /\ WF_vars(Service \/ \E i \in 1 .. MaxTasks : StartTask(i) \/ BroadcastLine(i))
  /\ \A v \in Viewers : WF_vars(Serve(v))

-----------------------------------------------------------------------------
(* Properties.                                                             *)

\* The planner accepts exactly the pipelines whose needs stay in their phase
\* and have no cycle, and the order it executes puts every step after all the
\* steps it needs.
PlanCorrect ==
  pc \in {"refused", "start"} =>
  LET valid == \A p \in Phases : /\ KnownNeeds(Declared[p], pipe.needs)
                                 /\ Acyclic(Declared[p], pipe.needs)
  IN  /\ (pc = "refused" /\ faults = 0) => ~valid
      /\ pc = "start" =>
           /\ valid
           /\ \A p \in Phases : IsDependencyOrder(plan[p], Declared[p], pipe.needs)

Started(s) == \E i \in 1 .. MaxTasks : task[s][i].attempts > 0

\* A deploy step's plugin only ever runs on an artifact: no build step failed
\* and the hook that registers what was built went well.
DeployNeedsArtifact ==
  \A s \in ToSet(plan["deploy"]) : Started(s) =>
    /\ ~buildFailed
    /\ \A b \in ToSet(plan["build"]) : step[b] # "failed"

\* The run implements DeploymentRun: whatever the batches, retries, hooks,
\* store failures, panics and crashes, the steps' recorded states and the
\* run's status in memory are an execution of the abstract one.
Abstract ==
  INSTANCE DeploymentRun WITH
    Build <- ToSet(Declared["build"]), Deploy <- ToSet(Declared["deploy"]),
    Finally <- ToSet(Declared["finally"]),
    needs <- pipe.needs, state <- step, verdict <- status

ImplementsDeploymentRun == Abstract!AbsSpec

\* A rolling step stops where it broke: once a task has failed for good, no
\* task of a later batch is ever started, and the failure has used up every
\* retry.
FailureContained ==
  \A s \in Steps : \A i \in 1 .. pipe.tasks[s] :
    task[s][i].status = "failed" =>
      /\ task[s][i].attempts = pipe.retries[s] + 1
      /\ \A j \in 1 .. pipe.tasks[s] :
           (j - 1) \div pipe.width[s] > (i - 1) \div pipe.width[s] =>
             task[s][j] = NoTask

\* The engine got through its phases: a temporary directory, no panic.
RanToEnd ==
  /\ pc \in {"final", "done", "close", "over"}
  /\ phase = "finally" /\ pos > Len(plan["finally"])

\* The verdict is the truth about the steps: when the engine is through, every
\* step is settled, a single failed step anywhere makes the run failed, and a
\* run without one fails only for a hook, whose phase was then skipped.
VerdictTrue ==
  RanToEnd =>
    /\ \A s \in Steps : step[s] \in {"success", "failed", "skipped"}
    /\ (\E s \in Steps : step[s] = "failed") => status = "failed"
    /\ (status = "failed" /\ \A s \in Steps : step[s] # "failed") =>
         \A s \in ToSet(plan["deploy"]) : step[s] = "skipped"

\* The finally steps run whatever happened before: unless the run panicked or
\* never started, each one that is usable, wanted, has a target and is not
\* blocked inside its own phase was executed.
FinallyRuns ==
  RanToEnd =>
    \A s \in ToSet(plan["finally"]) :
      (/\ pipe.usable[s] /\ pipe.runIf[s] = "run" /\ pipe.tasks[s] > 0
       /\ \A d \in pipe.needs[s] : step[d] = "success") => Started(s)

\* Subscribing before the replay closes the gap: a console that followed a
\* running run to its done event has seen every line that was stored.
NoGapBeforeDone ==
  \A v \in Viewers :
    (viewer[v].end = "done" /\ viewer[v].read = "running") =>
      viewer[v].seen = 1 .. logs

\* No plugin keeps a task for good.
PluginsReturn == \A i \in 1 .. MaxTasks : []<>~Running(i)

\* Every accepted run comes to an end if its plugins return and the agent lives:
\* its hub is closed and it has a verdict, whatever saves and log lines failed
\* and when a plugin panicked; and the record then is that verdict, unless that
\* very last save is the one that failed (nobody repeats it).
AcceptedRunSettles ==
  /\ PluginsReturn =>
       (pc = "start" ~> (pc = "crashed" \/ (pc = "over" /\ status \in Terminal)))
  /\ [][pc = "final" /\ pc' = "done" => saved' = status \/ faults' > faults]_vars

\* A console that joins the hub while the run is going on is let go: it gets
\* the done event or its channel is closed.
JoinedConsoleEnds ==
  PluginsReturn =>
    \A v \in Viewers :
      (sub[v].in /\ pc \notin {"over", "crashed"}) ~> viewer[v].pc = "ended"

\* handler_run_logs_ws.go promises no gap between replay and subscription: a
\* console that was sent done has seen every line of the run.
DoneIsComplete ==
  \A v \in Viewers : viewer[v].end = "done" => viewer[v].seen = 1 .. logs

\* The same promise for the done event itself: a console that waits has a run
\* that will still speak to it.
NobodyWaitsForNothing ==
  \A v \in Viewers :
    (viewer[v].pc = "live" /\ ~sub[v].closed /\ sub[v].chan = <<>>) => pc \notin {"over", "crashed"}
=============================================================================
