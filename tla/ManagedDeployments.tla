------------------------- MODULE ManagedDeployments -------------------------
(***************************************************************************)
(* The deployments a controller wants on one remote host, and what the     *)
(* host's agent makes of them.  The controller (agent/api/                 *)
(* host_deployment_reconciler.go) pushes the whole list whenever a project *)
(* changes, a tunnel connects or the ticker fires, one push at a time; the *)
(* agent (handler_managed_deployments.go, managed_deployments.go) adjusts  *)
(* its log collectors (collector/reconcile.go, collector/manager.go),      *)
(* replaces its projects and saves the list (managed_store.go), which a    *)
(* restarted agent begins with.                                            *)
(*                                                                         *)
(* The controller may give up on a push whose handler is still running, so *)
(* handlers overlap; each of their steps is what one of the agent's locks  *)
(* covers.  A deployment is its number and the log source its collector    *)
(* reads.                                                                  *)
(***************************************************************************)
EXTENDS Integers, FiniteSets, FiniteSetsExt

CONSTANTS
  Deployments,  \* numbers, in the order of the sorted list
  Sources,      \* log sources
  Absent,       \* the deployment is not in the list, or has no collector
  Nothing,      \* no list
  Handlers,     \* bound: PUT handlers at once
  MaxEdits,     \* bound: changes of the projects
  MaxFaults,    \* bound: failures of any kind
  Kinds         \* the failures that happen

ASSUME ManagedConstants ==
  /\ Deployments \subseteq Nat /\ IsFiniteSet(Deployments)
  /\ Absent \notin Sources /\ IsFiniteSet(Handlers)
  /\ MaxEdits \in Nat /\ MaxFaults \in Nat
  /\ Kinds \subseteq {"unreachable", "timeout", "restart", "unreadable", "probe", "spawn",
                "save", "exit"}

Lists == [Deployments -> Sources \cup {Absent}]
Empty == [d \in Deployments |-> Absent]
In(list) == {d \in Deployments : list[d] # Absent}

VARIABLES
  desired,    \* DesiredForHost of the controller's projects
  edits, faults,
  waiting,    \* goroutines of reconcileProjectsAsync at the host's lock
  pushing,    \* the handler the lock's holder waits for, or Nothing
  h,          \* the agent's PUT handlers
  items,      \* collector.items: what each collector reads
  dead,       \* collectors whose process has ended
  managed,    \* collector.managed
  projects,   \* the list behind App.projects
  unread,     \* history: the agent came up without its file, and no list has
              \* taken the place of the empty one since
  disk,       \* managed-deployments.json
  confirmed   \* the list of an answered push, until a newer handler or list runs

controller == <<desired, edits, waiting, pushing>>
collectors == <<items, dead, managed>>
vars == <<controller, faults, h, collectors, projects, unread, disk, confirmed>>

Free == [pc |-> "free", list |-> Empty, todo |-> {}, overlapped |-> FALSE]

TypeOK ==
  /\ desired \in Lists /\ edits \in 0 .. MaxEdits /\ faults \in 0 .. MaxFaults
  /\ waiting \in 0 .. MaxEdits /\ pushing \in Handlers \cup {Nothing}
  /\ h \in [Handlers -> [pc : {"free", "start", "spawn", "mark", "stop", "unmark", "save",
                                "answer"},
                         list : Lists, todo : SUBSET Deployments, overlapped : BOOLEAN]]
  /\ items \in Lists /\ dead \subseteq In(items) /\ managed \subseteq Deployments
  /\ projects \in Lists /\ unread \in BOOLEAN /\ disk \in Lists
  /\ confirmed \in Lists \cup {Nothing}

\* A fresh agent, and a controller whose projects do not name the host yet.
Init ==
  /\ desired = Empty /\ edits = 0 /\ faults = 0 /\ waiting = 0 /\ pushing = Nothing
  /\ h = [x \in Handlers |-> Free]
  /\ items = Empty /\ dead = {} /\ managed = {} /\ projects = Empty /\ disk = Empty
  /\ unread = FALSE /\ confirmed = Nothing

Fault(kind) == kind \in Kinds /\ faults < MaxFaults /\ faults' = faults + 1

-----------------------------------------------------------------------------
(* The controller.                                                         *)

\* A project is added, changed or removed; reconcileProjectsAsync goes to every
\* host that the old or the new version names.
Edit ==
  /\ edits < MaxEdits /\ edits' = edits + 1
  /\ \E list \in Lists \ {desired} : desired' = list
  /\ waiting' = waiting + 1
  /\ UNCHANGED <<faults, pushing, h, collectors, projects, unread, disk, confirmed>>

FreeHandlers == {x \in Handlers : h[x].pc = "free"}

\* The agent takes up a PUT.
Taken(list) ==
  LET x == CHOOSE x \in FreeHandlers : TRUE
      busy == Handlers \ FreeHandlers
  IN  /\ pushing' = x
      /\ h' = [y \in Handlers |->
                 IF y = x THEN [pc |-> "start", list |-> list, todo |-> In(list),
                                overlapped |-> busy # {}]
                 ELSE IF y \in busy THEN [h[y] EXCEPT !.overlapped = TRUE] ELSE h[y]]

\* Reconcile: the lock is free, the list is read and sent; or the host cannot be
\* reached.
Reconcile ==
  /\ pushing = Nothing
  /\ \/ FreeHandlers # {} /\ Taken(desired) /\ confirmed' = Nothing /\ UNCHANGED faults
     \/ Fault("unreachable") /\ UNCHANGED <<pushing, h, confirmed>>
  /\ UNCHANGED <<desired, edits, collectors, projects, unread, disk>>

\* The goroutine of an edit.
AsyncReconcile == waiting > 0 /\ Reconcile /\ waiting' = waiting - 1

\* remoteDeploymentHostIDs: the ticker only visits hosts that a project names.
Named == desired # Empty

\* ReconcileAll, at the start and every 30 seconds.
TickReconcile == Named /\ Reconcile /\ UNCHANGED waiting

\* A tunnel to the host connects.
ConnectReconcile == Reconcile /\ UNCHANGED waiting

\* The controller gives up on a push, or its connection breaks; the handler
\* does not notice.
GiveUp ==
  /\ pushing # Nothing /\ Fault("timeout")
  /\ pushing' = Nothing
  /\ UNCHANGED <<desired, edits, waiting, h, collectors, projects, unread, disk, confirmed>>

-----------------------------------------------------------------------------
(* collector.Manager.Reconcile.                                            *)

NextTodo(x) == Min(h[x].todo)
Done(x) == [h EXCEPT ![x].todo = @ \ {NextTodo(x)}]
handlerOnly == UNCHANGED <<controller, projects, unread, disk, confirmed>>

\* startWithOptionsAs for the next deployment: its source has to exist; a
\* collector that exists stays, whatever it reads; a new one is entered ...
StartCollector(x) ==
  /\ h[x].pc = "start" /\ h[x].todo # {}
  /\ LET d == NextTodo(x)
     IN  \/ /\ items[d] # Absent /\ h' = [h EXCEPT ![x].pc = "mark"]
            /\ UNCHANGED <<items, faults>>
         \/ /\ items[d] = Absent /\ items' = [items EXCEPT ![d] = h[x].list[d]]
            /\ h' = [h EXCEPT ![x].pc = "spawn"]
            /\ UNCHANGED faults
         \/ Fault("probe") /\ h' = Done(x) /\ UNCHANGED items
  /\ UNCHANGED <<dead, managed>> /\ handlerOnly

\* ... its process is started, and it is written once more: a collector that was
\* stopped in between is back, with its process or without; or the process does
\* not start and the collector goes ...
SpawnCollector(x) ==
  /\ h[x].pc = "spawn"
  /\ LET d == NextTodo(x)
     IN  \/ /\ items' = [items EXCEPT ![d] = IF @ = Absent THEN h[x].list[d] ELSE @]
            /\ dead' \in IF items[d] = Absent THEN {dead, dead \cup {d}} ELSE {dead}
            /\ h' = [h EXCEPT ![x].pc = "mark"]
            /\ UNCHANGED faults
         \/ /\ Fault("spawn")
            /\ items' = [items EXCEPT ![d] = Absent] /\ dead' = dead \ {d}
            /\ h' = [Done(x) EXCEPT ![x].pc = "start"]
  /\ UNCHANGED managed /\ handlerOnly

\* ... and is taken over under a lock of its own.
MarkManaged(x) ==
  /\ h[x].pc = "mark"
  /\ managed' = managed \cup {NextTodo(x)}
  /\ h' = [Done(x) EXCEPT ![x].pc = "start"]
  /\ UNCHANGED <<faults, items, dead>> /\ handlerOnly

\* Mistake: the collectors the list leaves out are never looked for.
NobodyToStop(list) == {}

\* toStop: the managed collectors the list leaves out.
ToStop(list) == managed \ In(list)

PlanStops(x) ==
  /\ h[x].pc = "start" /\ h[x].todo = {}
  /\ h' = [h EXCEPT ![x].pc = "stop", ![x].todo = ToStop(h[x].list)]
  /\ UNCHANGED <<faults, collectors>> /\ handlerOnly

\* Stop takes the collector out ...
StopCollector(x) ==
  /\ h[x].pc = "stop" /\ h[x].todo # {}
  /\ LET d == NextTodo(x)
     IN  items' = [items EXCEPT ![d] = Absent] /\ dead' = dead \ {d}
  /\ h' = [h EXCEPT ![x].pc = "unmark"]
  /\ UNCHANGED <<faults, managed>> /\ handlerOnly

\* ... and Reconcile lets go of it.
Unmark(x) ==
  /\ h[x].pc = "unmark"
  /\ managed' = managed \ {NextTodo(x)}
  /\ h' = [Done(x) EXCEPT ![x].pc = "stop"]
  /\ UNCHANGED <<faults, items, dead>> /\ handlerOnly

-----------------------------------------------------------------------------
(* putManagedDeployments after the collectors.                             *)

SwapProjects(x) ==
  /\ h[x].pc = "stop" /\ h[x].todo = {}
  /\ projects' = h[x].list /\ unread' = FALSE
  /\ h' = [h EXCEPT ![x].pc = "save"]
  /\ UNCHANGED <<controller, faults, collectors, disk, confirmed>>

\* Mistake: the file is left as it was.
SkipSave(x) ==
  /\ h[x].pc = "save" /\ h' = [h EXCEPT ![x].pc = "answer"]
  /\ UNCHANGED <<controller, faults, collectors, projects, unread, disk, confirmed>>

\* ManagedStore.Save, and the answer 200 or 500.
Save(x) ==
  /\ h[x].pc = "save"
  /\ \/ /\ disk' = h[x].list /\ h' = [h EXCEPT ![x].pc = "answer"]
        /\ UNCHANGED <<faults, pushing>>
     \/ /\ Fault("save") /\ h' = [h EXCEPT ![x] = Free]
        /\ pushing' = IF pushing = x THEN Nothing ELSE pushing
        /\ UNCHANGED disk
  /\ UNCHANGED <<desired, edits, waiting, collectors, projects, unread, confirmed>>

\* The answer reaches the controller if it still waits.
Answer(x) ==
  /\ h[x].pc = "answer"
  /\ h' = [h EXCEPT ![x] = Free]
  /\ IF pushing = x
     THEN /\ pushing' = Nothing
          /\ confirmed' = IF h[x].overlapped THEN Nothing ELSE h[x].list
     ELSE UNCHANGED <<pushing, confirmed>>
  /\ UNCHANGED <<desired, edits, waiting, faults, collectors, projects, unread, disk>>

Handle(x) ==
  \/ StartCollector(x) \/ SpawnCollector(x) \/ MarkManaged(x) \/ PlanStops(x)
  \/ StopCollector(x) \/ Unmark(x) \/ SwapProjects(x) \/ Save(x) \/ Answer(x)

-----------------------------------------------------------------------------
(* The agent.                                                              *)

\* What the file is loaded as: one that cannot be read or parsed is an empty
\* list, and stays as it is.
Loaded == {disk} \cup (IF "unreadable" \in Kinds THEN {Empty} ELSE {})

\* A crash ends every handler and collector; loadManagedDeployments applies the
\* loaded list before the agent serves requests.
Restart ==
  /\ Fault("restart")
  /\ h' = [x \in Handlers |-> Free] /\ pushing' = Nothing
  /\ projects' \in Loaded /\ unread' = (projects' # disk)
  /\ managed' \in SUBSET In(projects')
  /\ items' = [d \in Deployments |-> IF d \in managed' THEN projects'[d] ELSE Absent]
  /\ dead' = {}
  /\ UNCHANGED <<desired, edits, waiting, disk, confirmed>>

\* The process of a collector ends; the collector stays in items.
CollectorExits ==
  /\ Fault("exit")
  /\ \E d \in In(items) \ dead :
       /\ \A x \in Handlers : h[x].pc = "spawn" => NextTodo(x) # d
       /\ dead' = dead \cup {d}
  /\ UNCHANGED <<controller, h, items, managed, projects, unread, disk, confirmed>>

Next ==
  \/ Edit \/ AsyncReconcile \/ TickReconcile \/ ConnectReconcile \/ GiveUp
  \/ \E x \in Handlers : Handle(x)
  \/ Restart \/ CollectorExits

Spec == Init /\ [][Next]_vars

\* Goroutines and handlers run and the ticker fires; nothing makes projects
\* change, tunnels connect or anything fail.
FairSpec ==
  /\ Spec
  /\ WF_vars(AsyncReconcile) /\ SF_vars(TickReconcile)
  /\ \A x \in Handlers : WF_vars(Handle(x))

-----------------------------------------------------------------------------
(* Properties.                                                             *)

\* What the controller was told is applied and persisted stays in the file, and
\* is what the agent runs by, after any number of restarts, until the next push
\* (putManagedDeployments, loadManagedDeployments).  Two exceptions: pushes whose
\* handlers overlap are not covered, and an agent that cannot load its file runs
\* by nothing at all until a handler brings it a list.
ConfirmedSurvives ==
  confirmed # Nothing =>
    /\ disk = confirmed
    /\ projects = IF unread THEN Empty ELSE confirmed

\* While the host is named by a project, the agent's projects, its saved list
\* and the collectors it takes for its own become what is desired and stay so,
\* each with a collector in place, whatever pushes were lost, late, overlapping
\* or cut short (Reconcile, ReconcileAll).  If no two handlers ever overlapped
\* there is no other collector either.
ListsConverge ==
  <>[](desired # Empty) =>
    /\ <>[](/\ projects = desired /\ disk = desired
            /\ managed = In(desired) /\ In(desired) \subseteq In(items))
    /\ [](\A x \in Handlers : ~h[x].overlapped) => <>[](In(items) = In(desired))

-----------------------------------------------------------------------------
(* What comments promise and the code does not keep.                       *)

\* No collector is left over that Reconcile has lost sight of, overlapping
\* handlers included (collector.Manager.Reconcile).
NoStrayCollector == <>[](desired # Empty) => <>[](In(items) = In(desired))

\* A host that no project names any more stops collecting (reconcileProjectsAsync).
EmptiedHostCleared == <>[](desired = Empty) => <>[](In(items) = {})

\* A collector reads what its deployment names (collector.Manager.Reconcile).
SourceFollowed == <>[](desired # Empty) => <>[](items = desired)

\* A collector that ended is started again by the next push.
CollectorsRevive == <>[](desired # Empty) => []<>(dead = {})

\* The list an idle agent would restart with is the one it runs by
\* (putManagedDeployments).
ListsAgree == FreeHandlers = Handlers => projects = disk
=============================================================================
