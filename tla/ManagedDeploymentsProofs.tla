---------------------- MODULE ManagedDeploymentsProofs ----------------------
(***************************************************************************)
(* TLAPS proofs about ManagedDeployments, for any deployments, log sources, *)
(* handlers and number of edits and failures.                               *)
(*                                                                         *)
(* ConfirmedSurvives rests on what a handler that nobody overlapped may     *)
(* rely on: it is the only one, so that what it wrote is still there when   *)
(* it answers.                                                              *)
(***************************************************************************)
EXTENDS ManagedDeployments, WellFoundedInduction, TLAPS

Pcs == {"free", "start", "spawn", "mark", "stop", "unmark", "save", "answer"}
Handler == [pc : Pcs, list : Lists, todo : SUBSET Deployments, overlapped : BOOLEAN]

\* Every goroutine at the lock comes from an edit.
EditsWait == waiting <= edits

\* A handler inside a loop has a deployment in hand, and starts only what its
\* list names.
WorkLeft == \A x \in Handlers : h[x].pc \in {"spawn", "mark", "unmark"} => h[x].todo # {}
WorkListed ==
  \A x \in Handlers : h[x].pc \in {"start", "spawn", "mark"} => h[x].todo \subseteq In(h[x].list)

\* A handler that nobody overlapped is alone.
Alone ==
  \A x, y \in Handlers :
    h[x].pc # "free" /\ ~h[x].overlapped /\ y # x => h[y].pc = "free"

\* What such a handler wrote is still there, in place of any list the agent
\* could not load.
Written ==
  \A x \in Handlers :
    ~h[x].overlapped =>
      /\ h[x].pc \in {"save", "answer"} => projects = h[x].list /\ ~unread
      /\ h[x].pc = "answer" => disk = h[x].list

\* A confirmed list is confirmed while no handler runs.
ConfirmedIsIdle == confirmed # Nothing => \A x \in Handlers : h[x].pc = "free"

Typed == TypeOK /\ EditsWait /\ WorkLeft /\ WorkListed
Inv == Typed /\ Alone /\ Written /\ ConfirmedIsIdle /\ ConfirmedSurvives

-----------------------------------------------------------------------------
(* Type correctness.                                                       *)

\* The next deployment of a handler's work is one of them.
LEMMA NextIsWork == ASSUME NEW S \in SUBSET Deployments, S # {} PROVE Min(S) \in S
<1>. DEFINE R == OpToRel(<, Nat)
<1>1. S \subseteq Nat BY ManagedConstants
<1>2. IsWellFoundedOn(R, Nat) BY NatLessThanWellFounded, Zenon
<1>3. \A m, n \in Nat : m < n => <<m, n>> \in R BY DEF OpToRel
<1>. HIDE DEF R
<1>4. PICK n \in S : \A m \in S : ~ (<<m, n>> \in R)
  BY <1>1, <1>2, WFMin
<1>5. \A m \in S : ~ (m < n)
  BY <1>1, <1>3, <1>4, Zenon
<1>6. \A m \in S : n <= m
  BY <1>1, <1>5
<1>. QED BY <1>6 DEF Min

LEMMA HandlerTypes ==
  ASSUME Typed
  PROVE  /\ h \in [Handlers -> Handler] /\ Free \in Handler
         /\ \A x \in Handlers :
              h[x].pc \in {"spawn", "mark", "unmark"} \/ h[x].todo # {} =>
                NextTodo(x) \in h[x].todo /\ NextTodo(x) \in Deployments
<1>1. h \in [Handlers -> Handler] BY DEF Typed, TypeOK, Handler, Pcs
<1>2. Free \in Handler BY DEF Free, Handler, Pcs, Lists, Empty
<1>3. \A x \in Handlers :
        h[x].pc \in {"spawn", "mark", "unmark"} \/ h[x].todo # {} =>
          NextTodo(x) \in h[x].todo /\ NextTodo(x) \in Deployments
  BY <1>1, NextIsWork DEF Handler, NextTodo, Typed, WorkLeft
<1>. QED BY <1>1, <1>2, <1>3

\* A step of a handler moves only its own handler, which keeps its list until
\* it is free.
LEMMA HandleEffect ==
  ASSUME Typed, NEW x \in Handlers, Handle(x)
  PROVE  /\ h' \in [Handlers -> Handler]
         /\ h[x].pc # "free"
         /\ \A y \in Handlers \ {x} : h'[y] = h[y]
         /\ \/ h'[x] = Free
            \/ /\ h'[x].pc # "free" /\ h'[x].list = h[x].list
               /\ h'[x].overlapped = h[x].overlapped
<1>. USE DEF Pcs
<1>0. h \in [Handlers -> Handler] /\ Free \in Handler
  BY HandlerTypes
<1>1. h[x].pc # "free"
  BY DEF Handle, StartCollector, SpawnCollector, MarkManaged, PlanStops, StopCollector, Unmark,
     SwapProjects, Save, Answer
<1>2. ASSUME NEW pc \in Pcs \ {"free"}, NEW todo \in SUBSET Deployments,
             \/ h' = [h EXCEPT ![x].pc = pc]
             \/ h' = [h EXCEPT ![x].todo = todo]
             \/ h' = [h EXCEPT ![x].pc = pc, ![x].todo = todo]
             \/ h' = [[h EXCEPT ![x].todo = todo] EXCEPT ![x].pc = pc]
      PROVE  /\ h' \in [Handlers -> Handler]
             /\ \A y \in Handlers \ {x} : h'[y] = h[y]
             /\ h'[x].pc # "free" /\ h'[x].list = h[x].list
             /\ h'[x].overlapped = h[x].overlapped
  <2>1. CASE h' = [h EXCEPT ![x].pc = pc]
    BY <1>0, <1>1, <2>1 DEF Handler
  <2>2. CASE h' = [h EXCEPT ![x].todo = todo]
    BY <1>0, <1>1, <2>2 DEF Handler
  <2>3. CASE h' = [h EXCEPT ![x].pc = pc, ![x].todo = todo]
    BY <1>0, <1>1, <2>3 DEF Handler
  <2>4. CASE h' = [[h EXCEPT ![x].todo = todo] EXCEPT ![x].pc = pc]
    BY <1>0, <1>1, <2>4 DEF Handler
  <2>. QED BY <1>2, <2>1, <2>2, <2>3, <2>4
<1>3. CASE StartCollector(x) \/ SpawnCollector(x) \/ MarkManaged(x) \/ StopCollector(x)
            \/ Unmark(x) \/ SwapProjects(x)
  <2>. DEFINE rest == h[x].todo \ {NextTodo(x)}
  <2>1. rest \subseteq Deployments BY <1>0 DEF Handler
  <2>2. Done(x) = [h EXCEPT ![x].todo = rest] BY DEF Done
  <2>. HIDE DEF rest
  <2>3. \E pc \in Pcs \ {"free"} :
          h' = [h EXCEPT ![x].pc = pc] \/ h' = [Done(x) EXCEPT ![x].pc = pc] \/ h' = Done(x)
    BY <1>3 DEF StartCollector, SpawnCollector, MarkManaged, StopCollector, Unmark, SwapProjects
  <2>. QED BY <1>1, <1>2, <2>1, <2>2, <2>3
<1>4. CASE PlanStops(x)
  <2>1. ToStop(h[x].list) \in SUBSET Deployments BY DEF ToStop, Typed, TypeOK
  <2>2. h' = [h EXCEPT ![x].pc = "stop", ![x].todo = ToStop(h[x].list)]
    BY <1>4 DEF PlanStops
  <2>. QED BY <1>1, <1>2, <2>1, <2>2
<1>5. CASE Save(x) \/ Answer(x)
  <2>1. CASE h' = [h EXCEPT ![x].pc = "answer"]
    BY <1>1, <1>2, <2>1
  <2>2. CASE h' = [h EXCEPT ![x] = Free]
    BY <1>0, <1>1, <2>2
  <2>. QED BY <1>5, <2>1, <2>2 DEF Save, Answer
<1>. QED BY <1>3, <1>4, <1>5 DEF Handle

\* The controller's steps and the agent's own; Taken gives a free handler its
\* list and marks everyone under way as overlapped.
LEMMA TakenEffect ==
  ASSUME Typed, NEW list \in Lists, FreeHandlers # {}, Taken(list)
  PROVE  \E x \in Handlers :
           /\ h[x].pc = "free" /\ pushing' = x
           /\ h' \in [Handlers -> Handler]
           /\ h'[x].pc = "start" /\ h'[x].list = list /\ h'[x].todo = In(list)
           /\ \A y \in Handlers \ {x} :
                /\ h'[y].pc = h[y].pc /\ h'[y].list = h[y].list /\ h'[y].todo = h[y].todo
                /\ h[y].pc # "free" => h'[y].overlapped /\ h'[x].overlapped
                /\ h[y].pc = "free" => h'[y] = h[y]
<1>0. h \in [Handlers -> Handler] BY HandlerTypes
<1>1. PICK x \in FreeHandlers :
        /\ pushing' = x
        /\ h' = [y \in Handlers |->
                   IF y = x THEN [pc |-> "start", list |-> list, todo |-> In(list),
                                  overlapped |-> Handlers \ FreeHandlers # {}]
                   ELSE IF y \in Handlers \ FreeHandlers
                        THEN [h[y] EXCEPT !.overlapped = TRUE] ELSE h[y]]
  BY Zenon DEF Taken
<1>2. x \in Handlers /\ h[x].pc = "free" BY DEF FreeHandlers
<1>3. h'[x] = [pc |-> "start", list |-> list, todo |-> In(list),
               overlapped |-> Handlers \ FreeHandlers # {}]
  BY <1>1, <1>2
<1>4. h'[x] \in Handler
  BY <1>3 DEF Handler, Pcs, In
<1>5. ASSUME NEW y \in Handlers \ {x}
      PROVE  /\ h'[y] \in Handler
             /\ h'[y].pc = h[y].pc /\ h'[y].list = h[y].list /\ h'[y].todo = h[y].todo
             /\ h[y].pc # "free" => h'[y].overlapped /\ h'[x].overlapped
             /\ h[y].pc = "free" => h'[y] = h[y]
  <2>1. CASE h[y].pc = "free"
    <3>1. h'[y] = h[y] BY <1>1, <2>1 DEF FreeHandlers
    <3>. QED BY <1>0, <2>1, <3>1
  <2>2. CASE h[y].pc # "free"
    <3>1. y \in Handlers \ FreeHandlers BY <2>2 DEF FreeHandlers
    <3>2. h'[y] = [h[y] EXCEPT !.overlapped = TRUE] BY <1>1, <3>1
    <3>3. Handlers \ FreeHandlers # {} BY <3>1
    <3>4. h'[x].overlapped
      <4>. DEFINE b == Handlers \ FreeHandlers # {}
      <4>1. h'[x] = [pc |-> "start", list |-> list, todo |-> In(list), overlapped |-> b]
        BY <1>3
      <4>2. b = TRUE BY <3>3
      <4>. HIDE DEF b
      <4>. QED BY <4>1, <4>2
    <3>. QED BY <1>0, <2>2, <3>2, <3>4 DEF Handler
  <2>. QED BY <2>1, <2>2
<1>6. DOMAIN h' = Handlers /\ h' = [y \in Handlers |-> h'[y]] BY <1>1
<1>7. h' \in [Handlers -> Handler] BY <1>4, <1>5, <1>6
<1>8. h'[x].pc = "start" /\ h'[x].list = list /\ h'[x].todo = In(list)
  BY <1>3
<1>. QED BY <1>1, <1>2, <1>5, <1>7, <1>8

\* The collectors keep their types: only what has an entry can be dead.
LEMMA CollectorTypes ==
  ASSUME Typed, NEW x \in Handlers, Handle(x)
  PROVE  items' \in Lists /\ dead' \subseteq In(items') /\ managed' \subseteq Deployments
<1>0. /\ h[x].list \in Lists /\ items \in Lists /\ dead \subseteq In(items)
      /\ managed \subseteq Deployments
  BY HandlerTypes DEF Handler, Typed, TypeOK
<1>1. CASE UNCHANGED collectors
  BY <1>0, <1>1 DEF collectors, In
<1>2. CASE StartCollector(x)
  <2>1. NextTodo(x) \in Deployments BY <1>2, HandlerTypes DEF StartCollector
  <2>2. items' \in Lists BY <1>0, <1>2, <2>1 DEF StartCollector, Lists
  <2>3. \A d \in Deployments : items[d] # Absent => items'[d] = items[d]
    BY <1>0, <1>2, <2>1 DEF StartCollector, Lists
  <2>4. dead' = dead /\ managed' = managed BY <1>2 DEF StartCollector
  <2>. QED BY <1>0, <2>2, <2>3, <2>4 DEF In
<1>3. CASE SpawnCollector(x)
  <2>. DEFINE d == NextTodo(x)
  <2>1. d \in Deployments /\ h[x].list[d] # Absent
    BY <1>3, HandlerTypes DEF SpawnCollector, Typed, WorkListed, In
  <2>. HIDE DEF d
  <2>2. CASE /\ items' = [items EXCEPT ![d] = IF @ = Absent THEN h[x].list[d] ELSE @]
             /\ dead' \in IF items[d] = Absent THEN {dead, dead \cup {d}} ELSE {dead}
    <3>1. items' \in Lists BY <1>0, <2>1, <2>2 DEF Lists
    <3>2. items'[d] # Absent /\ \A e \in Deployments \ {d} : items'[e] = items[e]
      BY <1>0, <2>1, <2>2 DEF Lists
    <3>3. dead' \subseteq dead \cup {d} BY <2>2
    <3>4. dead' \subseteq In(items') BY <1>0, <2>1, <3>2, <3>3 DEF In
    <3>. QED BY <1>0, <1>3, <3>1, <3>4 DEF SpawnCollector
  <2>3. CASE items' = [items EXCEPT ![d] = Absent] /\ dead' = dead \ {d}
    <3>1. items' \in Lists /\ \A e \in Deployments \ {d} : items'[e] = items[e]
      BY <1>0, <2>1, <2>3 DEF Lists
    <3>. QED BY <1>0, <1>3, <2>3, <3>1 DEF SpawnCollector, In
  <2>. QED BY <1>3, <2>2, <2>3 DEF SpawnCollector, d
<1>4. CASE StopCollector(x)
  <2>1. NextTodo(x) \in Deployments BY <1>4, HandlerTypes DEF StopCollector
  <2>2. items' \in Lists /\ \A e \in Deployments \ {NextTodo(x)} : items'[e] = items[e]
    BY <1>0, <1>4, <2>1 DEF StopCollector, Lists
  <2>. QED BY <1>0, <1>4, <2>2 DEF StopCollector, In
<1>5. CASE MarkManaged(x) \/ Unmark(x)
  <2>1. NextTodo(x) \in Deployments BY <1>5, HandlerTypes DEF MarkManaged, Unmark
  <2>. QED BY <1>0, <1>5, <2>1 DEF MarkManaged, Unmark, In
<1>. QED
  BY <1>1, <1>2, <1>3, <1>4, <1>5 DEF Handle, PlanStops, SwapProjects, Save, Answer

\* A handler's loops stay inside its list.
LEMMA WorkStep ==
  ASSUME Typed, NEW x \in Handlers, Handle(x)
  PROVE  WorkLeft' /\ WorkListed'
<1>0. /\ h \in [Handlers -> Handler]
      /\ \A y \in Handlers \ {x} : h'[y] = h[y]
  BY HandlerTypes, HandleEffect
<1>. SUFFICES /\ h'[x].pc \in {"spawn", "mark", "unmark"} => h'[x].todo # {}
              /\ h'[x].pc \in {"start", "spawn", "mark"} => h'[x].todo \subseteq In(h'[x].list)
  BY <1>0 DEF Typed, WorkLeft, WorkListed
<1>1. /\ h[x].pc \in {"spawn", "mark", "unmark"} => h[x].todo # {}
      /\ h[x].pc \in {"start", "spawn", "mark"} => h[x].todo \subseteq In(h[x].list)
  BY DEF Typed, WorkLeft, WorkListed
<1>2. Done(x)[x].todo = h[x].todo \ {NextTodo(x)} /\ Done(x)[x].list = h[x].list
      /\ Done(x)[x].pc = h[x].pc /\ Done(x) \in [Handlers -> Handler]
  BY <1>0 DEF Done, Handler
<1>3. ASSUME NEW pc \in {"start", "stop"}, h' = [Done(x) EXCEPT ![x].pc = pc]
      PROVE  /\ h'[x].pc = pc /\ h'[x].todo \subseteq h[x].todo /\ h'[x].list = h[x].list
  BY <1>2, <1>3 DEF Handler
<1>4. CASE StartCollector(x)
  <2>1. CASE h' = [h EXCEPT ![x].pc = "mark"] \/ h' = [h EXCEPT ![x].pc = "spawn"]
    BY <1>0, <1>1, <1>4, <2>1 DEF StartCollector, Handler
  <2>2. CASE h' = Done(x)
    BY <1>1, <1>2, <1>4, <2>2 DEF StartCollector
  <2>. QED BY <1>4, <2>1, <2>2 DEF StartCollector
<1>5. CASE SpawnCollector(x)
  <2>1. CASE h' = [h EXCEPT ![x].pc = "mark"]
    BY <1>0, <1>1, <1>5, <2>1 DEF SpawnCollector, Handler
  <2>2. CASE h' = [Done(x) EXCEPT ![x].pc = "start"]
    BY <1>1, <1>3, <1>5, <2>2 DEF SpawnCollector
  <2>. QED BY <1>5, <2>1, <2>2 DEF SpawnCollector
<1>6. CASE MarkManaged(x) \/ Unmark(x)
  BY <1>1, <1>3, <1>6 DEF MarkManaged, Unmark
<1>7. CASE PlanStops(x)
  <2>1. h'[x].pc = "stop" BY <1>0, <1>7 DEF PlanStops, Handler
  <2>. QED BY <2>1
<1>8. CASE StopCollector(x) \/ SwapProjects(x)
  BY <1>0, <1>1, <1>8 DEF StopCollector, SwapProjects, Handler
<1>9. CASE Save(x) \/ Answer(x)
  <2>1. h'[x].pc \in {"answer", "free"} BY <1>0, <1>9 DEF Save, Answer, Handler, Free
  <2>. QED BY <2>1
<1>. QED BY <1>4, <1>5, <1>6, <1>7, <1>8, <1>9 DEF Handle

\* Reconcile, by whatever it was called: the list is taken, or nothing happens.
LEMMA ReconcileEffect ==
  ASSUME Typed, Reconcile
  PROVE  /\ UNCHANGED <<desired, edits, collectors, projects, unread, disk>>
         /\ \/ FreeHandlers # {} /\ Taken(desired) /\ confirmed' = Nothing /\ faults' = faults
            \/ faults' \in 0 .. MaxFaults /\ UNCHANGED <<pushing, h, confirmed>>
BY ManagedConstants DEF Reconcile, Fault, Typed, TypeOK

\* Every step keeps the state well typed.
LEMMA TypedStep == Typed /\ [Next]_vars => Typed'
<1>. SUFFICES ASSUME Typed, [Next]_vars PROVE Typed'
  OBVIOUS
<1>0. /\ h \in [Handlers -> Handler] /\ edits \in Nat /\ waiting \in Nat /\ waiting <= edits
      /\ edits <= MaxEdits /\ MaxEdits \in Nat /\ MaxFaults \in Nat /\ faults \in 0 .. MaxFaults
      /\ TypeOK /\ WorkLeft /\ WorkListed
  BY HandlerTypes, ManagedConstants DEF Typed, TypeOK, EditsWait
<1>1. ASSUME UNCHANGED h PROVE WorkLeft' /\ WorkListed'
  BY <1>0, <1>1 DEF WorkLeft, WorkListed, In
<1>2. \A kind : Fault(kind) => faults' \in 0 .. MaxFaults
  BY <1>0 DEF Fault
<1>3. CASE Edit
  <2>1. /\ edits' \in 0 .. MaxEdits /\ waiting' \in 0 .. MaxEdits /\ waiting' <= edits'
    BY <1>0, <1>3 DEF Edit
  <2>. QED BY <1>0, <1>1, <1>3, <2>1 DEF Edit, Typed, TypeOK, EditsWait, collectors, In
<1>4. ASSUME Reconcile, waiting' \in 0 .. waiting PROVE Typed'
  <2>0. /\ UNCHANGED <<desired, edits, collectors, projects, unread, disk>>
        /\ waiting' \in 0 .. MaxEdits /\ waiting' <= edits'
    BY <1>0, <1>4, ReconcileEffect
  <2>1. CASE FreeHandlers # {} /\ Taken(desired) /\ confirmed' = Nothing /\ faults' = faults
    <3>0. desired \in Lists BY <1>0 DEF TypeOK
    <3>1. PICK x \in Handlers :
            /\ h[x].pc = "free" /\ pushing' = x
            /\ h' \in [Handlers -> Handler]
            /\ h'[x].pc = "start" /\ h'[x].list = desired /\ h'[x].todo = In(desired)
            /\ \A y \in Handlers \ {x} :
                 h'[y].pc = h[y].pc /\ h'[y].list = h[y].list /\ h'[y].todo = h[y].todo
      BY <2>1, <3>0, TakenEffect
    <3>2. WorkLeft' /\ WorkListed'
      BY <1>0, <3>1 DEF WorkLeft, WorkListed
    <3>. QED BY <1>0, <2>0, <2>1, <3>1, <3>2
         DEF Typed, TypeOK, EditsWait, Handler, Pcs, collectors, In
  <2>2. CASE faults' \in 0 .. MaxFaults /\ UNCHANGED <<pushing, h, confirmed>>
    BY <1>0, <1>1, <2>0, <2>2 DEF Typed, TypeOK, EditsWait, collectors, In
  <2>. QED BY <1>4, <2>1, <2>2, ReconcileEffect
<1>5. CASE AsyncReconcile \/ TickReconcile \/ ConnectReconcile
  BY <1>0, <1>4, <1>5 DEF AsyncReconcile, TickReconcile, ConnectReconcile
<1>6. CASE GiveUp
  BY <1>0, <1>1, <1>2, <1>6 DEF GiveUp, Typed, TypeOK, EditsWait, collectors, In
<1>7. ASSUME NEW x \in Handlers, Handle(x) PROVE Typed'
  <2>1. items' \in Lists /\ dead' \subseteq In(items') /\ managed' \subseteq Deployments
    BY <1>7, CollectorTypes
  <2>2. h' \in [Handlers -> Handler] /\ h[x].list \in Lists
    BY <1>0, <1>7, HandleEffect DEF Handler
  <2>3. WorkLeft' /\ WorkListed' BY <1>7, WorkStep
  <2>4. /\ UNCHANGED <<desired, edits, waiting>> /\ faults' \in 0 .. MaxFaults
        /\ pushing' \in Handlers \cup {Nothing} /\ projects' \in Lists /\ unread' \in BOOLEAN /\ disk' \in Lists
        /\ confirmed' \in Lists \cup {Nothing}
    BY <1>0, <1>2, <1>7, <2>2 DEF TypeOK, Handle, StartCollector, SpawnCollector, MarkManaged,
       PlanStops, StopCollector, Unmark, SwapProjects, Save, Answer, handlerOnly, controller
  <2>. QED BY <1>0, <2>1, <2>2, <2>3, <2>4 DEF Typed, TypeOK, EditsWait, Handler, Pcs
<1>8. CASE Restart
  <2>1. h' \in [Handlers -> Handler] /\ \A x \in Handlers : h'[x].pc = "free"
    BY <1>8, HandlerTypes DEF Restart, Free
  <2>2. WorkLeft' /\ WorkListed' BY <2>1 DEF WorkLeft, WorkListed
  <2>3. items' \in Lists /\ dead' \subseteq In(items') /\ managed' \subseteq Deployments
    <3>0. projects' \in Lists BY <1>0, <1>8 DEF Restart, Loaded, TypeOK, Empty, Lists
    <3>. QED BY <1>0, <1>8, <3>0 DEF Restart, TypeOK, Lists, In
  <2>4. projects' \in Lists /\ unread' \in BOOLEAN
    BY <1>0, <1>8 DEF Restart, Loaded, TypeOK, Empty, Lists
  <2>. QED BY <1>0, <1>2, <1>8, <2>1, <2>2, <2>3, <2>4
       DEF Restart, Typed, TypeOK, EditsWait, Handler, Pcs
<1>9. CASE CollectorExits
  BY <1>0, <1>1, <1>2, <1>9 DEF CollectorExits, Typed, TypeOK, EditsWait, controller, In
<1>10. CASE UNCHANGED vars
  BY <1>0, <1>1, <1>10 DEF vars, controller, collectors, Typed, TypeOK, EditsWait, In
<1>. QED BY <1>3, <1>5, <1>6, <1>7, <1>8, <1>9, <1>10 DEF Next

-----------------------------------------------------------------------------
(* The confirmed list.                                                     *)

Settled == Alone /\ Written /\ ConfirmedIsIdle /\ ConfirmedSurvives

\* Taking up a push overlaps everyone under way and forgets the confirmation.
LEMMA TakenSettles ==
  ASSUME Inv, FreeHandlers # {}, Taken(desired), confirmed' = Nothing,
         UNCHANGED <<projects, unread, disk>>
  PROVE  Settled'
<1>0. Typed /\ desired \in Lists /\ Alone /\ Written BY DEF Inv, Typed, TypeOK
<1>1. PICK x \in Handlers :
        /\ h[x].pc = "free" /\ h'[x].pc = "start"
        /\ \A y \in Handlers \ {x} :
             /\ h'[y].pc = h[y].pc
             /\ h[y].pc # "free" => h'[y].overlapped /\ h'[x].overlapped
             /\ h[y].pc = "free" => h'[y] = h[y]
  BY <1>0, TakenEffect
<1>2. Alone' BY <1>1 DEF Alone
<1>3. Written' BY <1>1 DEF Written
<1>4. ConfirmedIsIdle' /\ ConfirmedSurvives' BY DEF ConfirmedIsIdle, ConfirmedSurvives
<1>. QED BY <1>2, <1>3, <1>4 DEF Settled

\* A handler writes only for itself: nobody it could disturb was not overlapped.
LEMMA HandleSettles ==
  ASSUME Inv, NEW x \in Handlers, Handle(x)
  PROVE  Settled'
<1>0. Typed /\ Alone /\ Written /\ ConfirmedIsIdle /\ h \in [Handlers -> Handler]
  BY HandlerTypes DEF Inv
<1>1. /\ h[x].pc # "free"
      /\ \A y \in Handlers \ {x} : h'[y] = h[y]
      /\ \/ h'[x] = Free
         \/ /\ h'[x].pc # "free" /\ h'[x].list = h[x].list
            /\ h'[x].overlapped = h[x].overlapped
  BY <1>0, HandleEffect
<1>2. Free.pc = "free" BY DEF Free
<1>3. confirmed = Nothing BY <1>0, <1>1 DEF ConfirmedIsIdle
<1>4. \A y \in Handlers \ {x} : h[y].pc # "free" => h[y].overlapped
  BY <1>0, <1>1 DEF Alone
<1>5. Alone' BY <1>0, <1>1, <1>2, <1>4 DEF Alone
<1>6. Written'
  <2>1. \A y \in Handlers \ {x} : h'[y].pc \in {"save", "answer"} => h'[y].overlapped
    BY <1>1, <1>4
  <2>. SUFFICES ASSUME ~h'[x].overlapped, h'[x].pc # "free"
                PROVE  /\ h'[x].pc \in {"save", "answer"} => projects' = h'[x].list /\ ~unread'
                       /\ h'[x].pc = "answer" => disk' = h'[x].list
    BY <1>2, <2>1 DEF Written
  <2>2. h'[x].list = h[x].list /\ ~h[x].overlapped BY <1>1, <1>2
  <2>3. CASE SwapProjects(x)
    <3>1. h'[x].pc = "save" BY <1>0, <2>3 DEF SwapProjects, Handler
    <3>. QED BY <2>2, <2>3, <3>1 DEF SwapProjects
  <2>4. CASE Save(x)
    <3>1. disk' = h[x].list /\ UNCHANGED <<projects, unread>> /\ h[x].pc = "save"
      BY <1>0, <1>2, <2>4 DEF Save
    <3>. QED BY <1>0, <2>2, <3>1 DEF Written
  <2>5. CASE ~SwapProjects(x) /\ ~Save(x)
    <3>1. h'[x].pc \notin {"save", "answer"}
      <4>1. CASE Answer(x) BY <1>0, <1>2, <4>1 DEF Answer
      <4>2. CASE PlanStops(x) BY <1>0, <4>2 DEF PlanStops, Handler
      <4>3. CASE StopCollector(x) BY <1>0, <4>3 DEF StopCollector, Handler
      <4>4. Done(x) \in [Handlers -> Handler] /\ Done(x)[x].pc = h[x].pc
        BY <1>0 DEF Done, Handler
      <4>5. CASE StartCollector(x) BY <1>0, <4>4, <4>5 DEF StartCollector, Handler
      <4>6. CASE SpawnCollector(x) BY <1>0, <4>4, <4>6 DEF SpawnCollector, Handler
      <4>7. CASE MarkManaged(x) \/ Unmark(x) BY <4>4, <4>7 DEF MarkManaged, Unmark, Handler
      <4>. QED BY <2>5, <4>1, <4>2, <4>3, <4>5, <4>6, <4>7 DEF Handle
    <3>. QED BY <3>1
  <2>. QED BY <2>3, <2>4, <2>5
<1>7. ConfirmedIsIdle' /\ ConfirmedSurvives'
  <2>1. CASE Answer(x) /\ confirmed' # confirmed
    <3>1. confirmed' = h[x].list /\ ~h[x].overlapped /\ h[x].pc = "answer" /\ h'[x] = Free
          /\ UNCHANGED <<projects, unread, disk>>
      BY <1>0, <1>3, <2>1 DEF Answer
    <3>2. \A y \in Handlers : h'[y].pc = "free"
      BY <1>1, <1>2, <1>4, <3>1, <1>0 DEF Alone
    <3>3. projects = h[x].list /\ ~unread /\ disk = h[x].list
      BY <1>0, <3>1 DEF Written
    <3>. QED BY <3>1, <3>2, <3>3 DEF ConfirmedIsIdle, ConfirmedSurvives
  <2>2. CASE confirmed' = confirmed
    BY <1>3, <2>2 DEF ConfirmedIsIdle, ConfirmedSurvives
  <2>. QED
    BY <2>1, <2>2 DEF Handle, StartCollector, SpawnCollector, MarkManaged, PlanStops,
       StopCollector, Unmark, SwapProjects, Save, handlerOnly
<1>. QED BY <1>5, <1>6, <1>7 DEF Settled

\* Every step keeps what is said of the confirmed list.
LEMMA SettledStep == Inv /\ [Next]_vars => Settled'
<1>. SUFFICES ASSUME Inv, [Next]_vars PROVE Settled'
  OBVIOUS
<1>1. CASE UNCHANGED <<h, projects, unread, disk, confirmed>>
  BY <1>1 DEF Inv, Settled, Alone, Written, ConfirmedIsIdle, ConfirmedSurvives
<1>2. ASSUME Reconcile PROVE Settled'
  BY <1>1, <1>2, ReconcileEffect, TakenSettles DEF Inv
<1>3. CASE Restart
  <2>1. /\ \A x \in Handlers : h'[x].pc = "free"
        /\ projects' \in {disk, Empty} /\ unread' = (projects' # disk)
        /\ disk' = disk /\ confirmed' = confirmed
    BY <1>3 DEF Restart, Loaded, Free
  <2>. QED BY <2>1 DEF Inv, Settled, Alone, Written, ConfirmedIsIdle, ConfirmedSurvives
<1>. QED
  BY <1>1, <1>2, <1>3, HandleSettles DEF Next, vars, Edit, AsyncReconcile, TickReconcile,
     ConnectReconcile, GiveUp, CollectorExits

-----------------------------------------------------------------------------
(* The theorems.                                                           *)

\* Inv holds initially and is kept by every step.
THEOREM Invariance == Spec => []Inv
<1>1. Init => Inv
  <2>. SUFFICES ASSUME Init PROVE Inv
    OBVIOUS
  <2>1. Empty \in Lists BY DEF Empty, Lists
  <2>2. Free \in Handler /\ Free.pc = "free" BY <2>1 DEF Free, Handler, Pcs
  <2>3. Typed
    <3>1. 0 \in 0 .. MaxEdits /\ 0 \in 0 .. MaxFaults BY ManagedConstants
    <3>2. \A x \in Handlers : h[x] = Free BY DEF Init
    <3>3. h \in [Handlers -> Handler] BY <2>2 DEF Init
    <3>4. TypeOK BY <2>1, <3>1, <3>3 DEF Init, TypeOK, Handler, Pcs
    <3>. QED BY <2>2, <3>2, <3>4 DEF Init, Typed, EditsWait, WorkLeft, WorkListed
  <2>4. Alone /\ Written /\ ConfirmedIsIdle /\ ConfirmedSurvives
    BY <2>2 DEF Init, Alone, Written, ConfirmedIsIdle, ConfirmedSurvives
  <2>. QED BY <2>3, <2>4 DEF Inv
<1>2. Inv /\ [Next]_vars => Inv'
  BY TypedStep, SettledStep DEF Inv, Settled
<1>. QED BY <1>1, <1>2, PTL DEF Spec

\* The controller's list, the handlers, the collectors and the file keep their
\* types; a collector that ended still has its entry (reconcile.go, manager.go).
THEOREM TypeCorrect == Spec => []TypeOK
<1>1. Inv => TypeOK BY DEF Inv, Typed
<1>. QED BY <1>1, Invariance, PTL

\* What putManagedDeployments answered with 200, to a push no other handler
\* overlapped, stays in the file through any number of restarts until the next
\* push, and is what the agent runs by; an agent that could not load the file
\* runs by the empty list, and only until a handler brings it another.
THEOREM ConfirmedIsKept == Spec => []ConfirmedSurvives
<1>1. Inv => ConfirmedSurvives BY DEF Inv
<1>. QED BY <1>1, Invariance, PTL
=============================================================================
