------------------------ MODULE ProcessManagerProofs ------------------------
(***************************************************************************)
(* TLAPS proofs about ProcessManager, for any number of requests of any     *)
(* kind and with or without readiness probes.                               *)
(*                                                                         *)
(* Nothing serialises the handlers: requests run beside each other as they  *)
(* like, and beside the reconcile loop, the goroutines that wait for the    *)
(* children of this and of earlier generations, their probes, and the       *)
(* processes themselves.  What a request achieved stays true for one that   *)
(* had no other beside it while it ran (overlapped is FALSE), whatever      *)
(* overlaps later; ProcessManager_orphan.cfg refutes it for the others.     *)
(***************************************************************************)
EXTENDS ProcessManager, TLAPS

\* A group that a Reconcile found dead is dead for good.
LooksAreTrue ==
  \A a \in Actors :
    /\ rec[a].group = "dead" => rec[a].r \in Calls /\ proc[rec[a].r] = "dead"
    /\ rec[a].group = "alive" => rec[a].r \in Calls

\* The goroutine that waits for a child has got as far as the child has.
WaitersFollow ==
  \A c \in Calls :
    /\ waiter[c].pc = "none" <=> proc[c] \in {"none", "up"}
    /\ waiter[c].pc = "gone" => proc[c] = "dead"

Preparing == {"idle", "read", "apply", "forget", "reflush", "bump", "detach", "kill", "stopped",
              "unrecord", "ready", "reread", "reapply", "check", "starting", "advance", "register"}

\* A request has no child before it spawned one, and no runner before it
\* registered it.
Unspawned ==
  \A c \in Calls :
    /\ call[c].pc \in Preparing \cup {"spawn", "spawnFailed"} => proc[c] = "none"
    /\ call[c].pc \in Preparing => runner # c

\* A Stop holds its victim until it has killed it.
VictimsHeld == \A c \in Calls : call[c].victim # NoOne => call[c].pc = "kill"

\* A stop request takes none of the steps of a start.
StopsOnly ==
  \A c \in Calls :
    call[c].kind = "stop" /\ call[c].pc \in Active =>
      call[c].pc \in {"read", "apply", "forget", "reflush", "bump", "detach", "kill", "stopped",
                      "unrecord", "flush"}

Inv == TypeOK /\ LooksAreTrue /\ WaitersFollow /\ Unspawned /\ VictimsHeld /\ StopsOnly

-----------------------------------------------------------------------------
(* Requests beside each other.                                              *)

\* A request that no other has run beside is the only one under way.
Alone == \A a, b \in Busy : ~call[a].overlapped => a = b

\* Where such a request finds the map empty, and where it holds its own runner.
RunnerByStep ==
  \A c \in Calls :
    ~call[c].overlapped =>
      /\ call[c].pc \in {"starting", "advance", "register", "kill", "stopped"} => runner = NoOne
      /\ call[c].pc \in {"spawn", "spawnFailed"} => runner = c
      /\ call[c].pc \in {"register", "spawn", "alive"} => call[c].gen = gen

\* Nobody is about to put another runner in the place of one that was put there
\* by a request of its own.
KeepsItsPlace ==
  \A c, d \in Calls :
    runner = c /\ ~call[c].overlapped /\ d # c =>
      call[d].pc \notin {"starting", "advance", "register"}

\* What a stop has achieved when it ends, and what stays so: no runner of an
\* earlier request in the map, ...
StopReaches ==
  \A c \in Calls : ~call[c].overlapped =>
    /\ \A d \in Calls :
         call[d].kind = "stop" /\ call[d].pc \in {"kill", "stopped", "unrecord", "flush"} =>
           runner # c
    /\ Stopped => runner # c

\* ... and, for one of its own, none at all, and no verdict but its own or that
\* of a late probe.
StopHolds ==
  \A c \in Calls :
    call[c].kind = "stop" /\ ~call[c].overlapped
    /\ (call[c].pc \in {"unrecord", "flush"} \/ (Busy = {} /\ last.done = c)) =>
      runner = NoOne /\ (status = "stopped" \/ last.late)

\* The generations of the starts, and those of the probes: a stop has put them
\* all behind.
Generations ==
  /\ \A c \in Calls : call[c].gen <= gen
  /\ \A c, d \in Calls :
       call[c].kind = "stop" /\ ~call[c].overlapped
       /\ (call[c].pc \in {"detach", "kill", "stopped", "unrecord", "flush"}
           \/ (Busy = {} /\ last.done = c))
       /\ probe[d] # "none" => call[d].gen # gen

\* While a deployment is starting, the map holds a runner, but for the moments
\* in which a request is about to put one in or has just taken one out.
StartingHolds ==
  /\ status = "starting" =>
       runner # NoOne \/ \E c \in Calls : call[c].pc \in {"advance", "register", "kill", "stopped"}
  /\ \A c \in Calls :
       call[c].pc = "alive" /\ ~call[c].overlapped /\ status = "starting" => runner = c
  /\ runner # NoOne =>
       proc[runner] # "none" \/ call[runner].pc \in {"spawn", "spawnFailed"}

\* The request that wrote "starting", and that no other start is on its way.
StarterIsKnown ==
  status = "starting" =>
    /\ last.starter \in Calls /\ call[last.starter].pc # "idle"
    /\ ~call[last.starter].overlapped =>
         \A d \in Calls \ {last.starter} :
           call[d].pc \notin {"starting", "advance", "register", "spawn", "spawnFailed", "alive",
                             "running"}

FullInv ==
  Inv /\ Alone /\ RunnerByStep /\ KeepsItsPlace /\ NoOrphan /\ StopReaches /\ StopHolds
  /\ Generations /\ StartingHolds /\ StarterIsKnown /\ StartingIsAttended

-----------------------------------------------------------------------------
(* Type correctness, and what every handler step has in common.             *)

\* A request moves to another pc and changes nothing else of itself.
LEMMA GoToEffect ==
  ASSUME TypeOK, NEW c \in Calls, NEW pc \in Pcs, GoTo(c, pc)
  PROVE  /\ call' \in [Calls -> CallState]
         /\ call'[c].pc = pc /\ call'[c].kind = call[c].kind /\ call'[c].gen = call[c].gen
         /\ call'[c].victim = call[c].victim /\ call'[c].overlapped = call[c].overlapped
         /\ \A d \in Calls \ {c} : call'[d] = call[d]
BY DEF TypeOK, GoTo, CallState

\* What a Reconcile reads has its type and tells the truth about a dead group.
LEMMA ReadType ==
  ASSUME TypeOK, LooksAreTrue, NEW a \in Actors, ReconcileRead(a), proc' = proc
  PROVE  rec' \in [Actors -> Reading] /\ LooksAreTrue'
<1>. DEFINE look == IF ~Spawned(runner) THEN "none" ELSE IF Alive(runner) THEN "alive" ELSE "dead"
            clean == runner # NoOne /\ Exited(runner) /\ waiter[runner].ok
            read == [r |-> runner, bg |-> backgrounded, group |-> look, clean |-> clean]
<1>0. rec \in [Actors -> Reading] /\ runner \in Runner /\ backgrounded \in BOOLEAN
  BY DEF TypeOK
<1>1. clean \in BOOLEAN OBVIOUS
<1>2. /\ look \in {"none", "alive", "dead"}
      /\ look = "dead" => runner \in Calls /\ proc[runner] = "dead"
      /\ look = "alive" => runner \in Calls
  BY DEF Spawned, Alive, TypeOK, Runner
<1>3. rec' = [rec EXCEPT ![a] = read] BY DEF ReconcileRead
<1>. HIDE DEF look, clean
<1>4. read \in Reading BY <1>0, <1>1, <1>2 DEF Reading
<1>5. rec' \in [Actors -> Reading] BY <1>0, <1>3, <1>4
<1>6. rec'[a] = read /\ \A b \in Actors \ {a} : rec'[b] = rec[b] BY <1>0, <1>3
<1>7. LooksAreTrue' BY <1>2, <1>6 DEF LooksAreTrue
<1>. QED BY <1>5, <1>7

\* A Reconcile changes the map only by taking out a runner whose group is dead,
\* together with a verdict; it never makes a deployment start, and without a
\* runner it changes nothing.
LEMMA ApplyEffect ==
  ASSUME TypeOK, LooksAreTrue, NEW a \in Actors, ReconcileApply(a), proc' = proc
  PROVE  /\ rec' \in [Actors -> Reading] /\ LooksAreTrue'
         /\ runner' \in Runner /\ status' \in {"stopped", "starting", "running", "failed"}
         /\ backgrounded' \in BOOLEAN /\ gen' = gen /\ ready' = ready
         /\ \/ runner' = runner
            \/ /\ runner' = NoOne /\ runner \in Calls /\ proc[runner] = "dead"
               /\ status' # "starting"
         /\ status' = "starting" => status = "starting"
         /\ runner = NoOne => status' = status
<1>0. rec \in [Actors -> Reading] /\ NothingRead \in Reading
  BY DEF TypeOK, NothingRead, Reading, Runner
<1>1. rec' = [rec EXCEPT ![a] = NothingRead] BY DEF ReconcileApply
<1>2. rec' \in [Actors -> Reading] BY <1>0, <1>1
<1>3. rec'[a] = NothingRead /\ \A b \in Actors \ {a} : rec'[b] = rec[b] BY <1>0, <1>1
<1>4. LooksAreTrue' BY <1>3 DEF LooksAreTrue, NothingRead
<1>5. NoOne \notin Calls BY ProcessConstants
<1>6. CASE Corrects(a)
  <2>1. runner \in Calls /\ proc[runner] = "dead" BY <1>6 DEF Corrects, LooksAreTrue
  <2>2. /\ runner' = NoOne /\ backgrounded' = FALSE /\ gen' = gen /\ ready' = ready
        /\ status' = reconcileDeadStatus(rec[a].clean, rec[a].bg \/ backgrounded)
    BY <1>6 DEF ReconcileApply
  <2>3. status' \in {"stopped", "failed"} BY <2>2 DEF reconcileDeadStatus
  <2>. QED BY <1>2, <1>4, <1>5, <2>1, <2>2, <2>3 DEF Runner
<1>7. CASE ~Corrects(a) /\ rec[a].group = "alive" /\ rec[a].r = runner /\ status # "starting"
  <2>1. runner \in Calls BY <1>7 DEF LooksAreTrue
  <2>2. /\ status' = "running" /\ UNCHANGED <<runner, gen, ready>>
        /\ backgrounded' = (backgrounded \/ Exited(rec[a].r))
    BY <1>7 DEF ReconcileApply
  <2>. QED BY <1>2, <1>4, <1>5, <2>1, <2>2 DEF TypeOK
<1>8. CASE ~Corrects(a) /\ ~(rec[a].group = "alive" /\ rec[a].r = runner /\ status # "starting")
  <2>1. UNCHANGED maps BY <1>8 DEF ReconcileApply
  <2>. QED BY <1>2, <1>4, <2>1 DEF TypeOK, maps
<1>. QED BY <1>6, <1>7, <1>8

\* The steps of a request that only move it to another pc.
Moves(c) ==
  \/ HandlerRead(c) \/ HandlerApply(c) \/ HandlerForget(c) \/ HandlerReflush(c) \/ StopBump(c)
  \/ StopDone(c) \/ Unrecord(c) \/ SetReadiness(c) \/ StartRead(c) \/ StartApply(c)
  \/ StartCheck(c) \/ StartStatus(c) \/ StartRegister(c) \/ Spawn(c) \/ SpawnFails(c)
  \/ StartFailed(c) \/ StartAlive(c) \/ StartRunning(c) \/ Record(c) \/ Flush(c)

\* Where the request goes from where.
Edge(c, pc) ==
  \/ call[c].pc = "read" /\ pc = "apply"
  \/ call[c].pc \in {"apply", "reflush"} /\ pc = Begin(c)
  \/ call[c].pc = "apply" /\ pc = "forget"
  \/ call[c].pc = "forget" /\ pc = "reflush"
  \/ call[c].pc = "bump" /\ pc = "detach"
  \/ call[c].pc = "stopped" /\ pc = AfterStop(c)
  \/ call[c].pc \in {"unrecord", "record"} /\ pc = "flush"
  \/ call[c].pc = "ready" /\ pc = "reread"
  \/ call[c].pc = "reread" /\ pc = "reapply"
  \/ call[c].pc = "reapply" /\ pc = "check"
  \/ call[c].pc = "check" /\ pc \in {"starting", "record"}
  \/ call[c].pc = "starting" /\ pc = "advance"
  \/ call[c].pc = "register" /\ pc = "spawn"
  \/ call[c].pc = "spawn" /\ pc \in {"alive", "spawnFailed"}
  \/ call[c].pc = "spawnFailed" /\ pc = "error"
  \/ call[c].pc = "alive" /\ pc \in {"running", "record"}
  \/ call[c].pc = "running" /\ pc = "record"
  \/ call[c].pc = "flush" /\ pc \in {"done", "error"}

LEMMA MovesAlong ==
  ASSUME NEW c \in Calls, Moves(c)
  PROVE  \E pc \in Pcs : GoTo(c, pc) /\ Edge(c, pc)
<1>. USE DEF Pcs, Active, At
<1>1. CASE HandlerRead(c) \/ HandlerForget(c) \/ StopBump(c) \/ Unrecord(c) \/ SetReadiness(c)
  BY <1>1 DEF HandlerRead, HandlerForget, StopBump, Unrecord, SetReadiness, Edge
<1>2. CASE HandlerApply(c) \/ HandlerReflush(c)
  BY <1>2 DEF HandlerApply, HandlerReflush, Edge, Begin
<1>3. CASE StopDone(c)
  BY <1>3 DEF StopDone, AfterStop, Edge
<1>4. CASE StartRead(c) \/ StartApply(c) \/ StartStatus(c) \/ StartRegister(c)
  BY <1>4 DEF StartRead, StartApply, StartStatus, StartRegister, Edge
<1>5. CASE StartCheck(c)
  BY <1>5 DEF StartCheck, Edge
<1>6. CASE Spawn(c) \/ SpawnFails(c) \/ StartFailed(c)
  BY <1>6 DEF Spawn, SpawnFails, StartFailed, Edge
<1>7. CASE StartAlive(c)
  BY <1>7 DEF StartAlive, Edge
<1>8. CASE StartRunning(c) \/ Record(c) \/ Flush(c)
  BY <1>8 DEF StartRunning, Record, Flush, Edge
<1>. QED BY <1>1, <1>2, <1>3, <1>4, <1>5, <1>6, <1>7, <1>8 DEF Moves

\* The other three also note something.
LEMMA DetachEffect ==
  ASSUME TypeOK, NEW c \in Calls, StopDetach(c)
  PROVE  /\ call' \in [Calls -> CallState]
         /\ call'[c].pc = "kill" /\ call'[c].kind = call[c].kind /\ call'[c].gen = call[c].gen
         /\ call'[c].victim = runner /\ call'[c].overlapped = call[c].overlapped
         /\ \A d \in Calls \ {c} : call'[d] = call[d]
<1>1. call' = [call EXCEPT ![c].pc = "kill", ![c].victim = runner] BY DEF StopDetach
<1>2. "kill" \in Pcs BY DEF Pcs, Active
<1>3. call \in [Calls -> CallState] /\ runner \in Runner BY DEF TypeOK
<1>. QED BY <1>1, <1>2, <1>3 DEF CallState

LEMMA KillEffect ==
  ASSUME TypeOK, NEW c \in Calls, StopKill(c)
  PROVE  /\ call' \in [Calls -> CallState]
         /\ call'[c].pc = "stopped" /\ call'[c].kind = call[c].kind /\ call'[c].gen = call[c].gen
         /\ call'[c].victim = NoOne /\ call'[c].overlapped = call[c].overlapped
         /\ \A d \in Calls \ {c} : call'[d] = call[d]
<1>1. call' = [call EXCEPT ![c].pc = "stopped", ![c].victim = NoOne] BY DEF StopKill
<1>2. "stopped" \in Pcs /\ NoOne \in Runner BY DEF Pcs, Active, Runner
<1>3. call \in [Calls -> CallState] BY DEF TypeOK
<1>. QED BY <1>1, <1>2, <1>3 DEF CallState

LEMMA BumpEffect ==
  ASSUME TypeOK, NEW c \in Calls, StartBump(c)
  PROVE  /\ call' \in [Calls -> CallState]
         /\ call'[c].pc = "register" /\ call'[c].kind = call[c].kind
         /\ call'[c].gen = gen' /\ gen' \in Nat
         /\ call'[c].victim = call[c].victim /\ call'[c].overlapped = call[c].overlapped
         /\ \A d \in Calls \ {c} : call'[d] = call[d]
<1>1. call' = [call EXCEPT ![c].pc = "register", ![c].gen = gen + 1] /\ gen' = gen + 1
  BY DEF StartBump
<1>2. "register" \in Pcs BY DEF Pcs, Active
<1>3. call \in [Calls -> CallState] /\ gen + 1 \in Nat BY DEF TypeOK
<1>. QED BY <1>1, <1>2, <1>3 DEF CallState

\* A step of a request is a step of a busy one and moves no other.
LEMMA HandlerIsBusy ==
  ASSUME TypeOK, NEW c \in Calls, Handler(c)
  PROVE  /\ c \in Busy /\ call' \in [Calls -> CallState]
         /\ call'[c].kind = call[c].kind /\ call'[c].overlapped = call[c].overlapped
         /\ \A d \in Calls \ {c} : call'[d] = call[d]
<1>1. CASE Moves(c)
  <2>1. PICK pc \in Pcs : GoTo(c, pc) /\ Edge(c, pc) BY <1>1, MovesAlong
  <2>2. call[c].pc \in Active BY <2>1 DEF Edge, Active
  <2>. QED BY <2>1, <2>2, GoToEffect DEF Busy
<1>2. CASE StopDetach(c)
  BY <1>2, DetachEffect DEF StopDetach, At, Busy, Active
<1>3. CASE StopKill(c)
  BY <1>3, KillEffect DEF StopKill, At, Busy, Active
<1>4. CASE StartBump(c)
  BY <1>4, BumpEffect DEF StartBump, At, Busy, Active
<1>. QED BY <1>1, <1>2, <1>3, <1>4 DEF Handler, Moves

\* The process groups and their waiters after a step of a request: a Stop kills
\* what lives, a start spawns where nothing was.
LEMMA HandlerKids ==
  ASSUME Inv, NEW c \in Calls, Handler(c)
  PROVE  /\ proc' \in [Calls -> {"none", "up", "background", "dead"}]
         /\ waiter' \in [Calls -> Waiter] /\ WaitersFollow'
         /\ \A d \in Calls : proc[d] = "dead" => proc'[d] = "dead"
         /\ \A d \in Calls : proc'[d] = "none" <=> (proc[d] = "none" /\ ~(Spawn(c) /\ d = c))
<1>0. TypeOK /\ WaitersFollow BY DEF Inv
<1>1. CASE UNCHANGED <<proc, waiter>> /\ ~Spawn(c)
  BY <1>0, <1>1 DEF TypeOK, WaitersFollow
<1>2. CASE Spawn(c)
  <2>1. proc[c] = "none" BY <1>2 DEF Spawn, At, Inv, Unspawned
  <2>2. /\ proc' = [proc EXCEPT ![c] = "up"] /\ waiter' = waiter
    BY <1>2 DEF Spawn
  <2>. QED BY <1>0, <1>2, <2>1, <2>2 DEF TypeOK, WaitersFollow
<1>3. CASE StopKill(c) /\ Alive(call[c].victim)
  <2>. DEFINE r == call[c].victim
  <2>0. ~Spawn(c) BY <1>3 DEF StopKill, Spawn, At
  <2>1. r \in Calls /\ proc[r] \in {"up", "background"}
    BY <1>0, <1>3 DEF Alive, TypeOK, CallState, Runner
  <2>2. /\ proc' = [proc EXCEPT ![r] = "dead"]
        /\ waiter' = IF proc[r] = "up" THEN [waiter EXCEPT ![r].pc = "drain"] ELSE waiter
    BY <1>3 DEF StopKill
  <2>. HIDE DEF r
  <2>3. /\ proc' \in [Calls -> {"none", "up", "background", "dead"}]
        /\ proc'[r] = "dead" /\ \A d \in Calls \ {r} : proc'[d] = proc[d]
    BY <1>0, <2>1, <2>2 DEF TypeOK
  <2>4. waiter' \in [Calls -> Waiter] BY <1>0, <2>1, <2>2 DEF TypeOK, Waiter
  <2>5. /\ waiter'[r].pc \notin {"none"} /\ \A d \in Calls \ {r} : waiter'[d] = waiter[d]
    BY <1>0, <2>1, <2>2 DEF TypeOK, Waiter, WaitersFollow
  <2>. QED BY <1>0, <2>0, <2>1, <2>3, <2>4, <2>5 DEF WaitersFollow
<1>. QED
  BY <1>1, <1>2, <1>3 DEF Handler, HandlerRead, HandlerApply, HandlerForget, HandlerReflush,
     StopBump, StopDetach, StopKill, StopDone, Unrecord, SetReadiness, StartRead, StartApply,
     StartCheck, StartStatus, StartBump, StartRegister, SpawnFails, StartFailed, StartAlive,
     StartRunning, Record, Flush, kids

\* The rest of the state after a step of a request.
LEMMA HandlerTypes ==
  ASSUME Inv, NEW c \in Calls, Handler(c)
  PROVE  TypeOK' /\ LooksAreTrue'
<1>0. TypeOK /\ LooksAreTrue /\ c \in Actors BY DEF Inv, Actors
<1>1. /\ call' \in [Calls -> CallState] /\ call[c].kind \in {"start", "stop", "restart"}
      /\ proc' \in [Calls -> {"none", "up", "background", "dead"}]
      /\ waiter' \in [Calls -> Waiter]
  BY <1>0, HandlerIsBusy, HandlerKids DEF TypeOK, CallState
<1>l. last' \in LastState
  <2>1. last \in LastState /\ c \in Runner
    BY <1>0 DEF TypeOK, Runner
  <2>2. CASE StartStatus(c) \/ StopDone(c) \/ StartFailed(c) \/ Flush(c)
    BY <2>1, <2>2 DEF StartStatus, StopDone, StartFailed, Flush, LastState
  <2>3. CASE UNCHANGED last BY <2>1, <2>3
  <2>. QED
    BY <2>2, <2>3 DEF Handler, HandlerRead, HandlerApply, HandlerForget, HandlerReflush, StopBump,
       StopDetach, StopKill, Unrecord, SetReadiness, StartRead, StartApply, StartCheck, StartBump,
       StartRegister, Spawn, SpawnFails, StartAlive, StartRunning, Record
<1>2. ASSUME UNCHANGED rec PROVE rec' \in [Actors -> Reading] /\ LooksAreTrue'
  <2>1. \A d \in Calls : proc[d] = "dead" => proc'[d] = "dead" BY HandlerKids
  <2>. QED BY <1>0, <1>2, <2>1 DEF LooksAreTrue, TypeOK
<1>. USE DEF Runner
<1>3. CASE HandlerRead(c) \/ StartRead(c)
  <2>1. rec' \in [Actors -> Reading] /\ LooksAreTrue'
    BY <1>0, <1>3, ReadType DEF HandlerRead, StartRead, kids
  <2>. QED BY <1>0, <1>1, <1>l, <1>3, <2>1 DEF HandlerRead, StartRead, TypeOK, maps, kids, store
<1>4. CASE HandlerApply(c) \/ StartApply(c)
  <2>1. ReconcileApply(c) /\ proc' = proc BY <1>4 DEF HandlerApply, StartApply, kids
  <2>2. /\ rec' \in [Actors -> Reading] /\ LooksAreTrue'
        /\ runner' \in Runner /\ status' \in {"stopped", "starting", "running", "failed"}
        /\ backgrounded' \in BOOLEAN /\ gen' = gen /\ ready' = ready
    BY <1>0, <2>1, ApplyEffect
  <2>. QED BY <1>0, <1>1, <1>l, <1>4, <2>2 DEF HandlerApply, StartApply, TypeOK, kids, store
<1>5. CASE HandlerForget(c) \/ HandlerReflush(c) \/ Unrecord(c) \/ Record(c)
  BY <1>0, <1>1, <1>l, <1>2, <1>5 DEF HandlerForget, HandlerReflush, FlushFails, Unrecord, Record, TypeOK, maps, kids
<1>6. CASE StopBump(c) \/ StopDetach(c) \/ StopDone(c) \/ StartStatus(c) \/ StartRunning(c)
  <2>1. /\ UNCHANGED <<rec, loop, kids, store>>
        /\ runner' \in {runner, NoOne} /\ gen' \in {gen, gen + 1}
        /\ status' \in {status, "stopped", "starting", "running"}
    BY <1>6 DEF StopBump, StopDetach, StopDone, StartStatus, StartRunning
  <2>2. ready' \in BOOLEAN /\ backgrounded' \in BOOLEAN
    BY <1>0, <1>6 DEF StopBump, StopDetach, StopDone, StartStatus, StartRunning, TypeOK
  <2>. QED BY <1>0, <1>1, <1>l, <1>2, <2>1, <2>2 DEF TypeOK, kids, store
<1>7. CASE StopKill(c) \/ Spawn(c) \/ SpawnFails(c)
  BY <1>0, <1>1, <1>l, <1>2, <1>7 DEF StopKill, Spawn, SpawnFails, TypeOK, maps, kids, store
<1>8. CASE SetReadiness(c)
  BY <1>0, <1>1, <1>l, <1>2, <1>8, ProcessConstants DEF SetReadiness, TypeOK, kids, store
<1>9. CASE StartCheck(c)
  <2>1. backgrounded' \in BOOLEAN /\ runner' \in Runner
    BY <1>0, <1>9 DEF StartCheck, TypeOK
  <2>2. UNCHANGED <<status, gen, ready, rec, loop, kids, store>>
    BY <1>9 DEF StartCheck
  <2>. QED BY <1>0, <1>1, <1>l, <1>2, <2>1, <2>2 DEF TypeOK, kids, store
<1>10. CASE StartBump(c) \/ StartRegister(c)
  BY <1>0, <1>1, <1>l, <1>2, <1>10 DEF StartBump, StartRegister, TypeOK, kids, store
<1>11. CASE StartFailed(c) \/ Flush(c)
  BY <1>0, <1>1, <1>l, <1>2, <1>11 DEF StartFailed, Flush, FlushFails, TypeOK, maps, kids, store
<1>12. CASE StartAlive(c)
  <2>1. probe' \in [Calls -> {"none", "probing", "passed", "commit", "expired", "failed", "done"}]
    BY <1>0, <1>12 DEF StartAlive, TypeOK
  <2>. QED BY <1>0, <1>1, <1>l, <1>2, <1>12, <2>1 DEF StartAlive, TypeOK, maps, store
<1>. QED
  BY <1>3, <1>4, <1>5, <1>6, <1>7, <1>8, <1>9, <1>10, <1>11, <1>12 DEF Handler

\* The steps beside the requests.
Around ==
  \/ ReconcileLoop
  \/ \E c \in Calls :
       \/ Watch(c) \/ Probe(c) \/ BackgroundDies(c)
       \/ \E ok, left \in BOOLEAN : ShellExits(c, ok, left)

\* What they have in common: no request moves, the generation stands, nothing
\* comes to life, a runner leaves the map only dead and with a verdict, no
\* deployment begins to start, and without a runner only a probe has a say.
LEMMA AroundEffect ==
  ASSUME Inv, Around
  PROVE  /\ TypeOK' /\ LooksAreTrue' /\ WaitersFollow'
         /\ UNCHANGED <<call, gen>>
         /\ last'.done = last.done /\ last'.starter = last.starter
         /\ (last.late => last'.late)
         /\ \A c \in Calls : probe'[c] # "none" => probe[c] # "none"
         /\ \A c \in Calls : proc[c] \in {"none", "dead"} => proc'[c] = proc[c]
         /\ \A c \in Calls : proc[c] \in {"up", "background"} => proc'[c] # "none"
         /\ \A c \in Calls : proc'[c] \in {"up", "background"} => proc[c] \in {"up", "background"}
         /\ \/ runner' = runner
            \/ /\ runner' = NoOne /\ runner \in Calls /\ proc[runner] = "dead"
               /\ status' # "starting"
         /\ status' = "starting" => status = "starting"
         /\ runner = NoOne =>
              \/ status' = status \/ last'.late
              \/ \E c \in Calls : probe[c] # "none" /\ call[c].gen = gen
<1>0. TypeOK /\ LooksAreTrue /\ WaitersFollow BY DEF Inv
<1>. USE DEF Runner
<1>1. ASSUME UNCHANGED proc PROVE LooksAreTrue' \/ rec' # rec
  BY <1>0, <1>1 DEF LooksAreTrue
<1>2. ASSUME UNCHANGED <<proc, waiter>> PROVE WaitersFollow'
  BY <1>0, <1>2 DEF WaitersFollow
<1>3. CASE LoopRead
  <2>1. rec' \in [Actors -> Reading] /\ LooksAreTrue'
    BY <1>0, <1>3, ReadType DEF LoopRead, kids, Actors
  <2>. QED BY <1>0, <1>2, <1>3, <2>1 DEF LoopRead, TypeOK, maps, kids, store
<1>4. CASE LoopApply
  <2>1. ReconcileApply("loop") /\ proc' = proc /\ "loop" \in Actors
    BY <1>4 DEF LoopApply, kids, Actors
  <2>2. /\ rec' \in [Actors -> Reading] /\ LooksAreTrue'
        /\ runner' \in Runner /\ status' \in {"stopped", "starting", "running", "failed"}
        /\ backgrounded' \in BOOLEAN /\ gen' = gen /\ ready' = ready
        /\ \/ runner' = runner
           \/ /\ runner' = NoOne /\ runner \in Calls /\ proc[runner] = "dead"
              /\ status' # "starting"
        /\ status' = "starting" => status = "starting"
        /\ runner = NoOne => status' = status
    BY <1>0, <2>1, ApplyEffect
  <2>3. /\ UNCHANGED <<call, proc, waiter, probe, pids, pidFile, last>>
        /\ loop' \in {"forget", "idle"}
    BY <1>4 DEF LoopApply, kids, store
  <2>4. TypeOK' BY <1>0, <2>2, <2>3 DEF TypeOK
  <2>. QED BY <1>2, <2>2, <2>3, <2>4
<1>5. CASE LoopForget \/ LoopFlush
  BY <1>0, <1>1, <1>2, <1>5 DEF LoopForget, LoopFlush, FlushFails, TypeOK, maps, kids, store
<1>6. ASSUME NEW c \in Calls, WaitReturns(c) \/ ExitLooks(c)
      PROVE  /\ waiter' \in [Calls -> Waiter] /\ WaitersFollow'
             /\ UNCHANGED <<maps, call, rec, loop, proc, probe, store, last>>
  <2>1. CASE WaitReturns(c)
    BY <1>0, <2>1 DEF WaitReturns, TypeOK, Waiter, WaitersFollow
  <2>2. CASE ExitLooks(c)
    <3>1. PICK pc \in {"done", "alive", "gone"} :
            /\ waiter' = [waiter EXCEPT ![c].pc = pc]
            /\ pc = "gone" => ~Alive(c)
      BY <2>2 DEF ExitLooks
    <3>2. proc[c] \in {"background", "dead"}
      BY <1>0, <2>2 DEF ExitLooks, WaitersFollow, TypeOK
    <3>3. pc = "gone" => proc[c] = "dead"
      BY <3>1, <3>2, ProcessConstants DEF Alive
    <3>4. /\ waiter' \in [Calls -> Waiter] /\ waiter'[c].pc = pc
          /\ \A d \in Calls \ {c} : waiter'[d] = waiter[d]
      BY <1>0, <3>1 DEF TypeOK, Waiter
    <3>. QED BY <1>0, <2>2, <3>2, <3>3, <3>4 DEF ExitLooks, WaitersFollow
  <2>. QED BY <1>6, <2>1, <2>2
<1>7. ASSUME NEW c \in Calls, ExitKeeps(c) \/ ExitEnds(c)
      PROVE  /\ waiter' \in [Calls -> Waiter] /\ WaitersFollow'
             /\ waiter[c].pc = "gone" => proc[c] = "dead"
             /\ UNCHANGED <<call, rec, loop, proc, probe, store, last>>
  <2>1. /\ waiter' = [waiter EXCEPT ![c].pc = "done"] /\ waiter[c].pc \in {"alive", "gone"}
        /\ UNCHANGED <<call, rec, loop, proc, probe, store, last>>
    BY <1>7 DEF ExitKeeps, ExitEnds
  <2>. QED BY <1>0, <2>1 DEF TypeOK, Waiter, WaitersFollow
<1>8. ASSUME NEW c \in Calls, WaitReturns(c) \/ ExitLooks(c)
      PROVE  TypeOK' /\ LooksAreTrue' /\ UNCHANGED <<status, runner>>
  BY <1>0, <1>1, <1>6, <1>8 DEF TypeOK, maps, store
<1>9. ASSUME NEW c \in Calls, ExitKeeps(c)
      PROVE  /\ TypeOK' /\ LooksAreTrue' /\ UNCHANGED <<runner, gen>>
             /\ status' \in {status, "running"}
             /\ runner = NoOne => status' = status
  BY ZenonT(30), <1>0, <1>1, <1>7, <1>9, ProcessConstants DEF ExitKeeps, OwnExit, TypeOK, maps, store
<1>10. ASSUME NEW c \in Calls, ExitEnds(c)
       PROVE  /\ TypeOK' /\ LooksAreTrue' /\ gen' = gen
              /\ \/ UNCHANGED <<runner, status>>
                 \/ /\ runner = c /\ runner' = NoOne /\ proc[c] = "dead"
                    /\ status' \in {"stopped", "failed"}
  BY ZenonT(30), <1>0, <1>1, <1>7, <1>10 DEF ExitEnds, OwnExit, TypeOK, maps, store
<1>11. ASSUME NEW c \in Calls, Probe(c)
       PROVE  /\ TypeOK' /\ LooksAreTrue'
              /\ UNCHANGED <<call, gen, proc, waiter, runner>>
              /\ status' \in {status, "failed", "running"}
              /\ last'.done = last.done /\ last'.starter = last.starter
              /\ (last.late => last'.late)
              /\ \A d \in Calls : probe'[d] # "none" => probe[d] # "none"
              /\ status' = status \/ last'.late \/ (probe[c] # "none" /\ call[c].gen = gen)
  <2>0. /\ probe \in [Calls -> {"none", "probing", "passed", "commit", "expired", "failed", "done"}]
        /\ last \in LastState
    BY <1>0 DEF TypeOK
  <2>1. PICK pc \in {"passed", "expired", "failed", "commit", "done"} :
          probe' = [probe EXCEPT ![c] = pc] /\ probe[c] # "none"
    BY <1>11 DEF Probe, ProbeAnswers, ProbeExpired, ProbeLooks, ProbeCommits
  <2>2. /\ UNCHANGED <<runner, gen, ready, backgrounded, call, rec, loop, proc, waiter, store>>
        /\ status' \in {status, "failed", "running"}
        /\ \/ UNCHANGED <<status, last>>
           \/ last' = [last EXCEPT !.late = @ \/ gen # call[c].gen]
    BY <1>11 DEF Probe, ProbeAnswers, ProbeExpired, ProbeLooks, ProbeCommits, ProbeWrites, maps
  <2>3. /\ last' \in LastState
        /\ last'.done = last.done /\ last'.starter = last.starter
        /\ (last.late => last'.late)
        /\ status' = status \/ last'.late \/ call[c].gen = gen
    BY <2>0, <2>2 DEF LastState
  <2>4. \A d \in Calls : probe'[d] # "none" => probe[d] # "none" BY <2>0, <2>1
  <2>5. probe' \in [Calls -> {"none", "probing", "passed", "commit", "expired", "failed", "done"}]
    BY <2>0, <2>1
  <2>6. TypeOK' BY <1>0, <2>2, <2>3, <2>5 DEF TypeOK, store
  <2>. QED BY <1>1, <2>1, <2>2, <2>3, <2>4, <2>6
<1>12. ASSUME NEW c \in Calls,
              BackgroundDies(c) \/ \E ok, left \in BOOLEAN : ShellExits(c, ok, left)
       PROVE  /\ TypeOK' /\ LooksAreTrue' /\ WaitersFollow'
              /\ UNCHANGED <<maps, call, probe, last>>
              /\ proc[c] \in {"up", "background"} /\ proc'[c] \in {"background", "dead"}
              /\ \A d \in Calls \ {c} : proc'[d] = proc[d]
  <2>1. PICK p \in {"background", "dead"} : proc' = [proc EXCEPT ![c] = p]
    BY <1>12 DEF BackgroundDies, ShellExits
  <2>2. /\ proc' \in [Calls -> {"none", "up", "background", "dead"}]
        /\ proc'[c] = p /\ \A d \in Calls \ {c} : proc'[d] = proc[d]
    BY <1>0, <2>1 DEF TypeOK
  <2>3. /\ UNCHANGED <<maps, call, rec, loop, probe, store, last>>
        /\ proc[c] \in {"up", "background"}
    BY <1>12 DEF BackgroundDies, ShellExits
  <2>4. waiter' \in [Calls -> Waiter] /\ WaitersFollow'
    <3>1. CASE BackgroundDies(c)
      BY <1>0, <2>1, <2>2, <3>1 DEF BackgroundDies, TypeOK, WaitersFollow
    <3>2. ASSUME NEW ok \in BOOLEAN, NEW left \in BOOLEAN, ShellExits(c, ok, left)
          PROVE  waiter' \in [Calls -> Waiter] /\ WaitersFollow'
      <4>1. [pc |-> "drain", ok |-> ok] \in Waiter BY DEF Waiter
      <4>2. waiter' = [waiter EXCEPT ![c] = [pc |-> "drain", ok |-> ok]]
        BY <3>2 DEF ShellExits
      <4>3. /\ waiter' \in [Calls -> Waiter] /\ waiter'[c].pc = "drain"
            /\ \A d \in Calls \ {c} : waiter'[d] = waiter[d]
        BY <1>0, <4>1, <4>2 DEF TypeOK
      <4>. QED BY <1>0, <2>2, <4>3 DEF WaitersFollow
    <3>. QED BY <1>12, <3>1, <3>2
  <2>5. TypeOK' BY <1>0, <2>2, <2>3, <2>4 DEF TypeOK, maps, store
  <2>6. LooksAreTrue' BY <1>0, <2>2, <2>3 DEF LooksAreTrue
  <2>. QED BY <2>2, <2>3, <2>4, <2>5, <2>6
<1>13. ASSUME NEW c \in Calls, Watch(c)
       PROVE  /\ TypeOK' /\ LooksAreTrue' /\ WaitersFollow'
              /\ UNCHANGED <<call, gen, last, proc, probe>>
              /\ \/ runner' = runner
                 \/ /\ runner' = NoOne /\ runner \in Calls /\ proc[runner] = "dead"
                    /\ status' # "starting"
              /\ status' = "starting" => status = "starting"
              /\ runner = NoOne => status' = status
  <2>1. CASE WaitReturns(c) \/ ExitLooks(c)
    BY <1>6, <1>8, <2>1 DEF maps
  <2>2. CASE ExitKeeps(c)
    BY <1>7, <1>9, <2>2
  <2>3. CASE ExitEnds(c)
    BY <1>7, <1>10, <2>3, ProcessConstants
  <2>. QED BY <1>13, <2>1, <2>2, <2>3 DEF Watch
<1>15. CASE \E c \in Calls : Watch(c)
  BY <1>13, <1>15
<1>16. CASE \E c \in Calls : Probe(c)
  <2>1. /\ TypeOK' /\ LooksAreTrue'
        /\ UNCHANGED <<call, gen, proc, waiter, runner>>
        /\ status' \in {status, "failed", "running"}
        /\ last'.done = last.done /\ last'.starter = last.starter
        /\ (last.late => last'.late)
        /\ \A d \in Calls : probe'[d] # "none" => probe[d] # "none"
        /\ \/ status' = status \/ last'.late
           \/ \E c \in Calls : probe[c] # "none" /\ call[c].gen = gen
    BY <1>11, <1>16
  <2>2. WaitersFollow' BY <1>2, <2>1
  <2>. QED BY <1>0, <2>1, <2>2 DEF TypeOK
<1>17. CASE \E c \in Calls :
              BackgroundDies(c) \/ \E ok, left \in BOOLEAN : ShellExits(c, ok, left)
  BY <1>0, <1>12, <1>17 DEF maps
<1>. QED BY <1>3, <1>4, <1>5, <1>15, <1>16, <1>17 DEF Around, ReconcileLoop

\* The map after a step of a request: only StartRegister puts a runner in.
LEMMA HandlerRunner ==
  ASSUME Inv, NEW c \in Calls, Handler(c)
  PROVE  \/ runner' \in {runner, NoOne}
         \/ StartRegister(c) /\ runner' = c
<1>0. TypeOK /\ LooksAreTrue /\ c \in Actors BY DEF Inv, Actors
<1>1. CASE HandlerApply(c) \/ StartApply(c)
  <2>1. ReconcileApply(c) /\ proc' = proc BY <1>1 DEF HandlerApply, StartApply, kids
  <2>. QED BY <1>0, <2>1, ApplyEffect
<1>2. CASE UNCHANGED runner
  BY <1>2
<1>. QED
  BY <1>1, <1>2 DEF Handler, HandlerRead, HandlerForget, HandlerReflush,
     StopBump, StopDetach, StopKill, StopDone, Unrecord, SetReadiness, StartRead,
     StartCheck, StartStatus, StartBump, StartRegister, Spawn, SpawnFails, StartFailed, StartAlive,
     StartRunning, Record, Flush, maps

\* The pcs a request takes, with Moves and the three noting steps together.
LEMMA HandlerPath ==
  ASSUME TypeOK, NEW c \in Calls, Handler(c)
  PROVE  \/ Edge(c, call'[c].pc) /\ call'[c].victim = call[c].victim
                                 /\ call'[c].gen = call[c].gen
         \/ /\ StopDetach(c) /\ call[c].pc = "detach" /\ call'[c].pc = "kill"
            /\ call'[c].victim = runner
         \/ /\ StopKill(c) /\ call[c].pc = "kill" /\ call'[c].pc = "stopped"
            /\ call'[c].victim = NoOne
         \/ /\ StartBump(c) /\ call[c].pc = "advance" /\ call'[c].pc = "register"
            /\ call'[c].victim = call[c].victim /\ call'[c].gen = gen'
<1>1. CASE Moves(c)
  <2>1. PICK pc \in Pcs : GoTo(c, pc) /\ Edge(c, pc) BY <1>1, MovesAlong
  <2>. QED BY <2>1, GoToEffect
<1>2. CASE StopDetach(c)
  BY <1>2, DetachEffect DEF StopDetach, At
<1>3. CASE StopKill(c)
  BY <1>3, KillEffect DEF StopKill, At
<1>4. CASE StartBump(c)
  BY <1>4, BumpEffect DEF StartBump, At
<1>. QED BY <1>1, <1>2, <1>3, <1>4 DEF Handler, Moves

LEMMA HandlerInv == ASSUME Inv, NEW c \in Calls, Handler(c) PROVE Inv'
<1>0. TypeOK /\ NoOne \notin Calls BY ProcessConstants DEF Inv
<1>1. TypeOK' /\ LooksAreTrue' /\ WaitersFollow' BY HandlerTypes, HandlerKids
<1>2. /\ call'[c].kind = call[c].kind /\ \A d \in Calls \ {c} : call'[d] = call[d]
  BY <1>0, HandlerIsBusy
<1>3. Unspawned'
  <2>1. /\ Spawn(c) => call'[c].pc = "alive"
        /\ StartRegister(c) => call'[c].pc = "spawn"
    BY <1>0, GoToEffect DEF Spawn, StartRegister, Pcs, Active
  <2>2. /\ call'[c].pc \in Preparing => call[c].pc \in Preparing
        /\ call'[c].pc \in {"spawn", "spawnFailed"} => call[c].pc \in {"register", "spawn"}
    BY <1>0, HandlerPath DEF Edge, Preparing, Begin, AfterStop
  <2>3. \A d \in Calls : proc'[d] = "none" <=> (proc[d] = "none" /\ ~(Spawn(c) /\ d = c))
    BY HandlerKids
  <2>4. \A d \in Calls :
          call'[d].pc \in Preparing \cup {"spawn", "spawnFailed"} => proc'[d] = "none"
    BY <1>2, <2>1, <2>2, <2>3 DEF Inv, Unspawned, Preparing
  <2>5. \A d \in Calls : call'[d].pc \in Preparing => runner' # d
    BY <1>0, <1>2, <2>1, <2>2, HandlerRunner DEF Inv, Unspawned, Preparing
  <2>. QED BY <2>4, <2>5 DEF Unspawned
<1>4. VictimsHeld'
  BY <1>0, <1>2, HandlerPath DEF Inv, VictimsHeld, Edge
<1>5. StopsOnly'
  BY <1>0, <1>2, HandlerPath DEF Inv, StopsOnly, Edge, Begin, AfterStop, Active
<1>. QED BY <1>1, <1>3, <1>4, <1>5 DEF Inv

\* A request arrives, and marks itself and those it finds under way.
LEMMA RequestEffect ==
  ASSUME TypeOK, NEW c \in Calls, NEW kind \in Kinds, Request(c, kind)
  PROVE  /\ call' \in [Calls -> CallState]
         /\ call[c].pc = "idle" /\ call'[c].pc = "read"
         /\ call'[c].victim = call[c].victim /\ call'[c].gen = call[c].gen
         /\ call'[c].overlapped <=> Busy # {}
         /\ \A d \in Calls \ {c} :
              /\ call'[d].pc = call[d].pc /\ call'[d].kind = call[d].kind
              /\ call'[d].victim = call[d].victim /\ call'[d].gen = call[d].gen
              /\ call'[d].overlapped <=> call[d].overlapped \/ d \in Busy
         /\ UNCHANGED <<maps, rec, loop, kids, store, last>>
<1>. DEFINE begun == [call[c] EXCEPT !.pc = "read", !.kind = kind, !.overlapped = Busy # {}]
            found(d) == IF d \in Busy THEN [call[d] EXCEPT !.overlapped = TRUE] ELSE call[d]
<1>1. /\ call' = [d \in Calls |-> IF d = c THEN begun ELSE found(d)] /\ call[c].pc = "idle"
      /\ UNCHANGED <<maps, rec, loop, kids, store, last>>
  BY DEF Request, At
<1>2. "read" \in Pcs BY DEF Pcs, Active
<1>3. call \in [Calls -> CallState] /\ kind \in {"start", "stop", "restart"}
  BY ProcessConstants DEF TypeOK
<1>4. /\ begun \in CallState /\ begun.pc = "read" /\ (begun.overlapped <=> Busy # {})
      /\ begun.victim = call[c].victim /\ begun.gen = call[c].gen
  BY <1>2, <1>3 DEF CallState
<1>5. ASSUME NEW d \in Calls
      PROVE  /\ found(d) \in CallState /\ found(d).pc = call[d].pc /\ found(d).kind = call[d].kind
             /\ found(d).victim = call[d].victim /\ found(d).gen = call[d].gen
             /\ found(d).overlapped <=> call[d].overlapped \/ d \in Busy
  BY <1>3 DEF CallState
<1>. HIDE DEF begun, found
<1>. QED BY <1>1, <1>4, <1>5

\* Every step keeps Inv, however many requests run at once.
LEMMA InvStep == Inv /\ [Next]_vars => Inv'
<1>. SUFFICES ASSUME Inv, [Next]_vars PROVE Inv'
  OBVIOUS
<1>0. TypeOK BY DEF Inv
<1>1. ASSUME NEW c \in Calls, NEW kind \in Kinds, Request(c, kind) PROVE Inv'
  <2>1. /\ call' \in [Calls -> CallState]
        /\ call[c].pc = "idle" /\ call'[c].pc = "read"
        /\ call'[c].victim = call[c].victim
        /\ \A d \in Calls \ {c} :
             call'[d].pc = call[d].pc /\ call'[d].kind = call[d].kind
             /\ call'[d].victim = call[d].victim
        /\ UNCHANGED <<maps, rec, loop, kids, store, last>>
    BY <1>0, <1>1, RequestEffect
  <2>2. TypeOK' BY <1>0, <2>1 DEF TypeOK, maps, kids, store
  <2>3. LooksAreTrue' /\ WaitersFollow' BY <2>1 DEF Inv, LooksAreTrue, WaitersFollow, kids
  <2>4. Unspawned' BY <2>1 DEF Inv, Unspawned, Preparing, maps, kids
  <2>5. VictimsHeld' /\ StopsOnly' BY <2>1 DEF Inv, VictimsHeld, StopsOnly
  <2>. QED BY <2>2, <2>3, <2>4, <2>5 DEF Inv
<1>2. CASE Around
  <2>1. /\ TypeOK' /\ LooksAreTrue' /\ WaitersFollow'
        /\ call' = call
        /\ \A c \in Calls : proc[c] \in {"none", "dead"} => proc'[c] = proc[c]
        /\ runner' = runner \/ runner' = NoOne
    BY <1>2, AroundEffect
  <2>2. Unspawned' BY <2>1, ProcessConstants DEF Inv, Unspawned
  <2>3. VictimsHeld' /\ StopsOnly' BY <2>1 DEF Inv, VictimsHeld, StopsOnly
  <2>. QED BY <2>1, <2>2, <2>3 DEF Inv
<1>3. CASE UNCHANGED vars
  BY <1>3 DEF Inv, TypeOK, LooksAreTrue, WaitersFollow, Unspawned, VictimsHeld, StopsOnly,
     vars, maps, kids, store
<1>. QED BY <1>1, <1>2, <1>3, HandlerInv DEF Next, Around

-----------------------------------------------------------------------------
(* The steps of a request.                                                  *)

\* Beside a request that none has run beside, and beside one that takes a step,
\* there is none of the other kind under way.
LEMMA HandlerAlone ==
  ASSUME Inv, Alone, NEW c \in Calls, Handler(c)
  PROVE  /\ c \in Busy /\ call[c].pc \in Active
         /\ call'[c].kind = call[c].kind /\ call'[c].overlapped = call[c].overlapped
         /\ \A d \in Calls \ {c} :
              /\ call'[d] = call[d]
              /\ ~call[c].overlapped \/ ~call[d].overlapped =>
                   call[d].pc \notin Active /\ call[d].victim = NoOne
         /\ Alone'
<1>1. /\ c \in Busy /\ call'[c].kind = call[c].kind /\ call'[c].overlapped = call[c].overlapped
      /\ \A d \in Calls \ {c} : call'[d] = call[d]
  BY HandlerIsBusy DEF Inv
<1>2. ASSUME NEW d \in Calls \ {c}, ~call[c].overlapped \/ ~call[d].overlapped
      PROVE  call[d].pc \notin Active
  BY <1>1, <1>2 DEF Alone, Busy
<1>3. \A d \in Calls \ {c} : call[d].pc \notin Active => call[d].victim = NoOne
  BY DEF Inv, VictimsHeld, Active
<1>4. Alone' BY <1>1 DEF Alone, Busy
<1>. QED BY <1>1, <1>2, <1>3, <1>4 DEF Busy

\* The steps that neither touch the map nor the status, nor lead to where the
\* map is known.
Plain(c) ==
  \/ HandlerRead(c) \/ HandlerForget(c) \/ HandlerReflush(c) \/ StopBump(c) \/ Unrecord(c)
  \/ SetReadiness(c) \/ StartRead(c) \/ Record(c) \/ Flush(c)

LEMMA PlainEffect ==
  ASSUME Inv, NEW c \in Calls, Plain(c)
  PROVE  /\ UNCHANGED <<runner, status, proc, probe>>
         /\ call[c].pc \in {"read", "forget", "reflush", "bump", "unrecord", "ready", "reread",
                            "record", "flush"}
         /\ call'[c].pc \in {"apply", "reflush", "ready", "bump", "detach", "flush", "reread",
                             "reapply", "done", "error"}
         /\ call'[c].victim = call[c].victim /\ call'[c].gen = call[c].gen
         /\ gen' = gen \/ call'[c].pc = "detach"
<1>1. /\ UNCHANGED <<runner, status, proc, probe>>
      /\ call[c].pc \in {"read", "forget", "reflush", "bump", "unrecord", "ready", "reread",
                         "record", "flush"}
  BY DEF Plain, HandlerRead, HandlerForget, HandlerReflush, StopBump, Unrecord, SetReadiness,
     StartRead, Record, Flush, At, maps, kids
<1>2. Handler(c) /\ TypeOK BY DEF Plain, Handler, Inv
<1>3. Edge(c, call'[c].pc) /\ call'[c].victim = call[c].victim /\ call'[c].gen = call[c].gen
  BY <1>1, <1>2, HandlerPath
<1>4. call'[c].pc \in {"apply", "reflush", "ready", "bump", "detach", "flush", "reread",
                       "reapply", "done", "error"}
  BY <1>1, <1>3 DEF Edge, Begin
<1>5. gen' = gen \/ StopBump(c)
  BY DEF Plain, HandlerRead, HandlerForget, HandlerReflush, Unrecord, SetReadiness,
     StartRead, Record, Flush, maps
<1>6. StopBump(c) => call'[c].pc = "detach"
  BY <1>2, GoToEffect DEF StopBump, Pcs, Active
<1>. QED BY <1>1, <1>3, <1>4, <1>5, <1>6

\* The reconcile steps of a request.
LEMMA ReconcileStepEffect ==
  ASSUME Inv, NEW c \in Calls, HandlerApply(c) \/ StartApply(c)
  PROVE  /\ UNCHANGED <<gen, proc, probe, last>>
         /\ call[c].pc \in {"apply", "reapply"}
         /\ call'[c].pc \in {"forget", "ready", "bump", "check"}
         /\ call'[c].victim = call[c].victim /\ call'[c].gen = call[c].gen
         /\ \/ runner' = runner
            \/ /\ runner' = NoOne /\ runner \in Calls /\ proc[runner] = "dead"
               /\ status' # "starting"
         /\ status' = "starting" => status = "starting"
<1>1. /\ ReconcileApply(c) /\ UNCHANGED <<proc, probe, last>>
      /\ call[c].pc \in {"apply", "reapply"}
  BY DEF HandlerApply, StartApply, kids, At
<1>2. TypeOK /\ LooksAreTrue /\ c \in Actors /\ Handler(c) BY DEF Inv, Actors, Handler
<1>3. Edge(c, call'[c].pc) /\ call'[c].victim = call[c].victim /\ call'[c].gen = call[c].gen
  BY <1>1, <1>2, HandlerPath
<1>4. call'[c].pc \in {"forget", "ready", "bump", "check"}
  BY <1>1, <1>3 DEF Edge, Begin
<1>5. /\ gen' = gen
      /\ \/ runner' = runner
         \/ /\ runner' = NoOne /\ runner \in Calls /\ proc[runner] = "dead"
            /\ status' # "starting"
      /\ status' = "starting" => status = "starting"
  BY <1>1, <1>2, ApplyEffect
<1>. QED BY <1>1, <1>3, <1>4, <1>5

\* The remaining steps, one by one: where they lead, and what they do to the
\* map, the status and the generation.
LEMMA StopEffects ==
  ASSUME Inv, NEW c \in Calls
  PROVE  /\ StopDetach(c) =>
              /\ call[c].pc = "detach" /\ call'[c].pc = "kill" /\ call'[c].victim = runner
              /\ runner' = NoOne /\ UNCHANGED <<status, gen, proc, probe>>
         /\ StopKill(c) =>
              /\ call[c].pc = "kill" /\ call'[c].pc = "stopped" /\ call'[c].victim = NoOne
              /\ UNCHANGED <<runner, status, gen, probe>>
              /\ \A d \in Calls : Alive(d)' => Alive(d) /\ d # call[c].victim
         /\ StopDone(c) =>
              /\ call[c].pc = "stopped" /\ call'[c].pc \in {"unrecord", "ready"}
              /\ call'[c].victim = call[c].victim
              /\ status' = "stopped" /\ UNCHANGED <<runner, gen, proc, probe>>
<1>0. TypeOK BY DEF Inv
<1>1. ASSUME StopDetach(c)
      PROVE  /\ call[c].pc = "detach" /\ call'[c].pc = "kill" /\ call'[c].victim = runner
             /\ runner' = NoOne /\ UNCHANGED <<status, gen, proc, probe>>
  BY <1>0, <1>1, DetachEffect DEF StopDetach, At, kids
<1>2. ASSUME StopKill(c)
      PROVE  /\ call[c].pc = "kill" /\ call'[c].pc = "stopped" /\ call'[c].victim = NoOne
             /\ UNCHANGED <<runner, status, gen, probe>>
             /\ \A d \in Calls : Alive(d)' => Alive(d) /\ d # call[c].victim
  <2>1. /\ call[c].pc = "kill" /\ call'[c].pc = "stopped" /\ call'[c].victim = NoOne
        /\ UNCHANGED <<runner, status, gen, probe>>
    BY <1>0, <1>2, KillEffect DEF StopKill, At, maps
  <2>2. ASSUME NEW d \in Calls, Alive(d)' PROVE Alive(d) /\ d # call[c].victim
    <3>. DEFINE r == call[c].victim
    <3>0. r \in Calls \cup {NoOne} BY <1>0 DEF TypeOK, CallState, Runner
    <3>1. CASE Alive(r)
      <4>1. proc' = [proc EXCEPT ![r] = "dead"] BY <1>2, <3>1 DEF StopKill
      <4>2. r \in Calls BY <3>0, <3>1 DEF Alive
      <4>3. ASSUME NEW x, x = r PROVE Alive(d) /\ d # x
        BY <1>0, <2>2, <4>1, <4>2, <4>3 DEF TypeOK, Alive
      <4>. QED BY <4>3
    <3>2. CASE ~Alive(r)
      <4>1. proc' = proc BY <1>2, <3>2 DEF StopKill
      <4>. QED BY <2>2, <3>2, <4>1 DEF Alive
    <3>. QED BY <3>1, <3>2
  <2>. QED BY <2>1, <2>2
<1>3. ASSUME StopDone(c)
      PROVE  /\ call[c].pc = "stopped" /\ call'[c].pc \in {"unrecord", "ready"}
             /\ call'[c].victim = call[c].victim
             /\ status' = "stopped" /\ UNCHANGED <<runner, gen, proc, probe>>
  <2>1. AfterStop(c) \in {"unrecord", "ready"} BY DEF AfterStop
  <2>2. AfterStop(c) \in Pcs BY <2>1 DEF Pcs, Active
  <2>. QED BY <1>0, <1>3, <2>1, <2>2, GoToEffect DEF StopDone, At, kids
<1>. QED BY <1>1, <1>2, <1>3

LEMMA StartEffects ==
  ASSUME Inv, NEW c \in Calls
  PROVE  /\ StartCheck(c) =>
              /\ call[c].pc = "check" /\ UNCHANGED <<status, gen, proc, probe>>
              /\ call'[c].victim = call[c].victim /\ call'[c].gen = call[c].gen
              /\ \/ /\ call'[c].pc = "starting" /\ runner' = NoOne /\ status # "starting"
                    /\ ~Alive(runner)
                 \/ call'[c].pc = "record" /\ runner' = runner
         /\ StartStatus(c) =>
              /\ call[c].pc = "starting" /\ call'[c].pc = "advance"
              /\ call'[c].victim = call[c].victim /\ UNCHANGED <<runner, gen, proc, probe>>
         /\ StartBump(c) =>
              /\ call[c].pc = "advance" /\ call'[c].pc = "register" /\ call'[c].gen = gen'
              /\ call'[c].victim = call[c].victim /\ UNCHANGED <<runner, status, proc, probe>>
         /\ StartRegister(c) =>
              /\ call[c].pc = "register" /\ call'[c].pc = "spawn" /\ runner' = c
              /\ call'[c].gen = call[c].gen
              /\ call'[c].victim = call[c].victim /\ UNCHANGED <<status, gen, proc, probe>>
<1>0. TypeOK BY DEF Inv
<1>. USE DEF At, Pcs, Active
<1>1. ASSUME StartCheck(c)
      PROVE  /\ call[c].pc = "check" /\ UNCHANGED <<status, gen, proc, probe>>
             /\ call'[c].victim = call[c].victim /\ call'[c].gen = call[c].gen
             /\ \/ /\ call'[c].pc = "starting" /\ runner' = NoOne /\ status # "starting"
                   /\ ~Alive(runner)
                \/ call'[c].pc = "record" /\ runner' = runner
  BY <1>0, <1>1, GoToEffect DEF StartCheck, MayStart, kids
<1>2. ASSUME StartStatus(c)
      PROVE  /\ call[c].pc = "starting" /\ call'[c].pc = "advance"
             /\ call'[c].victim = call[c].victim /\ UNCHANGED <<runner, gen, proc, probe>>
  BY <1>0, <1>2, GoToEffect DEF StartStatus, kids
<1>3. ASSUME StartBump(c)
      PROVE  /\ call[c].pc = "advance" /\ call'[c].pc = "register" /\ call'[c].gen = gen'
             /\ call'[c].victim = call[c].victim /\ UNCHANGED <<runner, status, proc, probe>>
  BY <1>0, <1>3, BumpEffect DEF StartBump, kids
<1>4. ASSUME StartRegister(c)
      PROVE  /\ call[c].pc = "register" /\ call'[c].pc = "spawn" /\ runner' = c
             /\ call'[c].gen = call[c].gen
             /\ call'[c].victim = call[c].victim /\ UNCHANGED <<status, gen, proc, probe>>
  BY <1>0, <1>4, GoToEffect DEF StartRegister, kids
<1>. QED BY <1>1, <1>2, <1>3, <1>4

LEMMA SpawnEffects ==
  ASSUME Inv, NEW c \in Calls
  PROVE  /\ Spawn(c) =>
              /\ call[c].pc = "spawn" /\ call'[c].pc = "alive" /\ call'[c].gen = call[c].gen
              /\ call'[c].victim = call[c].victim /\ UNCHANGED <<runner, status, gen, probe>>
              /\ proc'[c] = "up" /\ \A d \in Calls \ {c} : proc'[d] = proc[d]
         /\ SpawnFails(c) =>
              /\ call[c].pc = "spawn" /\ call'[c].pc = "spawnFailed"
              /\ call'[c].gen = call[c].gen
              /\ call'[c].victim = call[c].victim /\ UNCHANGED <<runner, status, gen, proc, probe>>
         /\ StartFailed(c) =>
              /\ call[c].pc = "spawnFailed" /\ call'[c].pc = "error"
              /\ call'[c].victim = call[c].victim /\ UNCHANGED <<gen, proc, probe>>
              /\ last' = [last EXCEPT !.done = c]
              /\ runner = c => runner' = NoOne /\ status' = "failed"
              /\ runner # c => UNCHANGED <<runner, status>>
         /\ StartAlive(c) =>
              /\ call[c].pc = "alive" /\ call'[c].gen = call[c].gen
              /\ call'[c].victim = call[c].victim /\ UNCHANGED <<runner, status, gen, proc>>
              /\ \/ call'[c].pc = "record" /\ probe' = [probe EXCEPT ![c] = "probing"]
                 \/ call'[c].pc = "running" /\ probe' = probe
                 \/ call'[c].pc = "record" /\ probe' = probe /\ ~Alive(c)
         /\ StartRunning(c) =>
              /\ call[c].pc = "running" /\ call'[c].pc = "record" /\ status' = "running"
              /\ call'[c].victim = call[c].victim /\ UNCHANGED <<runner, gen, proc, probe>>
<1>0. TypeOK BY DEF Inv
<1>. USE DEF At, Pcs, Active
<1>1. ASSUME Spawn(c)
      PROVE  /\ call[c].pc = "spawn" /\ call'[c].pc = "alive" /\ call'[c].gen = call[c].gen
             /\ call'[c].victim = call[c].victim /\ UNCHANGED <<runner, status, gen, probe>>
             /\ proc'[c] = "up" /\ \A d \in Calls \ {c} : proc'[d] = proc[d]
  BY <1>0, <1>1, GoToEffect DEF Spawn, maps, TypeOK
<1>2. ASSUME SpawnFails(c)
      PROVE  /\ call[c].pc = "spawn" /\ call'[c].pc = "spawnFailed"
             /\ call'[c].gen = call[c].gen
             /\ call'[c].victim = call[c].victim /\ UNCHANGED <<runner, status, gen, proc, probe>>
  BY <1>0, <1>2, GoToEffect DEF SpawnFails, maps, kids
<1>3. ASSUME StartFailed(c)
      PROVE  /\ call[c].pc = "spawnFailed" /\ call'[c].pc = "error"
             /\ call'[c].victim = call[c].victim /\ UNCHANGED <<gen, proc, probe>>
             /\ last' = [last EXCEPT !.done = c]
             /\ runner = c => runner' = NoOne /\ status' = "failed"
             /\ runner # c => UNCHANGED <<runner, status>>
  BY <1>0, <1>3, GoToEffect DEF StartFailed, kids
<1>4. ASSUME StartAlive(c)
      PROVE  /\ call[c].pc = "alive" /\ call'[c].gen = call[c].gen
             /\ call'[c].victim = call[c].victim /\ UNCHANGED <<runner, status, gen, proc>>
             /\ \/ call'[c].pc = "record" /\ probe' = [probe EXCEPT ![c] = "probing"]
                \/ call'[c].pc = "running" /\ probe' = probe
                \/ call'[c].pc = "record" /\ probe' = probe /\ ~Alive(c)
  BY <1>0, <1>4, GoToEffect DEF StartAlive, maps
<1>5. ASSUME StartRunning(c)
      PROVE  /\ call[c].pc = "running" /\ call'[c].pc = "record" /\ status' = "running"
             /\ call'[c].victim = call[c].victim /\ UNCHANGED <<runner, gen, proc, probe>>
  BY <1>0, <1>5, GoToEffect DEF StartRunning, kids
<1>. QED BY <1>1, <1>2, <1>3, <1>4, <1>5

\* All steps of a request are covered by these.
LEMMA HandlerCases ==
  ASSUME NEW c \in Calls, Handler(c)
  PROVE  \/ Plain(c) \/ HandlerApply(c) \/ StartApply(c) \/ StopDetach(c) \/ StopKill(c)
         \/ StopDone(c) \/ StartCheck(c) \/ StartStatus(c) \/ StartBump(c) \/ StartRegister(c)
         \/ Spawn(c) \/ SpawnFails(c) \/ StartFailed(c) \/ StartAlive(c) \/ StartRunning(c)
BY DEF Handler, Plain

\* A step that ends a request is the last of its handler.
LEMMA HandlerEnds ==
  ASSUME Inv, NEW c \in Calls, Handler(c), call'[c].pc \notin Active
  PROVE  /\ last'.done = c
         /\ \/ /\ call[c].pc = "flush" /\ UNCHANGED <<maps, kids>>
               /\ last'.late = last.late
            \/ call[c].pc = "spawnFailed"
<1>0. TypeOK /\ last \in LastState BY DEF Inv, TypeOK
<1>1. call[c].pc \in {"flush", "spawnFailed"}
  BY <1>0, HandlerPath DEF Edge, Active, Begin, AfterStop
<1>2. Flush(c) \/ StartFailed(c)
  BY <1>1 DEF Handler, HandlerRead, HandlerApply, HandlerForget, HandlerReflush, StopBump,
     StopDetach, StopKill, StopDone, Unrecord, SetReadiness, StartRead, StartApply, StartCheck,
     StartStatus, StartBump, StartRegister, Spawn, SpawnFails, StartAlive, StartRunning, Record, At
<1>3. last' = [last EXCEPT !.done = c] BY <1>2 DEF Flush, StartFailed
<1>4. last'.done = c /\ last'.late = last.late BY <1>0, <1>3 DEF LastState
<1>5. CASE Flush(c) BY <1>4, <1>5 DEF Flush, At
<1>6. CASE StartFailed(c) BY <1>4, <1>6 DEF StartFailed, At
<1>. QED BY <1>2, <1>5, <1>6

LEMMA HandlerRunnerByStep ==
  ASSUME Inv, Alone, RunnerByStep, NEW c \in Calls, Handler(c)
  PROVE  RunnerByStep'
<1>0. /\ \A d \in Calls \ {c} :
           call'[d] = call[d] /\ (~call[d].overlapped => call[d].pc \notin Active)
      /\ call'[c].overlapped = call[c].overlapped
  BY HandlerAlone
<1>. SUFFICES ASSUME ~call[c].overlapped
              PROVE  /\ call'[c].pc \in {"starting", "advance", "register", "kill", "stopped"}
                          => runner' = NoOne
                     /\ call'[c].pc \in {"spawn", "spawnFailed"} => runner' = c
                     /\ call'[c].pc \in {"register", "spawn", "alive"} => call'[c].gen = gen'
  BY <1>0 DEF RunnerByStep, Active
<1>1. CASE Plain(c) BY <1>1, PlainEffect
<1>2. CASE HandlerApply(c) \/ StartApply(c) BY <1>2, ReconcileStepEffect
<1>3. CASE StopDetach(c) \/ StopKill(c) \/ StopDone(c)
  BY <1>3, StopEffects DEF RunnerByStep
<1>4. CASE StartCheck(c) \/ StartStatus(c) \/ StartBump(c) \/ StartRegister(c)
  BY <1>4, StartEffects DEF RunnerByStep
<1>5. CASE Spawn(c) \/ SpawnFails(c) \/ StartFailed(c) \/ StartAlive(c) \/ StartRunning(c)
  BY <1>5, SpawnEffects DEF RunnerByStep
<1>. QED BY <1>1, <1>2, <1>3, <1>4, <1>5, HandlerCases

\* To come where it may register, a start empties the map.
LEMMA HandlerPlaces ==
  ASSUME Inv, NEW c \in Calls, Handler(c),
         call'[c].pc \in {"starting", "advance", "register"}
  PROVE  call[c].pc \in {"starting", "advance", "register"}
         \/ (runner' = NoOne /\ status # "starting" /\ status' = status)
<1>1. CASE Plain(c) BY <1>1, PlainEffect
<1>2. CASE HandlerApply(c) \/ StartApply(c) BY <1>2, ReconcileStepEffect
<1>3. CASE StopDetach(c) \/ StopKill(c) \/ StopDone(c) BY <1>3, StopEffects
<1>4. CASE StartCheck(c) \/ StartStatus(c) \/ StartBump(c) \/ StartRegister(c)
  BY <1>4, StartEffects
<1>5. CASE Spawn(c) \/ SpawnFails(c) \/ StartFailed(c) \/ StartAlive(c) \/ StartRunning(c)
  BY <1>5, SpawnEffects
<1>. QED BY <1>1, <1>2, <1>3, <1>4, <1>5, HandlerCases

LEMMA HandlerKeepsItsPlace ==
  ASSUME Inv, Alone, KeepsItsPlace, NEW c \in Calls, Handler(c)
  PROVE  KeepsItsPlace'
<1>0. /\ \A d \in Calls \ {c} :
           /\ call'[d] = call[d]
           /\ ~call[c].overlapped \/ ~call[d].overlapped => call[d].pc \notin Active
      /\ call'[c].overlapped = call[c].overlapped /\ NoOne \notin Calls
  BY HandlerAlone, ProcessConstants
<1>. SUFFICES ASSUME NEW x \in Calls, NEW d \in Calls, runner' = x, ~call[x].overlapped, d # x
              PROVE  call'[d].pc \notin {"starting", "advance", "register"}
  BY <1>0 DEF KeepsItsPlace
<1>1. CASE StartRegister(c) /\ runner' = c BY <1>0, <1>1 DEF Active
<1>2. CASE runner' = runner
  BY <1>0, <1>2, HandlerPlaces DEF KeepsItsPlace
<1>. QED BY <1>0, <1>1, <1>2, HandlerRunner

\* A request drops a runner from the map only dead or into its own hands.
LEMMA HandlerNoOrphan ==
  ASSUME Inv, Alone, RunnerByStep, KeepsItsPlace, NoOrphan, NEW c \in Calls, Handler(c)
  PROVE  NoOrphan'
<1>0. /\ \A d \in Calls \ {c} : call'[d] = call[d]
      /\ call'[c].overlapped = call[c].overlapped /\ NoOne \notin Calls
  BY HandlerAlone, ProcessConstants
<1>. SUFFICES ASSUME NEW d \in Calls, Alive(d)', ~call[d].overlapped,
                     \A e \in Calls \ {c} : call[e].victim # d
              PROVE  runner' = d \/ call'[c].victim = d
  BY <1>0 DEF NoOrphan, Held
<1>a. Alive(d) => runner = d \/ call[c].victim = d BY <1>0 DEF NoOrphan, Held
<1>b. proc' = proc => Alive(d) BY DEF Alive
<1>c. call[c].pc # "kill" => call[c].victim # d BY <1>0 DEF Inv, VictimsHeld
<1>1. CASE Plain(c) BY <1>1, <1>a, <1>b, PlainEffect
<1>2. CASE HandlerApply(c) \/ StartApply(c)
  BY <1>2, <1>a, <1>b, ReconcileStepEffect DEF Alive
<1>3. CASE StopDetach(c) BY <1>3, <1>a, <1>b, <1>c, StopEffects
<1>4. CASE StopKill(c) \/ StopDone(c) BY <1>4, <1>a, <1>b, StopEffects
<1>5. CASE StartCheck(c) \/ StartStatus(c) \/ StartBump(c)
  BY <1>5, <1>a, <1>b, StartEffects
<1>6. CASE StartRegister(c)
  <2>1. runner = d BY <1>6, <1>a, <1>b, <1>c, StartEffects
  <2>2. d = c BY <1>6, <2>1, StartEffects DEF KeepsItsPlace
  <2>. QED BY <1>6, <2>2, StartEffects
<1>7. CASE Spawn(c)
  <2>1. d # c => Alive(d) BY <1>7, SpawnEffects DEF Alive
  <2>. QED BY <1>7, <1>a, <2>1, SpawnEffects DEF RunnerByStep
<1>8. CASE StartFailed(c)
  <2>1. proc[c] = "none" BY <1>8, SpawnEffects DEF Inv, Unspawned
  <2>2. d # c BY <1>8, <1>b, <2>1, SpawnEffects DEF Alive
  <2>. QED BY <1>8, <1>a, <1>b, <1>c, <2>2, SpawnEffects
<1>9. CASE SpawnFails(c) \/ StartAlive(c) \/ StartRunning(c)
  BY <1>9, <1>a, <1>b, SpawnEffects
<1>. QED BY <1>1, <1>2, <1>3, <1>4, <1>5, <1>6, <1>7, <1>8, <1>9, HandlerCases

\* A stop leaves the map without the runners of before, ...
LEMMA HandlerStopReaches ==
  ASSUME Inv, Alone, StopReaches, NEW c \in Calls, Handler(c)
  PROVE  StopReaches'
<1>. DEFINE Late == {"kill", "stopped", "unrecord", "flush"}
<1>0. /\ \A d \in Calls \ {c} :
           /\ call'[d] = call[d]
           /\ ~call[c].overlapped \/ ~call[d].overlapped => call[d].pc \notin Active
      /\ call'[c].overlapped = call[c].overlapped /\ call'[c].kind = call[c].kind
      /\ call[c].pc \in Active /\ NoOne \notin Calls /\ TypeOK
  BY HandlerAlone, ProcessConstants DEF Inv
<1>a. call[c].kind = "stop" =>
        call[c].pc \in {"read", "apply", "forget", "reflush", "bump", "detach", "kill", "stopped",
                        "unrecord", "flush"}
  BY <1>0 DEF Inv, StopsOnly
<1>1. ASSUME NEW x \in Calls, NEW d \in Calls, ~call[x].overlapped, call[d].kind = "stop",
             call'[d].pc \in Late
      PROVE  runner' # x
  <2>. SUFFICES ASSUME runner' = x PROVE FALSE OBVIOUS
  <2>1. CASE StartRegister(c) /\ runner' = c
    <3>1. call'[c].pc = "spawn" BY <2>1, StartEffects
    <3>. QED BY <1>0, <1>1, <2>1, <3>1 DEF Active
  <2>2. CASE runner' = runner
    <3>1. call[d].pc \notin Late BY <1>1, <2>2 DEF StopReaches
    <3>2. d = c BY <1>0, <1>1, <3>1
    <3>3. StopDetach(c) BY <1>0, <1>1, <1>a, <3>1, <3>2, HandlerPath DEF Edge, Begin, AfterStop
    <3>. QED BY <1>0, <3>3, StopEffects
  <2>. QED BY <1>0, <2>1, <2>2, HandlerRunner
<1>2. ASSUME NEW x \in Calls, ~call[x].overlapped, Stopped' PROVE runner' # x
  <2>1. call'[c].pc \notin Active BY <1>2 DEF Stopped, Busy
  <2>2. last'.done = c /\ (call[c].pc = "spawnFailed" \/ (call[c].pc = "flush" /\ runner' = runner))
    BY <2>1, HandlerEnds DEF maps
  <2>3. call[c].kind = "stop" BY <1>0, <1>2, <2>2 DEF Stopped
  <2>. QED BY <1>2, <1>a, <2>2, <2>3 DEF StopReaches
<1>3. \A x \in Calls : call'[x].kind = call[x].kind /\ call'[x].overlapped = call[x].overlapped
  BY <1>0
<1>. QED BY <1>1, <1>2, <1>3 DEF StopReaches

\* ... and, when no other ran beside it, empty and with its own verdict.
LEMMA HandlerStopHolds ==
  ASSUME Inv, Alone, RunnerByStep, StopHolds, NEW c \in Calls, Handler(c)
  PROVE  StopHolds'
<1>0. /\ \A d \in Calls \ {c} :
           call'[d] = call[d] /\ (~call[d].overlapped => call[d].pc \notin Active)
      /\ call'[c].overlapped = call[c].overlapped /\ call'[c].kind = call[c].kind
      /\ call[c].pc \in Active /\ TypeOK
  BY HandlerAlone DEF Inv
<1>. DEFINE Done == runner' = NoOne /\ (status' = "stopped" \/ last'.late)
<1>s. SUFFICES ASSUME call[c].kind = "stop", ~call[c].overlapped,
                      call'[c].pc \in {"unrecord", "flush"} \/ call'[c].pc \notin Active
               PROVE  Done
  <2>1. Busy' = {} => call'[c].pc \notin Active /\ last'.done = c BY HandlerEnds DEF Busy
  <2>2. ASSUME NEW x \in Calls, call'[x].kind = "stop", ~call'[x].overlapped,
               call'[x].pc \in {"unrecord", "flush"} \/ (Busy' = {} /\ last'.done = x)
        PROVE  Done
    <3>1. x = c BY <1>0, <2>1, <2>2 DEF Active
    <3>. QED BY <1>0, <1>s, <2>1, <2>2, <3>1
  <2>. QED BY <2>2 DEF StopHolds
<1>a. call[c].pc \in {"read", "apply", "forget", "reflush", "bump", "detach", "kill", "stopped",
                      "unrecord", "flush"}
  BY <1>0, <1>s DEF Inv, StopsOnly
<1>1. CASE call'[c].pc \notin Active
  <2>1. call[c].pc = "flush" /\ UNCHANGED <<maps, kids>> /\ last'.late = last.late
    BY <1>1, <1>a, HandlerEnds
  <2>. QED BY <1>s, <2>1 DEF StopHolds, maps
<1>2. CASE call'[c].pc \in {"unrecord", "flush"}
  <2>1. call[c].pc \in {"unrecord", "stopped"}
    BY <1>0, <1>s, <1>2, <1>a, HandlerPath DEF Edge, Begin, AfterStop
  <2>2. Unrecord(c) \/ StopDone(c)
    BY <2>1 DEF Handler, HandlerRead, HandlerApply, HandlerForget, HandlerReflush, StopBump,
       StopDetach, StopKill, SetReadiness, StartRead, StartApply, StartCheck, StartStatus,
       StartBump, StartRegister, Spawn, SpawnFails, StartFailed, StartAlive, StartRunning, Record,
       Flush, At
  <2>3. CASE Unrecord(c) BY <1>s, <2>3 DEF Unrecord, At, maps, StopHolds
  <2>4. CASE StopDone(c) BY <1>s, <2>4, StopEffects DEF RunnerByStep
  <2>. QED BY <2>2, <2>3, <2>4
<1>. QED BY <1>s, <1>1, <1>2

\* The generation only grows, and only a start takes the new one.
LEMMA HandlerGens ==
  ASSUME Inv, NEW c \in Calls, Handler(c)
  PROVE  \/ gen' = gen /\ \A d \in Calls : call'[d].gen = call[d].gen
         \/ /\ gen' = gen + 1 /\ call[c].pc = "bump"
            /\ UNCHANGED probe /\ \A d \in Calls : call'[d].gen = call[d].gen
         \/ /\ gen' = gen + 1 /\ call[c].pc = "advance" /\ call'[c].gen = gen'
            /\ UNCHANGED probe /\ \A d \in Calls \ {c} : call'[d].gen = call[d].gen
<1>0. TypeOK /\ LooksAreTrue /\ c \in Actors BY DEF Inv, Actors
<1>1. \A d \in Calls \ {c} : call'[d] = call[d] BY <1>0, HandlerIsBusy
<1>2. CASE StartBump(c)
  BY <1>0, <1>1, <1>2, BumpEffect DEF StartBump, At, kids
<1>3. ASSUME ~StartBump(c) PROVE call'[c].gen = call[c].gen
  <2>1. CASE StopDetach(c) BY <1>0, <2>1, DetachEffect
  <2>2. CASE StopKill(c) BY <1>0, <2>2, KillEffect
  <2>3. CASE Moves(c)
    <3>1. PICK pc \in Pcs : GoTo(c, pc) BY <2>3, MovesAlong
    <3>. QED BY <1>0, <3>1, GoToEffect
  <2>. QED BY <1>3, <2>1, <2>2, <2>3 DEF Handler, Moves
<1>4. CASE StopBump(c)
  <2>1. ~StartBump(c) BY <1>4 DEF StopBump, StartBump, At
  <2>. QED BY <1>1, <1>3, <1>4, <2>1 DEF StopBump, At, kids
<1>5. CASE HandlerApply(c) \/ StartApply(c)
  <2>1. gen' = gen BY <1>5, ReconcileStepEffect
  <2>2. ~StartBump(c) BY <1>5 DEF HandlerApply, StartApply, StartBump, At
  <2>. QED BY <1>1, <1>3, <2>1, <2>2
<1>6. ASSUME ~StartBump(c), ~StopBump(c), ~HandlerApply(c), ~StartApply(c) PROVE gen' = gen
  BY <1>6 DEF Handler, HandlerRead, HandlerForget, HandlerReflush,
     StopDetach, StopKill, StopDone, Unrecord, SetReadiness, StartRead, StartCheck,
     StartStatus, StartRegister, Spawn, SpawnFails, StartFailed, StartAlive, StartRunning, Record,
     Flush, maps
<1>. QED BY <1>1, <1>2, <1>3, <1>4, <1>5, <1>6

\* Only StartAlive gives a request a probe.
LEMMA HandlerProbes ==
  ASSUME Inv, NEW c \in Calls, Handler(c), NEW d \in Calls, probe'[d] # "none", probe[d] = "none"
  PROVE  d = c /\ call[c].pc = "alive"
<1>1. CASE StartAlive(c) BY <1>1, SpawnEffects DEF Inv, TypeOK
<1>2. CASE UNCHANGED probe BY <1>2
<1>. QED
  BY <1>1, <1>2 DEF Handler, HandlerRead, HandlerApply, HandlerForget, HandlerReflush, StopBump,
     StopDetach, StopKill, StopDone, Unrecord, SetReadiness, StartRead, StartApply, StartCheck,
     StartStatus, StartBump, StartRegister, Spawn, SpawnFails, StartFailed, StartRunning, Record,
     Flush, kids

LEMMA HandlerGenerations ==
  ASSUME Inv, Alone, Generations, NEW c \in Calls, Handler(c)
  PROVE  Generations'
<1>0. /\ \A d \in Calls \ {c} :
           call'[d] = call[d] /\ (~call[d].overlapped => call[d].pc \notin Active)
      /\ call'[c].overlapped = call[c].overlapped /\ call'[c].kind = call[c].kind
      /\ call[c].pc \in Active /\ TypeOK
  BY HandlerAlone DEF Inv
<1>1. gen \in Nat /\ \A d \in Calls : call[d].gen \in Nat BY <1>0 DEF TypeOK, CallState
<1>2. \A d \in Calls : call[d].gen <= gen BY DEF Generations
<1>3. \A d \in Calls : call'[d].gen <= gen' BY <1>1, <1>2, HandlerGens
<1>. DEFINE Past == {"detach", "kill", "stopped", "unrecord", "flush"}
<1>4. ASSUME call[c].kind = "stop", ~call[c].overlapped,
             call'[c].pc \in Past \/ call'[c].pc \notin Active,
             NEW d \in Calls, probe'[d] # "none"
      PROVE  call'[d].gen # gen'
  <2>1. call[c].pc \in {"read", "apply", "forget", "reflush", "bump", "detach", "kill", "stopped",
                        "unrecord", "flush"}
    BY <1>0, <1>4 DEF Inv, StopsOnly
  <2>2. call[c].pc \in Past \cup {"bump"}
    BY <1>0, <1>4, <2>1, HandlerPath DEF Edge, Begin, AfterStop, Active
  <2>3. probe[d] # "none" BY <1>4, <2>1, HandlerProbes
  <2>4. CASE gen' = gen + 1
    <3>1. call'[d].gen = call[d].gen BY <1>1, <2>1, <2>4, HandlerGens
    <3>. QED BY <1>1, <1>2, <2>4, <3>1
  <2>5. CASE gen' = gen
    <3>1. call'[d].gen = call[d].gen BY <1>1, <2>5, HandlerGens
    <3>2. call[c].pc # "bump"
      <4>1. call[c].pc = "bump" => StopBump(c)
        BY DEF Handler, HandlerRead, HandlerApply, HandlerForget, HandlerReflush,
           StopDetach, StopKill, StopDone, Unrecord, SetReadiness, StartRead, StartApply,
           StartCheck, StartStatus, StartBump, StartRegister, Spawn, SpawnFails, StartFailed,
           StartAlive, StartRunning, Record, Flush, At
      <4>. QED BY <1>1, <2>5, <4>1 DEF StopBump
    <3>. QED BY <1>4, <2>2, <2>3, <2>5, <3>1, <3>2 DEF Generations
  <2>. QED BY <2>4, <2>5, HandlerGens
<1>5. Busy' = {} => call'[c].pc \notin Active /\ last'.done = c BY HandlerEnds DEF Busy
<1>6. ASSUME NEW x \in Calls, call'[x].kind = "stop", ~call'[x].overlapped,
             call'[x].pc \in Past \/ (Busy' = {} /\ last'.done = x),
             NEW d \in Calls, probe'[d] # "none"
      PROVE  call'[d].gen # gen'
  <2>1. x = c BY <1>0, <1>5, <1>6 DEF Active
  <2>. QED BY <1>0, <1>4, <1>5, <1>6, <2>1
<1>. QED BY <1>3, <1>6 DEF Generations

LEMMA HandlerStartingHolds ==
  ASSUME Inv, Alone, RunnerByStep, StartingHolds, NEW c \in Calls, Handler(c)
  PROVE  StartingHolds'
<1>. DEFINE Between == {"advance", "register", "kill", "stopped"}
<1>0. /\ \A d \in Calls \ {c} :
           call'[d] = call[d] /\ (~call[d].overlapped => call[d].pc \notin Active)
      /\ call'[c].overlapped = call[c].overlapped /\ NoOne \notin Calls
  BY HandlerAlone, ProcessConstants
<1>1. ASSUME \A d \in Calls \ {c} : call[d].pc \notin Between
      PROVE  status' = "starting" => runner' # NoOne \/ call'[c].pc \in Between
  <2>a. status = "starting" => runner # NoOne \/ call[c].pc \in Between
    BY <1>1 DEF StartingHolds
  <2>1. CASE Plain(c) BY <2>1, <2>a, PlainEffect
  <2>2. CASE HandlerApply(c) \/ StartApply(c) BY <2>2, <2>a, ReconcileStepEffect
  <2>3. CASE StopDetach(c) \/ StopKill(c) \/ StopDone(c) BY <2>3, <2>a, StopEffects
  <2>4. CASE StartCheck(c) \/ StartStatus(c) \/ StartBump(c) \/ StartRegister(c)
    BY <1>0, <2>4, <2>a, StartEffects
  <2>5. CASE Spawn(c) \/ SpawnFails(c) \/ StartFailed(c) \/ StartAlive(c) \/ StartRunning(c)
    BY <1>0, <2>5, <2>a, SpawnEffects
  <2>. QED BY <2>1, <2>2, <2>3, <2>4, <2>5, HandlerCases
<1>2. status' = "starting" => runner' # NoOne \/ \E d \in Calls : call'[d].pc \in Between
  BY <1>0, <1>1
<1>3. ASSUME ~call[c].overlapped, call'[c].pc = "alive", status' = "starting" PROVE runner' = c
  <2>1. CASE Plain(c) BY <1>3, <2>1, PlainEffect
  <2>2. CASE HandlerApply(c) \/ StartApply(c) BY <1>3, <2>2, ReconcileStepEffect
  <2>3. CASE StopDetach(c) \/ StopKill(c) \/ StopDone(c) BY <1>3, <2>3, StopEffects
  <2>4. CASE StartCheck(c) \/ StartStatus(c) \/ StartBump(c) \/ StartRegister(c)
    BY <1>3, <2>4, StartEffects
  <2>5. CASE Spawn(c) \/ SpawnFails(c) \/ StartFailed(c) \/ StartAlive(c) \/ StartRunning(c)
    BY <1>3, <2>5, SpawnEffects DEF RunnerByStep
  <2>. QED BY <2>1, <2>2, <2>3, <2>4, <2>5, HandlerCases
<1>c. ASSUME runner' # NoOne
      PROVE  proc'[runner'] # "none" \/ call'[runner'].pc \in {"spawn", "spawnFailed"}
  <2>1. CASE StartRegister(c) BY <2>1, StartEffects
  <2>2. CASE runner' = runner /\ proc'[runner] = "none"
    <3>1. runner \in Calls BY <1>c, <2>2 DEF Inv, TypeOK, Runner
    <3>2. proc[runner] = "none" /\ ~(Spawn(c) /\ runner = c) BY <2>2, <3>1, HandlerKids
    <3>3. call[runner].pc \in {"spawn", "spawnFailed"} BY <3>1, <3>2, <1>c, <2>2 DEF StartingHolds
    <3>4. CASE runner # c BY <1>0, <2>2, <3>1, <3>3, <3>4
    <3>5. CASE runner = c
      <4>1. ~StartFailed(c) BY <1>c, <3>5, SpawnEffects
      <4>2. SpawnFails(c)
        BY <3>2, <3>3, <3>5, <4>1, HandlerCases, PlainEffect, ReconcileStepEffect, StopEffects,
           StartEffects, SpawnEffects
      <4>. QED BY <2>2, <3>5, <4>2, SpawnEffects
    <3>. QED BY <3>4, <3>5
  <2>. QED BY <1>c, <2>1, <2>2, HandlerRunner
<1>4. \A d \in Calls :
        call'[d].pc = "alive" /\ ~call'[d].overlapped /\ status' = "starting" => runner' = d
  BY <1>0, <1>3 DEF Active
<1>. QED BY <1>2, <1>4, <1>c DEF StartingHolds

\* The steps that write "starting", and those that lead on in a start.
LEMMA HandlerStarts ==
  ASSUME Inv, NEW c \in Calls, Handler(c)
  PROVE  /\ status' = "starting" =>
              \/ StartStatus(c) /\ last'.starter = c /\ call'[c].pc = "advance"
              \/ status = "starting" /\ last'.starter = last.starter
         /\ call'[c].pc # "idle"
         /\ call'[c].pc \in {"spawn", "spawnFailed", "alive", "running"} =>
              call[c].pc \in {"register", "spawn", "alive"}
<1>0. TypeOK /\ last \in LastState BY DEF Inv, TypeOK
<1>1. CASE StartStatus(c) BY <1>0, <1>1, StartEffects DEF StartStatus, LastState
<1>2. ASSUME ~StartStatus(c), status' = "starting" PROVE status = "starting"
  <2>1. CASE Plain(c) BY <1>2, <2>1, PlainEffect
  <2>2. CASE HandlerApply(c) \/ StartApply(c) BY <1>2, <2>2, ReconcileStepEffect
  <2>3. CASE StopDetach(c) \/ StopKill(c) \/ StopDone(c) BY <1>2, <2>3, StopEffects
  <2>4. CASE StartCheck(c) \/ StartBump(c) \/ StartRegister(c) BY <1>2, <2>4, StartEffects
  <2>5. CASE Spawn(c) \/ SpawnFails(c) \/ StartFailed(c) \/ StartAlive(c) \/ StartRunning(c)
    BY <1>2, <2>5, SpawnEffects
  <2>. QED BY <1>2, <2>1, <2>2, <2>3, <2>4, <2>5, HandlerCases
<1>3. ~StartStatus(c) => last'.starter = last.starter
  BY <1>0 DEF Handler, HandlerRead, HandlerApply, HandlerForget, HandlerReflush, StopBump,
     StopDetach, StopKill, StopDone, Unrecord, SetReadiness, StartRead, StartApply, StartCheck,
     StartBump, StartRegister, Spawn, SpawnFails, StartFailed, StartAlive, StartRunning,
     Record, Flush, LastState
<1>4. /\ call'[c].pc # "idle"
      /\ call'[c].pc \in {"spawn", "spawnFailed", "alive", "running"} =>
           call[c].pc \in {"register", "spawn", "alive"}
  BY <1>0, HandlerPath DEF Edge, Begin, AfterStop
<1>. QED BY <1>1, <1>2, <1>3, <1>4

LEMMA HandlerStarterIsKnown ==
  ASSUME Inv, Alone, StarterIsKnown, NEW c \in Calls, Handler(c)
  PROVE  StarterIsKnown'
<1>. SUFFICES ASSUME status' = "starting" PROVE StarterIsKnown' BY DEF StarterIsKnown
<1>0. /\ \A d \in Calls \ {c} :
           call'[d] = call[d] /\ (~call[c].overlapped => call[d].pc \notin Active)
      /\ call'[c].overlapped = call[c].overlapped
  BY HandlerAlone
<1>1. CASE StartStatus(c) /\ last'.starter = c /\ call'[c].pc = "advance"
  BY <1>0, <1>1 DEF StarterIsKnown, Active
<1>2. CASE status = "starting" /\ last'.starter = last.starter
  <2>1. last.starter \in Calls /\ call'[last.starter].pc # "idle"
    BY <1>0, <1>2, HandlerStarts DEF StarterIsKnown
  <2>2. ASSUME ~call[last.starter].overlapped, NEW d \in Calls \ {last.starter}
        PROVE  call'[d].pc \notin {"starting", "advance", "register", "spawn", "spawnFailed",
                                   "alive", "running"}
    BY <1>0, <1>2, <2>2, HandlerStarts, HandlerPlaces DEF StarterIsKnown
  <2>. QED BY <1>0, <1>2, <2>1, <2>2 DEF StarterIsKnown
<1>. QED BY <1>1, <1>2, HandlerStarts

\* A request leaves a deployment "starting" only with somebody to attend to it.
LEMMA HandlerAttends ==
  ASSUME Inv, Alone, RunnerByStep, StartingHolds, StarterIsKnown, StartingIsAttended,
         NEW c \in Calls, Handler(c)
  PROVE  StartingIsAttended'
<1>. DEFINE Going == {"advance", "register", "spawn", "spawnFailed", "alive",
                      "running", "detach", "kill", "stopped"}
            Live == {"probing", "passed", "commit", "expired"}
<1>s. SUFFICES ASSUME status' = "starting", ~call'[last'.starter].overlapped
               PROVE  StartingIsAttended'
  BY DEF StartingIsAttended
<1>0. /\ \A d \in Calls \ {c} : call'[d] = call[d]
      /\ call'[c].overlapped = call[c].overlapped /\ NoOne \notin Calls
  BY HandlerAlone, ProcessConstants
<1>a. ASSUME call'[c].pc \in Going PROVE StartingIsAttended'
  BY <1>a DEF StartingIsAttended
<1>g. ~StartStatus(c) =>
        /\ status = "starting" /\ last'.starter = last.starter
        /\ last.starter \in Calls /\ ~call[last.starter].overlapped
  BY <1>0, <1>s, HandlerStarts DEF StarterIsKnown
<1>b. ASSUME ~StartStatus(c), call[c].pc \notin Going, runner' = runner,
             call'[c].gen = call[c].gen, UNCHANGED <<gen, proc, probe>>
      PROVE  StartingIsAttended'
  <2>1. \A d \in Calls : call'[d].gen = call[d].gen BY <1>0, <1>b
  <2>2. \A d \in Calls : call[d].pc \in Going => call'[d].pc \in Going BY <1>0, <1>b
  <2>. QED BY <1>b, <1>g, <2>1, <2>2 DEF StartingIsAttended
<1>n. \A pc \in {"check", "spawn", "spawnFailed", "alive", "apply", "reapply", "read", "forget",
                  "reflush", "bump", "unrecord", "ready", "reread", "record", "flush"} :
        call[c].pc = pc => ~StartStatus(c)
  BY DEF StartStatus, At
<1>1. CASE Plain(c) BY <1>1, <1>a, <1>b, <1>n, PlainEffect
<1>2. CASE HandlerApply(c) \/ StartApply(c) BY <1>2, <1>b, <1>n, <1>s, ReconcileStepEffect
<1>3. CASE StopDetach(c) \/ StopKill(c) \/ StopDone(c) BY <1>3, <1>a, <1>s, StopEffects
<1>4. CASE StartCheck(c) BY <1>4, <1>b, <1>n, <1>s, StartEffects
<1>5. CASE StartStatus(c) \/ StartBump(c) \/ StartRegister(c) BY <1>5, <1>a, StartEffects
<1>6. CASE Spawn(c) \/ SpawnFails(c) BY <1>6, <1>a, SpawnEffects
<1>7. CASE StartFailed(c)
  <2>1. call[c].pc = "spawnFailed" BY <1>7, SpawnEffects
  <2>2. c = last.starter BY <1>g, <1>n, <2>1 DEF StarterIsKnown
  <2>3. runner = c BY <1>g, <1>n, <2>1, <2>2 DEF RunnerByStep
  <2>. QED BY <1>7, <1>s, <2>3, SpawnEffects
<1>8. CASE StartRunning(c) BY <1>8, <1>s, SpawnEffects
<1>9. CASE StartAlive(c)
  <2>0. /\ call[c].pc = "alive" /\ call'[c].gen = call[c].gen
        /\ UNCHANGED <<runner, status, gen, proc>>
    BY <1>9, SpawnEffects
  <2>9. ~call[c].overlapped BY <1>g, <1>n, <2>0 DEF StarterIsKnown
  <2>1. CASE probe' = [probe EXCEPT ![c] = "probing"]
    <3>1. probe'[c] = "probing" BY <2>1 DEF Inv, TypeOK
    <3>2. call'[c].gen = gen' BY <2>0, <2>9 DEF RunnerByStep
    <3>. QED BY <3>1, <3>2 DEF StartingIsAttended
  <2>2. CASE call'[c].pc = "running" BY <1>a, <2>2
  <2>3. CASE ~Alive(c)
    <3>1. runner = c BY <1>s, <2>0, <2>9 DEF StartingHolds
    <3>2. proc[c] # "none" BY <1>0, <2>0, <3>1 DEF StartingHolds
    <3>3. proc[c] = "dead" BY <1>0, <2>3, <3>2 DEF Alive, Inv, TypeOK
    <3>. QED BY <1>0, <2>0, <3>1, <3>3 DEF StartingIsAttended
  <2>. QED BY <1>9, <2>1, <2>2, <2>3, SpawnEffects
<1>. QED BY <1>1, <1>2, <1>3, <1>4, <1>5, <1>6, <1>7, <1>8, <1>9, HandlerCases

-----------------------------------------------------------------------------
(* The steps around the requests.                                           *)

\* A probe of the current generation that gives up leaves a dead runner, a
\* verdict or a request on its way behind.
LEMMA ProbeAttends ==
  ASSUME Inv, StartingHolds, StartingIsAttended, NEW c \in Calls, Probe(c)
  PROVE  StartingIsAttended'
<1>0. TypeOK /\ NoOne \notin Calls /\ last \in LastState BY ProcessConstants DEF Inv, TypeOK
<1>1. UNCHANGED <<runner, gen, call, proc>> /\ last'.starter = last.starter
  BY <1>0 DEF Probe, ProbeAnswers, ProbeExpired, ProbeLooks, ProbeCommits, ProbeWrites, maps,
     LastState
<1>s. SUFFICES ASSUME status' = "starting", ~call[last.starter].overlapped
               PROVE  StartingIsAttended'
  BY <1>1 DEF StartingIsAttended
<1>2. ~ProbeExpired(c) /\ ~ProbeCommits(c) BY <1>s DEF ProbeExpired, ProbeCommits, ProbeWrites
<1>3. CASE \E pc \in {"passed", "expired"} : ProbeAnswers(c, pc)
  <2>1. PICK pc \in {"passed", "expired"} : ProbeAnswers(c, pc) BY <1>3
  <2>2. /\ probe[c] = "probing" /\ status' = status
        /\ probe' = [probe EXCEPT ![c] = IF gen # call[c].gen THEN "done" ELSE pc]
    BY <2>1 DEF ProbeAnswers, maps
  <2>3. /\ \A d \in Calls \ {c} : probe'[d] = probe[d]
        /\ gen = call[c].gen => probe'[c] \in {"passed", "expired"}
    BY <1>0, <2>2 DEF TypeOK
  <2>. QED BY <1>1, <1>s, <2>2, <2>3 DEF StartingIsAttended
<1>4. CASE ProbeLooks(c)
  <2>1. /\ probe[c] = "passed" /\ status' = status
        /\ probe' = [probe EXCEPT ![c] = IF Alive(runner) THEN "commit" ELSE "done"]
    BY <1>4 DEF ProbeLooks, maps
  <2>2. CASE Alive(runner)
    <3>1. probe'[c] = "commit" /\ \A d \in Calls \ {c} : probe'[d] = probe[d]
      BY <1>0, <2>1, <2>2 DEF TypeOK
    <3>. QED BY <1>1, <1>s, <2>1, <3>1 DEF StartingIsAttended
  <2>3. CASE ~Alive(runner)
    <3>1. runner \in Calls \cup {NoOne} BY <1>0 DEF TypeOK, Runner
    <3>2. CASE runner = NoOne BY <1>1, <1>s, <2>1, <3>2 DEF StartingHolds, StartingIsAttended
    <3>3. CASE runner \in Calls /\ proc[runner] = "none"
      <4>1. call[runner].pc \in {"spawn", "spawnFailed"} BY <1>0, <3>3 DEF StartingHolds
      <4>. QED BY <1>1, <3>3, <4>1 DEF StartingIsAttended
    <3>4. CASE runner \in Calls /\ proc[runner] # "none"
      <4>1. proc[runner] = "dead" BY <1>0, <2>3, <3>4 DEF TypeOK, Alive
      <4>. QED BY <1>0, <1>1, <3>4, <4>1 DEF StartingIsAttended
    <3>. QED BY <3>1, <3>2, <3>3, <3>4
  <2>. QED BY <2>2, <2>3
<1>. QED BY <1>2, <1>3, <1>4 DEF Probe

LEMMA AroundFull ==
  ASSUME FullInv, Around
  PROVE  FullInv'
<1>0. Inv /\ NoOne \notin Calls BY ProcessConstants DEF FullInv
<1>1. /\ UNCHANGED <<call, gen>>
      /\ last'.done = last.done /\ last'.starter = last.starter
      /\ (last.late => last'.late)
      /\ \A c \in Calls : probe'[c] # "none" => probe[c] # "none"
      /\ \A c \in Calls : proc[c] \in {"none", "dead"} => proc'[c] = proc[c]
      /\ \A c \in Calls : proc[c] \in {"up", "background"} => proc'[c] # "none"
      /\ \A c \in Calls : proc'[c] \in {"up", "background"} => proc[c] \in {"up", "background"}
      /\ \/ runner' = runner
         \/ runner' = NoOne /\ runner \in Calls /\ proc[runner] = "dead" /\ status' # "starting"
      /\ status' = "starting" => status = "starting"
      /\ runner = NoOne =>
           \/ status' = status \/ last'.late
           \/ \E c \in Calls : probe[c] # "none" /\ call[c].gen = gen
  BY <1>0, AroundEffect
<1>2. Inv' BY <1>0, InvStep DEF Next, Around
<1>3. Alone' BY <1>1 DEF FullInv, Alone, Busy
<1>4. RunnerByStep'
  <2>1. \A c \in Calls : call[c].pc \in {"spawn", "spawnFailed"} => proc[c] = "none"
    BY DEF FullInv, Inv, Unspawned
  <2>. QED BY <1>0, <1>1, <2>1 DEF FullInv, RunnerByStep
<1>5. KeepsItsPlace' BY <1>0, <1>1 DEF FullInv, KeepsItsPlace
<1>6. NoOrphan' BY <1>0, <1>1 DEF FullInv, NoOrphan, Held, Alive
<1>7. StopReaches' BY <1>0, <1>1 DEF FullInv, StopReaches, Stopped, Busy
<1>8. Generations' BY <1>1 DEF FullInv, Generations, Busy
<1>9. StopHolds'
  <2>. SUFFICES ASSUME NEW c \in Calls, call[c].kind = "stop", ~call[c].overlapped,
                       call[c].pc \in {"unrecord", "flush"} \/ (Busy = {} /\ last.done = c)
                PROVE  runner' = NoOne /\ (status' = "stopped" \/ last'.late)
    BY <1>1 DEF StopHolds, Busy
  <2>1. runner = NoOne /\ (status = "stopped" \/ last.late) BY DEF FullInv, StopHolds
  <2>2. ~\E d \in Calls : probe[d] # "none" /\ call[d].gen = gen BY DEF FullInv, Generations
  <2>. QED BY <1>0, <1>1, <2>1, <2>2
<1>10. StartingHolds'
  <2>1. runner \in Calls \cup {NoOne} /\ proc \in [Calls -> {"none", "up", "background", "dead"}]
    BY <1>0 DEF Inv, TypeOK, Runner
  <2>. QED BY <1>0, <1>1, <2>1 DEF FullInv, StartingHolds
<1>11. StarterIsKnown' BY <1>1 DEF FullInv, StarterIsKnown
<1>12. StartingIsAttended'
  <2>1. CASE \E c \in Calls : Probe(c) BY <1>0, <2>1, ProbeAttends DEF FullInv
  <2>2. CASE probe' = probe
    <3>1. runner \in Calls \cup {NoOne} BY <1>0 DEF Inv, TypeOK, Runner
    <3>. QED BY <1>0, <1>1, <2>2, <3>1 DEF FullInv, StartingIsAttended
  <2>. QED
    BY <2>1, <2>2 DEF Around, ReconcileLoop, LoopRead, LoopApply, LoopForget, LoopFlush, Watch,
       WaitReturns, ExitLooks, ExitKeeps, ExitEnds, ShellExits, BackgroundDies, kids
<1>. QED
  BY <1>2, <1>3, <1>4, <1>5, <1>6, <1>7, <1>8, <1>9, <1>10, <1>11, <1>12 DEF FullInv

\* A request that begins marks those it finds, and itself if there are any.
LEMMA RequestFull ==
  ASSUME FullInv, NEW c \in Calls, NEW kind \in Kinds, Request(c, kind)
  PROVE  FullInv'
<1>0. Inv /\ TypeOK /\ NoOne \notin Calls BY ProcessConstants DEF FullInv, Inv
<1>1. /\ call[c].pc = "idle" /\ call'[c].pc = "read"
      /\ call'[c].victim = call[c].victim /\ call'[c].gen = call[c].gen
      /\ call'[c].overlapped <=> Busy # {}
      /\ \A d \in Calls \ {c} :
           /\ call'[d].pc = call[d].pc /\ call'[d].kind = call[d].kind
           /\ call'[d].victim = call[d].victim /\ call'[d].gen = call[d].gen
           /\ call'[d].overlapped <=> call[d].overlapped \/ d \in Busy
      /\ UNCHANGED <<runner, status, gen, proc, probe, last>>
  BY <1>0, RequestEffect DEF maps, kids
<1>2. \A d \in Calls \ {c} :
        (~call'[d].overlapped => ~call[d].overlapped /\ call[d].pc \notin Active)
  BY <1>1 DEF Busy
<1>3. c \in Busy' BY <1>1 DEF Busy, Active
<1>4. runner # c /\ proc[c] = "none"
  BY <1>1 DEF FullInv, Inv, Unspawned, Preparing
<1>5. Inv' BY <1>0, InvStep DEF Next
<1>6. Alone'
  <2>1. ASSUME NEW a \in Busy', NEW b \in Busy', ~call'[a].overlapped PROVE a = b
    <3>1. a = c BY <1>1, <1>2, <2>1 DEF Busy
    <3>2. Busy = {} BY <1>1, <2>1, <3>1
    <3>. QED BY <1>1, <2>1, <3>1, <3>2 DEF Busy
  <2>. QED BY <2>1 DEF Alone
<1>7. RunnerByStep' BY <1>1, <1>2 DEF FullInv, RunnerByStep, Active
<1>8. KeepsItsPlace' BY <1>1, <1>2, <1>4 DEF FullInv, KeepsItsPlace
<1>9. NoOrphan'
  <2>1. \A d \in Calls : call'[d].victim = call[d].victim BY <1>1
  <2>. QED BY <1>0, <1>1, <1>2, <1>4, <2>1 DEF FullInv, NoOrphan, Held, Alive
<1>10. StopReaches'
  <2>1. ~Stopped' BY <1>3 DEF Stopped
  <2>. QED BY <1>1, <1>2, <1>4, <2>1 DEF FullInv, StopReaches
<1>11. StopHolds' BY <1>1, <1>2, <1>3 DEF StopHolds, Active
<1>12. Generations'
  <2>1. \A d \in Calls : call'[d].gen = call[d].gen BY <1>1
  <2>. QED BY <1>1, <1>2, <1>3, <2>1 DEF FullInv, Generations, Active
<1>13. StartingHolds'
  <2>1. runner \in Calls \cup {NoOne} BY <1>0 DEF TypeOK, Runner
  <2>. QED BY <1>1, <1>2, <2>1 DEF FullInv, StartingHolds, Active
<1>14. StarterIsKnown' BY <1>1 DEF FullInv, StarterIsKnown
<1>15. StartingIsAttended'
  <2>. SUFFICES ASSUME status = "starting", ~call'[last.starter].overlapped
                PROVE  StartingIsAttended'
    BY <1>1 DEF StartingIsAttended
  <2>1. last.starter \in Calls \ {c} BY <1>1 DEF FullInv, StarterIsKnown
  <2>2. ~call[last.starter].overlapped BY <1>2, <2>1
  <2>3. \A d \in Calls : call'[d].gen = call[d].gen BY <1>1
  <2>. QED BY <1>1, <2>2, <2>3 DEF FullInv, StartingIsAttended
<1>. QED
  BY <1>5, <1>6, <1>7, <1>8, <1>9, <1>10, <1>11, <1>12, <1>13, <1>14, <1>15 DEF FullInv

LEMMA FullInvStep == FullInv /\ [Next]_vars => FullInv'
<1>. SUFFICES ASSUME FullInv, [Next]_vars PROVE FullInv'
  OBVIOUS
<1>1. ASSUME NEW c \in Calls, Handler(c) PROVE FullInv'
  <2>1. Inv' BY <1>1, HandlerInv DEF FullInv
  <2>2. Alone' BY <1>1, HandlerAlone DEF FullInv
  <2>3. RunnerByStep' /\ KeepsItsPlace'
    BY <1>1, HandlerRunnerByStep, HandlerKeepsItsPlace DEF FullInv
  <2>4. NoOrphan' BY <1>1, HandlerNoOrphan DEF FullInv
  <2>5. StopReaches' /\ StopHolds' BY <1>1, HandlerStopReaches, HandlerStopHolds DEF FullInv
  <2>6. Generations' BY <1>1, HandlerGenerations DEF FullInv
  <2>7. StartingHolds' /\ StarterIsKnown'
    BY <1>1, HandlerStartingHolds, HandlerStarterIsKnown DEF FullInv
  <2>8. StartingIsAttended' BY <1>1, HandlerAttends DEF FullInv
  <2>. QED BY <2>1, <2>2, <2>3, <2>4, <2>5, <2>6, <2>7, <2>8 DEF FullInv
<1>2. CASE UNCHANGED vars
  <2>1. Inv' BY InvStep DEF FullInv
  <2>2. (Alone /\ RunnerByStep /\ KeepsItsPlace /\ NoOrphan /\ StopReaches)'
    BY <1>2 DEF FullInv, Alone, Busy, RunnerByStep, KeepsItsPlace, NoOrphan, Held, Alive,
       StopReaches, Stopped, vars, maps, kids, store
  <2>3. (StopHolds /\ Generations /\ StartingHolds /\ StarterIsKnown /\ StartingIsAttended)'
    BY <1>2 DEF FullInv, StopHolds, Busy, Generations, StartingHolds, StarterIsKnown,
       StartingIsAttended, vars, maps, kids, store
  <2>. QED BY <2>1, <2>2, <2>3 DEF FullInv
<1>. QED BY <1>1, <1>2, RequestFull, AroundFull DEF Next, Around

-----------------------------------------------------------------------------
(* Theorems.                                                                *)

LEMMA InitFull == Init => FullInv
<1>. SUFFICES ASSUME Init PROVE FullInv
  OBVIOUS
<1>0. NoOne \notin Calls BY ProcessConstants
<1>1. TypeOK
  <2>1. "idle" \in Pcs BY DEF Pcs
  <2>2. call \in [Calls -> CallState] BY <2>1 DEF Init, CallState, Runner
  <2>3. NothingRead \in Reading BY DEF NothingRead, Reading, Runner
  <2>4. rec \in [Actors -> Reading] BY <2>3 DEF Init
  <2>5. waiter \in [Calls -> Waiter] BY DEF Init, Waiter
  <2>6. last \in LastState BY DEF Init, LastState, Runner
  <2>. QED BY <2>2, <2>4, <2>5, <2>6 DEF Init, TypeOK, Runner
<1>2. /\ \A c \in Calls : /\ call[c].pc = "idle" /\ call[c].victim = NoOne /\ call[c].gen = 0
                          /\ proc[c] = "none" /\ waiter[c].pc = "none" /\ probe[c] = "none"
      /\ \A a \in Actors : rec[a].group = "none"
      /\ last.done = NoOne /\ runner = NoOne /\ status = "stopped" /\ gen = 0
  BY DEF Init, NothingRead
<1>3. Busy = {} BY <1>2 DEF Busy, Active
<1>4. Inv
  BY <1>0, <1>1, <1>2 DEF Inv, LooksAreTrue, WaitersFollow, Unspawned, VictimsHeld, StopsOnly,
     Active
<1>5. Alone /\ RunnerByStep /\ KeepsItsPlace
  BY <1>0, <1>2, <1>3 DEF Alone, RunnerByStep, KeepsItsPlace
<1>6. NoOrphan BY <1>2 DEF NoOrphan, Alive
<1>7. StopReaches /\ StopHolds /\ Generations
  BY <1>0, <1>2 DEF StopReaches, Stopped, StopHolds, Generations
<1>8. StartingHolds /\ StarterIsKnown /\ StartingIsAttended
  BY <1>2 DEF StartingHolds, StarterIsKnown, StartingIsAttended
<1>. QED BY <1>4, <1>5, <1>6, <1>7, <1>8 DEF FullInv

\* The state keeps its type, and what a Reconcile, a waiter or a request has
\* noted stays true, however many requests run at once.
THEOREM Invariance == Spec => []FullInv
BY InitFull, FullInvStep, PTL DEF Spec

\* Type correctness of the manager, its runners and its pid store.
THEOREM TypeCorrect == Spec => []TypeOK
<1>1. FullInv => TypeOK BY DEF FullInv, Inv
<1>. QED BY <1>1, Invariance, PTL

\* Neither the reconcile loop nor a late exit callback nor a start, nor requests
\* that overlap later, ever drop from the map a living process group whose own
\* request had no other beside it: it can be stopped.
THEOREM NothingIsOrphaned == Spec => []NoOrphan
<1>1. FullInv => NoOrphan BY DEF FullInv
<1>. QED BY <1>1, Invariance, PTL

\* When a stop is the last request to be answered, nothing lives of what
\* requests of their own had started, and a stop of its own leaves the
\* deployment reported stopped: only a readiness probe that had passed its
\* generation check before may write another status.
THEOREM StopStays == Spec => []StopIsFinal
<1>1. FullInv => StopIsFinal
  <2>. SUFFICES ASSUME FullInv, Stopped PROVE StopIsFinal BY DEF StopIsFinal
  <2>1. ASSUME NEW c \in Calls, Alive(c), ~call[c].overlapped PROVE FALSE
    <3>1. \A d \in Calls : call[d].victim # c
      BY ProcessConstants DEF FullInv, Inv, VictimsHeld, Stopped, Busy, Active
    <3>2. runner = c BY <2>1, <3>1 DEF FullInv, NoOrphan, Held
    <3>. QED BY <2>1, <3>2 DEF FullInv, StopReaches
  <2>2. last.done \in Calls BY DEF Stopped, FullInv, Inv, TypeOK, LastState, Runner
  <2>3. call[last.done].overlapped \/ status = "stopped" \/ last.late
    BY <2>2 DEF Stopped, FullInv, StopHolds
  <2>. QED BY <2>1, <2>3 DEF StopIsFinal
<1>. QED BY <1>1, Invariance, PTL

\* A deployment is never "starting" with nobody left to end that: a request, a
\* probe of its generation, or a dead group that the loop will find, unless the
\* request that said so ran beside another one.
THEOREM StartingAttended == Spec => []StartingIsAttended
<1>1. FullInv => StartingIsAttended BY DEF FullInv
<1>. QED BY <1>1, Invariance, PTL
=============================================================================
