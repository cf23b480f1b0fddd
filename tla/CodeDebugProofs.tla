--------------------------- MODULE CodeDebugProofs ---------------------------
(***************************************************************************)
(* TLAPS proofs about CodeDebug, for any number of requests.                *)
(*                                                                         *)
(* Both theorems hold however many requests overlap, against every         *)
(* interleaving with stops, closes, sweeps, the pump, late retirements,     *)
(* exits and broken links.  NoAdapterLeak speaks of the adapters whose      *)
(* request ran beside no other; what overlapping does to the adapters of    *)
(* the others is shown by CodeDebug_overlap.cfg.                            *)
(***************************************************************************)
EXTENDS CodeDebug, TLAPS

Building == {"handshake", "pump", "register"}
Unregistered == {"idle", "lease", "look", "check", "dead", "present", "absent"} \cup Building

\* What has not been registered was never closed and is not in the map.
UnregisteredIsFresh ==
  \A c \in Calls :
    call[c].pc \in Unregistered => close[c] = "no" /\ closes[c] = 0 /\ runtime # c

\* The runtime in the map is alive and nobody has begun to close it.
MappedIsOpen ==
  runtime # None => rec[runtime].alive /\ close[runtime] = "no" /\ closes[runtime] = 0

\* A record that was looked at is there.
SeenIsRecord == \A c \in Calls : call[c].pc \in {"check", "dead"} => call[c].seen \in Calls

Inv == TypeOK /\ UnregisteredIsFresh /\ MappedIsOpen /\ SeenIsRecord /\ ClosedOnce

\* An adapter appears with the handshake, and from the moment its request is
\* no longer building the map or a close answers for it.
AdapterOwned ==
  \A c \in Calls :
    /\ adapter[c] = "live" => call[c].pc # "idle"
    /\ adapter[c] = "live" /\ ~call[c].overlapped =>
         call[c].pc \in Building \/ runtime = c \/ close[c] = "stopping"

\* Two requests under way have met.
BusyHaveMet == \A a, b \in Busy : a # b => call[a].overlapped /\ call[b].overlapped

\* A request that found nothing usable still finds nothing when it registers,
\* and one that looks at a record still finds that record or none, but for the
\* runtime of a request that met another one.
FoundIsCurrent ==
  \A c \in Calls :
    /\ call[c].pc \in {"absent"} \cup Building =>
         runtime = None \/ call[runtime].overlapped
    /\ call[c].pc \in {"check", "dead"} =>
         runtime \in {None, call[c].seen} \/ call[runtime].overlapped

OwnedInv == Inv /\ AdapterOwned /\ BusyHaveMet /\ FoundIsCurrent

-----------------------------------------------------------------------------
(* Type correctness.                                                       *)

\* A request moves to another pc and changes nothing else of itself.
LEMMA GoEffect ==
  ASSUME TypeOK, NEW c \in Calls, NEW pc \in Pcs, Go(c, pc)
  PROVE  /\ call' \in [Calls -> Call]
         /\ call'[c].pc = pc /\ call'[c].kind = call[c].kind
         /\ call'[c].seen = call[c].seen /\ call'[c].overlapped = call[c].overlapped
         /\ \A d \in Calls \ {c} : call'[d] = call[d]
BY DEF TypeOK, Go, Call

\* A request that begins changes nothing of the others but what they have met.
LEMMA RequestEffect ==
  ASSUME TypeOK, NEW c \in Calls, NEW kind \in Kinds, Request(c, kind)
  PROVE  /\ call' \in [Calls -> Call]
         /\ call[c].pc = "idle" /\ call'[c].pc \in {"lease", "look"}
         /\ call'[c].overlapped = (Busy # {})
         /\ \A d \in Calls \ {c} :
              /\ call'[d].pc = call[d].pc /\ call'[d].seen = call[d].seen
              /\ call[d].overlapped => call'[d].overlapped
              /\ d \in Busy => call'[d].overlapped
<1>. DEFINE pc == IF kind = "resolve" THEN "lease" ELSE "look"
            met == Busy # {}
            F(d) == IF d = c THEN [call[c] EXCEPT !.kind = kind, !.overlapped = met, !.pc = pc]
                    ELSE IF d \in Busy THEN [call[d] EXCEPT !.overlapped = TRUE] ELSE call[d]
<1>1. pc \in {"lease", "look"} /\ met \in BOOLEAN
  OBVIOUS
<1>2. call' = [d \in Calls |-> F(d)] /\ call[c].pc = "idle"
  BY DEF Request, At
<1>. HIDE DEF pc, met
<1>3. call \in [Calls -> Call] BY DEF TypeOK
<1>4. \A d \in Calls : call'[d] = F(d)
  BY <1>2
<1>5. \A d \in Calls : F(d) \in Call
  BY <1>1, <1>3 DEF Call, Pcs
<1>6. call' \in [Calls -> Call]
  BY <1>2, <1>5
<1>7. call'[c].pc = pc /\ call'[c].overlapped = met
  BY <1>1, <1>3, <1>4 DEF Call
<1>8. ASSUME NEW d \in Calls \ {c}
      PROVE  /\ call'[d].pc = call[d].pc /\ call'[d].seen = call[d].seen
             /\ call[d].overlapped => call'[d].overlapped
             /\ d \in Busy => call'[d].overlapped
  BY <1>3, <1>4 DEF Call
<1>. QED BY <1>1, <1>2, <1>6, <1>7, <1>8 DEF met

\* Marking a record dead changes nothing else of the records.
LEMMA DeadRecord ==
  ASSUME TypeOK, NEW d \in Calls, rec' = [rec EXCEPT ![d].alive = FALSE]
  PROVE  /\ rec' \in [Calls -> Record]
         /\ \A c \in Calls \ {d} : rec'[c] = rec[c]
<1>1. rec \in [Calls -> Record] BY DEF TypeOK
<1>2. [rec[d] EXCEPT !.alive = FALSE] \in Record
  BY <1>1 DEF Record
<1>3. rec' = [rec EXCEPT ![d] = [rec[d] EXCEPT !.alive = FALSE]]
  BY <1>1
<1>. QED BY <1>1, <1>2, <1>3

\* Taking a runtime out keeps the manager's types.
LEMMA TakeOutType ==
  ASSUME TypeOK, NEW d \in Calls, TakeOut(d)
  PROVE  /\ runtime' \in Calls \cup {None} /\ rec' \in [Calls -> Record]
         /\ close' \in [Calls -> {"no", "stopping", "done"}] /\ closes' \in [Calls -> Nat]
         /\ session' \in [Calls -> {"none", "live", "idle", "closed"}]
<1>1. rec' \in [Calls -> Record] BY DeadRecord DEF TakeOut
<1>. QED BY <1>1 DEF TypeOK, TakeOut, CallClose, closeSessions

LEMMA RetireType ==
  ASSUME TypeOK, NEW d \in Calls, retireRuntime(d)
  PROVE  /\ runtime' \in Calls \cup {None} /\ rec' \in [Calls -> Record]
         /\ close' \in [Calls -> {"no", "stopping", "done"}] /\ closes' \in [Calls -> Nat]
         /\ session' \in [Calls -> {"none", "live", "idle", "closed"}]
<1>1. CASE runtime = d
  BY <1>1, TakeOutType DEF retireRuntime
<1>2. CASE runtime # d
  <2>1. rec' \in [Calls -> Record] BY <1>2, DeadRecord DEF retireRuntime
  <2>. QED BY <1>2, <2>1 DEF TypeOK, retireRuntime
<1>. QED BY <1>1, <1>2

LEMMA CleanupType ==
  ASSUME TypeOK
  PROVE  cleanup(session) \in [Calls -> {"none", "live", "idle", "closed"}]
BY DEF TypeOK, cleanup

LEMMA StartType == ASSUME TypeOK, SeenIsRecord, NEW c \in Calls, Start(c) PROVE TypeOK'
<1>. USE DEF At, Pcs
<1>1. CASE ActiveLease(c)
  <2>1. PICK pc \in {"done", "look"} : Go(c, pc) BY <1>1 DEF ActiveLease
  <2>2. call' \in [Calls -> Call] BY <2>1, GoEffect
  <2>. QED BY <1>1, <2>2, CleanupType DEF ActiveLease, TypeOK, world
<1>2. CASE LookUp(c)
  BY <1>2 DEF LookUp, TypeOK, Call, manager, world
<1>3. CASE CheckProcess(c)
  BY <1>3, GoEffect DEF CheckProcess, TypeOK, manager, world
<1>4. CASE RetireDead(c)
  <2>1. call[c].seen \in Calls BY <1>4 DEF RetireDead, SeenIsRecord
  <2>. QED BY <1>4, <2>1, GoEffect, RetireType DEF RetireDead, TypeOK, world
<1>5. CASE Reuse(c)
  BY <1>5 DEF Reuse, TypeOK, Call, manager, world
<1>6. CASE LaunchAdapter(c) \/ NotStarted(c) \/ HandshakeFails(c)
  BY <1>6, GoEffect DEF LaunchAdapter, NotStarted, HandshakeFails, TypeOK, manager, world
<1>7. CASE Handshake(c)
  BY <1>7, GoEffect DEF Handshake, TypeOK, Record
<1>8. CASE StartPump(c)
  BY <1>8, GoEffect DEF StartPump, TypeOK, manager, world
<1>9. CASE EntryTimesOut(c)
  BY <1>9, GoEffect DEF EntryTimesOut, TypeOK, world
<1>10. CASE Register(c)
  <2>1. AfterRegister(c) \in {"done", "session", "status"} BY DEF AfterRegister
  <2>2. PICK pc \in Pcs : Go(c, pc) BY <1>10, <2>1 DEF Register, register
  <2>3. call' \in [Calls -> Call] BY <2>2, GoEffect
  <2>. QED BY <1>10, <2>3 DEF Register, register, CallClose, TypeOK, world
<1>11. CASE AttachedStatus(c) \/ CreateSession(c)
  BY <1>11, GoEffect, CleanupType DEF AttachedStatus, CreateSession, TypeOK, world
<1>. QED
  BY <1>1, <1>2, <1>3, <1>4, <1>5, <1>6, <1>7, <1>8, <1>9, <1>10, <1>11 DEF Start

LEMMA ToldType ==
  ASSUME TypeOK, NEW S \in SUBSET Calls, Told(S)
  PROVE  pump' \in [Calls -> {"off", "on", "asking", "behind", "told", "ended"}]
<1>1. PICK heard : pump' = [c \in Calls |-> IF c \notin heard THEN pump[c]
                                          ELSE IF pump[c] = "on" THEN "told" ELSE "behind"]
  BY DEF Told
<1>. QED BY <1>1 DEF TypeOK

\* Every step keeps the state well typed.
LEMMA TypeStep == TypeOK /\ SeenIsRecord /\ [Next]_vars => TypeOK'
<1>. SUFFICES ASSUME TypeOK, SeenIsRecord, [Next]_vars PROVE TypeOK'
  OBVIOUS
<1>1. ASSUME NEW c \in Calls, NEW kind \in Kinds, Request(c, kind) PROVE TypeOK'
  <2>1. call' \in [Calls -> Call] BY <1>1, RequestEffect
  <2>. QED BY <1>1, <2>1 DEF Request, TypeOK, manager, world
<1>2. ASSUME NEW c \in Calls, Start(c) PROVE TypeOK'
  BY <1>2, StartType
<1>3. ASSUME NEW c \in Calls, Housekeeping(c) PROVE TypeOK'
  <2>1. CASE PumpTerminated(c) \/ PumpStops(c)
    BY <2>1 DEF PumpTerminated, handleTerminated, PumpStops, TypeOK, manager, world
  <2>2. CASE Retire(c)
    BY <2>2, RetireType DEF Retire, TypeOK, world
  <2>3. CASE CloseFinishes(c)
    BY <2>3 DEF CloseFinishes, TypeOK
  <2>. QED BY <1>3, <2>1, <2>2, <2>3 DEF Housekeeping
<1>4. ASSUME NEW c \in Calls, DebuggeeExits(c) \/ AdapterDies(c) PROVE TypeOK'
  BY <1>4, ToldType DEF DebuggeeExits, AdapterDies, TypeOK, manager
<1>5. ASSUME NEW c \in Calls, GrowsIdle(c) \/ Asks(c) \/ Answered(c) PROVE TypeOK'
  BY <1>5 DEF GrowsIdle, Asks, Answered, TypeOK, manager, world
<1>6. ASSUME NEW s \in Calls, NEW stop \in BOOLEAN, CloseSession(s, stop) PROVE TypeOK'
  <2>1. closeSessions \in [Calls -> {"none", "live", "idle", "closed"}]
    BY DEF TypeOK, closeSessions
  <2>2. CASE stop /\ runtime # None
    BY <1>6, <2>2, TakeOutType DEF CloseSession, TypeOK, world
  <2>3. CASE ~(stop /\ runtime # None)
    BY <1>6, <2>1, <2>3, CleanupType DEF CloseSession, TypeOK, world
  <2>. QED BY <2>2, <2>3
<1>7. CASE StopRuntime
  BY <1>7, TakeOutType DEF StopRuntime, TypeOK, world
<1>8. CASE Sweep
  BY <1>8, CleanupType DEF Sweep, TypeOK, world
<1>9. CASE ServiceExits
  BY <1>9, ToldType DEF ServiceExits, TypeOK, manager
<1>10. CASE ServiceStarts
  BY <1>10 DEF ServiceStarts, TypeOK, manager
<1>11. CASE UNCHANGED vars
  BY <1>11 DEF vars, manager, world, TypeOK
<1>. QED
  BY <1>1, <1>2, <1>3, <1>4, <1>5, <1>6, <1>7, <1>8, <1>9, <1>10, <1>11 DEF Next

-----------------------------------------------------------------------------
(* A runtime is closed once.                                                *)

\* What closing the runtime in the map does to the other records.
LEMMA TakeOutEffect ==
  ASSUME TypeOK, MappedIsOpen, ClosedOnce, NEW d \in Calls, runtime = d, TakeOut(d)
  PROVE  /\ runtime' = None
         /\ close'[d] = "stopping" /\ closes'[d] = 1
         /\ \A c \in Calls \ {d} : close'[c] = close[c] /\ closes'[c] = closes[c]
BY DebugConstants DEF TypeOK, MappedIsOpen, TakeOut, CallClose

\* Taking out the mapped runtime keeps what is said of closing.
LEMMA TakeOutKeeps ==
  ASSUME Inv, NEW d \in Calls, runtime = d, TakeOut(d),
         \A c \in Calls : call'[c].pc \in Unregistered => call[c].pc \in Unregistered
  PROVE  UnregisteredIsFresh' /\ MappedIsOpen' /\ ClosedOnce'
<1>0. None \notin Calls BY DebugConstants
<1>1. call[d].pc \notin Unregistered
  BY DEF Inv, UnregisteredIsFresh
<1>2. /\ runtime' = None /\ closes'[d] = 1
      /\ \A c \in Calls \ {d} : close'[c] = close[c] /\ closes'[c] = closes[c]
  BY TakeOutEffect DEF Inv
<1>3. UnregisteredIsFresh'
  BY <1>0, <1>1, <1>2 DEF Inv, UnregisteredIsFresh
<1>4. MappedIsOpen' BY <1>2 DEF MappedIsOpen
<1>5. ClosedOnce' BY <1>2 DEF Inv, ClosedOnce
<1>. QED BY <1>3, <1>4, <1>5

\* A step that leaves the map and the closing alone, and registers nothing.
LEMMA QuietKeeps ==
  ASSUME Inv, UNCHANGED <<runtime, close, closes>>,
         \A c \in Calls : call'[c].pc \in Unregistered => call[c].pc \in Unregistered,
         runtime # None => rec'[runtime].alive
  PROVE  UnregisteredIsFresh' /\ MappedIsOpen' /\ ClosedOnce'
BY DEF Inv, UnregisteredIsFresh, MappedIsOpen, ClosedOnce

\* retireRuntime closes only what is in the map.
LEMMA RetireKeeps ==
  ASSUME Inv, NEW d \in Calls, retireRuntime(d),
         \A c \in Calls : call'[c].pc \in Unregistered => call[c].pc \in Unregistered
  PROVE  UnregisteredIsFresh' /\ MappedIsOpen' /\ ClosedOnce'
<1>1. CASE runtime = d
  BY <1>1, TakeOutKeeps DEF retireRuntime
<1>2. CASE runtime # d
  <2>1. /\ UNCHANGED <<runtime, close, closes>>
        /\ rec' = [rec EXCEPT ![d].alive = FALSE]
    BY <1>2 DEF retireRuntime
  <2>2. \A c \in Calls \ {d} : rec'[c] = rec[c]
    BY <2>1, DeadRecord DEF Inv
  <2>3. runtime # None => rec'[runtime].alive
    BY <1>2, <2>2 DEF Inv, MappedIsOpen, TypeOK
  <2>. QED BY <2>1, <2>3, QuietKeeps
<1>. QED BY <1>1, <1>2

\* The steps of a request: only Register puts something into the map, and only
\* a record that was never closed.
LEMMA StartKeeps ==
  ASSUME Inv, NEW c \in Calls, Start(c)
  PROVE  UnregisteredIsFresh' /\ MappedIsOpen' /\ ClosedOnce' /\ SeenIsRecord'
<1>. USE DEF At, Pcs
<1>0. TypeOK /\ None \notin Calls BY DebugConstants DEF Inv
<1>1. ASSUME NEW pc \in Pcs, Go(c, pc), call[c].pc \in Unregistered,
             pc \in {"check", "dead"} => call[c].seen \in Calls
      PROVE  /\ \A d \in Calls : call'[d].pc \in Unregistered => call[d].pc \in Unregistered
             /\ SeenIsRecord'
  BY <1>0, <1>1, GoEffect DEF Inv, SeenIsRecord
<1>2. ASSUME NEW pc \in {"done", "failed", "session"}, Go(c, pc)
      PROVE  /\ \A d \in Calls : call'[d].pc \in Unregistered => call[d].pc \in Unregistered
             /\ SeenIsRecord'
  BY <1>0, <1>2, GoEffect DEF Inv, SeenIsRecord, Unregistered, Building
<1>3. runtime # None => rec[runtime].alive BY DEF Inv, MappedIsOpen
<1>4. CASE ActiveLease(c)
  <2>1. PICK pc \in {"done", "look"} : Go(c, pc) BY <1>4 DEF ActiveLease
  <2>2. call[c].pc \in Unregistered BY <1>4 DEF ActiveLease, Unregistered
  <2>3. rec' = rec /\ UNCHANGED <<runtime, close, closes>> BY <1>4 DEF ActiveLease
  <2>. QED BY <1>1, <1>3, <2>1, <2>2, <2>3, QuietKeeps
<1>5. CASE LookUp(c)
  <2>1. /\ call'[c].pc \in {"check", "absent"} /\ call'[c].seen = runtime
        /\ call'[c].pc = "check" => runtime # None
        /\ \A d \in Calls \ {c} : call'[d] = call[d]
    BY <1>0, <1>5 DEF LookUp, TypeOK, Call
  <2>2. /\ \A d \in Calls : call'[d].pc \in Unregistered => call[d].pc \in Unregistered
        /\ SeenIsRecord'
    BY <1>0, <1>5, <2>1 DEF LookUp, Unregistered, Inv, SeenIsRecord, TypeOK
  <2>. QED BY <1>3, <1>5, <2>2, QuietKeeps DEF LookUp, manager
<1>6. CASE CheckProcess(c)
  <2>1. PICK pc \in {"present", "dead"} : Go(c, pc) BY <1>6 DEF CheckProcess
  <2>2. call[c].pc \in Unregistered /\ call[c].seen \in Calls
    BY <1>6 DEF CheckProcess, Unregistered, Inv, SeenIsRecord
  <2>. QED BY <1>1, <1>3, <1>6, <2>1, <2>2, QuietKeeps DEF CheckProcess, manager
<1>7. CASE RetireDead(c)
  <2>1. call[c].pc \in Unregistered /\ call[c].seen \in Calls /\ Go(c, "absent")
    BY <1>7 DEF RetireDead, Unregistered, Inv, SeenIsRecord
  <2>. QED BY <1>1, <1>7, <2>1, RetireKeeps DEF RetireDead
<1>8. CASE Reuse(c)
  <2>1. /\ call'[c].pc \in {"session", "look", "absent", "done"}
        /\ \A d \in Calls \ {c} : call'[d] = call[d]
    BY <1>0, <1>8 DEF Reuse, TypeOK, Call
  <2>2. /\ \A d \in Calls : call'[d].pc \in Unregistered => call[d].pc \in Unregistered
        /\ SeenIsRecord'
    BY <1>0, <1>8, <2>1 DEF Reuse, Unregistered, Inv, SeenIsRecord, TypeOK
  <2>. QED BY <1>3, <1>8, <2>2, QuietKeeps DEF Reuse, manager
<1>9. CASE LaunchAdapter(c) \/ StartPump(c)
  <2>1. PICK pc \in {"handshake", "register"} : Go(c, pc)
    BY <1>9 DEF LaunchAdapter, StartPump
  <2>2. call[c].pc \in Unregistered
    BY <1>9 DEF LaunchAdapter, StartPump, Unregistered, Building
  <2>. QED BY <1>1, <1>3, <1>9, <2>1, <2>2, QuietKeeps DEF LaunchAdapter, StartPump, manager
<1>10. CASE NotStarted(c) \/ HandshakeFails(c)
  BY <1>2, <1>3, <1>10, QuietKeeps DEF NotStarted, HandshakeFails, manager
<1>11. CASE Handshake(c)
  <2>1. call[c].pc \in Unregistered /\ Go(c, "pump")
    BY <1>11 DEF Handshake, Unregistered, Building
  <2>2. runtime # None => rec'[runtime].alive
    BY <1>0, <1>3, <1>11, <2>1 DEF Handshake, Inv, UnregisteredIsFresh, TypeOK
  <2>. QED BY <1>1, <1>11, <2>1, <2>2, QuietKeeps DEF Handshake
<1>12. CASE EntryTimesOut(c)
  <2>1. call[c].pc \in Unregistered /\ runtime # c
    BY <1>12 DEF EntryTimesOut, Unregistered, Building, Inv, UnregisteredIsFresh
  <2>2. /\ call'[c].pc = "failed" /\ \A d \in Calls \ {c} : call'[d] = call[d]
        /\ \A d \in Calls \ {c} : close'[d] = close[d]
        /\ UNCHANGED <<runtime, rec, closes>>
    BY <1>0, <1>12, GoEffect DEF EntryTimesOut, TypeOK
  <2>3. SeenIsRecord' BY <1>2, <1>12 DEF EntryTimesOut
  <2>. QED BY <1>0, <2>1, <2>2, <2>3
       DEF Inv, UnregisteredIsFresh, MappedIsOpen, ClosedOnce, Unregistered, Building, TypeOK
<1>13. CASE Register(c)
  <2>1. close[c] = "no" /\ closes[c] = 0 /\ runtime # c
    BY <1>13 DEF Register, Unregistered, Building, Inv, UnregisteredIsFresh
  <2>2. PICK pc \in {"done", "session", "status", "failed"} : Go(c, pc)
    BY <1>13 DEF Register, register, AfterRegister
  <2>3. /\ call'[c].pc \notin Unregistered /\ \A d \in Calls \ {c} : call'[d] = call[d]
        /\ call'[c].pc \notin {"check", "dead"}
    BY <1>0, <2>2, GoEffect DEF Unregistered, Building
  <2>4. CASE rec[c].alive
    <3>1. runtime' = c /\ UNCHANGED <<close, closes, rec>>
      BY <1>13, <2>4 DEF Register, register
    <3>. QED BY <1>0, <2>1, <2>3, <2>4, <3>1
         DEF Inv, UnregisteredIsFresh, MappedIsOpen, ClosedOnce, SeenIsRecord
  <2>5. CASE ~rec[c].alive
    <3>1. /\ UNCHANGED <<runtime, rec>> /\ closes'[c] = 1
          /\ \A d \in Calls \ {c} : close'[d] = close[d] /\ closes'[d] = closes[d]
      BY <1>0, <1>13, <2>1, <2>5 DEF Register, register, CallClose, TypeOK
    <3>. QED BY <1>0, <2>1, <2>3, <3>1
         DEF Inv, UnregisteredIsFresh, MappedIsOpen, ClosedOnce, SeenIsRecord, TypeOK
  <2>. QED BY <2>4, <2>5
<1>14. CASE AttachedStatus(c) \/ CreateSession(c)
  <2>1. PICK pc \in {"done", "failed", "session"} : Go(c, pc)
    BY <1>14 DEF AttachedStatus, CreateSession
  <2>. QED BY <1>2, <1>3, <1>14, <2>1, QuietKeeps DEF AttachedStatus, CreateSession
<1>. QED
  BY <1>4, <1>5, <1>6, <1>7, <1>8, <1>9, <1>10, <1>11, <1>12, <1>13, <1>14 DEF Start

\* Every step keeps Inv.
LEMMA InvStep == Inv /\ [Next]_vars => Inv'
<1>. SUFFICES ASSUME Inv, [Next]_vars PROVE Inv'
  OBVIOUS
<1>. DEFINE Rest == UnregisteredIsFresh /\ MappedIsOpen /\ ClosedOnce /\ SeenIsRecord
<1>0. TypeOK' BY TypeStep DEF Inv
<1>1. runtime # None => rec[runtime].alive BY DEF Inv, MappedIsOpen
<1>2. ASSUME NEW c \in Calls, NEW kind \in Kinds, Request(c, kind) PROVE Rest'
  <2>1. /\ call'[c].pc \in {"lease", "look"} /\ call[c].pc = "idle"
        /\ \A d \in Calls \ {c} : call'[d].pc = call[d].pc /\ call'[d].seen = call[d].seen
    BY <1>2, RequestEffect DEF Inv
  <2>2. /\ \A d \in Calls : call'[d].pc \in Unregistered => call[d].pc \in Unregistered
        /\ SeenIsRecord'
    BY <2>1 DEF Unregistered, Inv, SeenIsRecord
  <2>. QED BY <1>1, <1>2, <2>2, QuietKeeps DEF Request, manager
<1>3. ASSUME NEW c \in Calls, Start(c) PROVE Rest'
  BY <1>3, StartKeeps
<1>4. ASSUME call' = call PROVE SeenIsRecord'
  BY <1>4 DEF Inv, SeenIsRecord
<1>5. ASSUME NEW c \in Calls, Housekeeping(c) PROVE Rest'
  <2>1. CASE PumpTerminated(c) \/ PumpStops(c)
    BY <1>1, <1>4, <2>1, QuietKeeps DEF PumpTerminated, PumpStops, manager
  <2>2. CASE Retire(c)
    BY <1>4, <2>2, RetireKeeps DEF Retire
  <2>3. CASE CloseFinishes(c)
    <3>1. /\ close[c] = "stopping" /\ \A d \in Calls \ {c} : close'[d] = close[d]
          /\ UNCHANGED <<runtime, rec, closes, call>>
      BY <2>3 DEF CloseFinishes, Inv, TypeOK
    <3>2. runtime # c /\ call[c].pc \notin Unregistered
      BY <3>1, DebugConstants DEF Inv, MappedIsOpen, UnregisteredIsFresh
    <3>. QED BY <1>4, <3>1, <3>2
         DEF Inv, UnregisteredIsFresh, MappedIsOpen, ClosedOnce, TypeOK
  <2>. QED BY <1>5, <2>1, <2>2, <2>3 DEF Housekeeping
<1>6. ASSUME UNCHANGED <<runtime, rec, close, closes, call>> PROVE Rest'
  BY <1>1, <1>4, <1>6, QuietKeeps
<1>7. ASSUME NEW s \in Calls, NEW stop \in BOOLEAN, CloseSession(s, stop) PROVE Rest'
  <2>1. CASE stop /\ runtime # None
    BY <1>4, <1>7, <2>1, TakeOutKeeps DEF CloseSession, Inv, TypeOK
  <2>2. CASE ~(stop /\ runtime # None)
    BY <1>6, <1>7, <2>2 DEF CloseSession
  <2>. QED BY <2>1, <2>2
<1>8. ASSUME StopRuntime PROVE Rest'
  BY <1>4, <1>8, TakeOutKeeps DEF StopRuntime, Inv, TypeOK
<1>9. Rest'
  BY <1>2, <1>3, <1>5, <1>6, <1>7, <1>8 DEF Next, vars, manager, DebuggeeExits, AdapterDies,
     GrowsIdle, Asks, Answered, Sweep, ServiceExits, ServiceStarts
<1>. QED BY <1>0, <1>9 DEF Inv

-----------------------------------------------------------------------------
(* Requests that met, and the adapters of those that did not.               *)

\* A step of a request is a step of a busy one and moves no other.
LEMMA StartIsBusy ==
  ASSUME TypeOK, NEW c \in Calls, Start(c)
  PROVE  /\ c \in Busy
         /\ \A d \in Calls \ {c} : call'[d] = call[d]
         /\ call'[c].overlapped = call[c].overlapped /\ call'[c].pc # "idle"
<1>1. c \in Busy
  BY DEF Start, ActiveLease, LookUp, CheckProcess, RetireDead, Reuse, LaunchAdapter, NotStarted,
     Handshake, HandshakeFails, StartPump, EntryTimesOut, Register, AttachedStatus,
     CreateSession, At, Busy
<1>2. /\ \A d \in Calls \ {c} : call'[d] = call[d]
      /\ call'[c].overlapped = call[c].overlapped
  BY DEF Call, Start, ActiveLease, LookUp, CheckProcess, RetireDead, Reuse, LaunchAdapter, NotStarted,
     Handshake, HandshakeFails, StartPump, EntryTimesOut, Register, register, AttachedStatus,
     CreateSession, Go, TypeOK
<1>3. call'[c].pc # "idle"
  BY DEF Call, Start, ActiveLease, LookUp, CheckProcess, RetireDead, Reuse, LaunchAdapter,
     NotStarted, Handshake, HandshakeFails, StartPump, EntryTimesOut, Register, register,
     AfterRegister, AttachedStatus, CreateSession, Go, TypeOK
<1>. QED BY <1>1, <1>2, <1>3

LEMMA BusyStep == ASSUME OwnedInv, [Next]_vars PROVE BusyHaveMet'
<1>. USE DEF OwnedInv
<1>0. TypeOK /\ BusyHaveMet BY DEF Inv
<1>1. ASSUME NEW c \in Calls, NEW kind \in Kinds, Request(c, kind) PROVE BusyHaveMet'
  <2>1. /\ call'[c].overlapped = (Busy # {})
        /\ \A d \in Calls \ {c} : call'[d].pc = call[d].pc /\ (d \in Busy => call'[d].overlapped)
    BY <1>0, <1>1, RequestEffect
  <2>2. \A d \in Calls \ {c} : d \in Busy' <=> d \in Busy
    BY <2>1 DEF Busy
  <2>. QED BY <2>1, <2>2 DEF BusyHaveMet, Busy
<1>2. ASSUME NEW c \in Calls, Start(c) PROVE BusyHaveMet'
  <2>1. /\ c \in Busy /\ \A d \in Calls \ {c} : call'[d] = call[d]
        /\ call'[c].overlapped = call[c].overlapped
    BY <1>0, <1>2, StartIsBusy
  <2>. QED BY <1>0, <2>1 DEF Busy, BusyHaveMet
<1>3. ASSUME call' = call PROVE BusyHaveMet'
  BY <1>0, <1>3 DEF BusyHaveMet, Busy
<1>. QED
  BY <1>1, <1>2, <1>3 DEF Next, vars, Housekeeping, PumpTerminated, PumpStops, Retire,
     CloseFinishes, DebuggeeExits, AdapterDies, GrowsIdle, Asks, Answered, CloseSession,
     StopRuntime, Sweep, ServiceExits, ServiceStarts

\* Nobody else takes the map from under the request that looked at it.
LEMMA FoundStep == ASSUME OwnedInv, [Next]_vars PROVE FoundIsCurrent'
<1>. USE DEF OwnedInv
<1>0. TypeOK /\ BusyHaveMet /\ FoundIsCurrent /\ MappedIsOpen BY DEF Inv
<1>1. ASSUME call' = call, runtime' \in {runtime, None} PROVE FoundIsCurrent'
  BY <1>0, <1>1 DEF FoundIsCurrent
<1>2. ASSUME NEW c \in Calls, NEW kind \in Kinds, Request(c, kind) PROVE FoundIsCurrent'
  <2>1. /\ call'[c].pc \in {"lease", "look"} /\ runtime' = runtime
        /\ call[c].pc = "idle"
        /\ \A d \in Calls \ {c} : call'[d].pc = call[d].pc /\ call'[d].seen = call[d].seen
                                  /\ (call[d].overlapped => call'[d].overlapped)
    BY <1>0, <1>2, RequestEffect DEF Request, manager
  <2>2. runtime # c
    BY <2>1 DEF Inv, UnregisteredIsFresh, Unregistered
  <2>3. runtime # None => (call[runtime].overlapped => call'[runtime].overlapped)
    BY <1>0, <2>1, <2>2 DEF TypeOK
  <2>. QED BY <1>0, <2>1, <2>3 DEF FoundIsCurrent, Building
<1>3. ASSUME NEW c \in Calls, Start(c) PROVE FoundIsCurrent'
  <2>. USE DEF At, Pcs
  <2>0. /\ \A d \in Calls \ {c} : call'[d] = call[d]
        /\ call'[c].overlapped = call[c].overlapped
        /\ \A d \in Calls \ {c} : d \in Busy => call[c].overlapped
    BY <1>0, <1>3, StartIsBusy DEF BusyHaveMet
  <2>1. ASSUME runtime' \in {runtime, None},
               call'[c].pc \in {"absent"} \cup Building =>
                 runtime' = None \/ call[runtime'].overlapped,
               call'[c].pc \in {"check", "dead"} =>
                 runtime' \in {None, call'[c].seen} \/ call[runtime'].overlapped
        PROVE  FoundIsCurrent'
    <3>1. \A d \in Calls : call'[d].overlapped = call[d].overlapped
      BY <2>0
    <3>2. runtime' # None => call'[runtime'].overlapped = call[runtime'].overlapped
      BY <1>0, <2>1, <3>1 DEF TypeOK
    <3>3. ASSUME NEW d \in Calls \ {c}
          PROVE  /\ call'[d].pc \in {"absent"} \cup Building =>
                      runtime' = None \/ call'[runtime'].overlapped
                 /\ call'[d].pc \in {"check", "dead"} =>
                      runtime' \in {None, call'[d].seen} \/ call'[runtime'].overlapped
      <4>1. call'[d] = call[d] BY <2>0
      <4>. QED BY <1>0, <2>1, <3>2, <4>1 DEF FoundIsCurrent
    <3>. QED BY <2>1, <3>2, <3>3 DEF FoundIsCurrent
  <2>2. ASSUME NEW pc \in Pcs \ ({"absent", "check", "dead"} \cup Building), Go(c, pc),
               runtime' = runtime
        PROVE  FoundIsCurrent'
    BY <1>0, <2>1, <2>2, GoEffect
  <2>3. CASE ActiveLease(c)
    <3>1. PICK pc \in {"done", "look"} : Go(c, pc) BY <2>3 DEF ActiveLease
    <3>. QED BY <2>2, <2>3, <3>1 DEF ActiveLease, Building
  <2>4. CASE LookUp(c)
    <3>1. /\ call'[c].pc \in {"check", "absent"} /\ call'[c].seen = runtime
          /\ call'[c].pc = "absent" => runtime = None
      BY <1>0, <2>4 DEF LookUp, TypeOK, Call, MappedIsOpen
    <3>. QED BY <2>1, <2>4, <3>1 DEF LookUp, manager, Building
  <2>5. CASE CheckProcess(c)
    <3>1. PICK pc \in {"present", "dead"} : Go(c, pc) BY <2>5 DEF CheckProcess
    <3>2. call'[c].pc = pc /\ call'[c].seen = call[c].seen BY <1>0, <3>1, GoEffect
    <3>3. /\ runtime' = runtime
          /\ runtime \in {None, call[c].seen} \/ call[runtime].overlapped
      BY <1>0, <2>5 DEF CheckProcess, manager, FoundIsCurrent
    <3>. QED BY <2>1, <3>1, <3>2, <3>3 DEF Building
  <2>6. CASE RetireDead(c)
    <3>1. call'[c].pc = "absent" BY <1>0, <2>6, GoEffect DEF RetireDead
    <3>2. runtime \in {None, call[c].seen} \/ call[runtime].overlapped
      BY <1>0, <2>6 DEF RetireDead, FoundIsCurrent
    <3>3. runtime' = None \/ (runtime' = runtime /\ call[runtime].overlapped)
      BY <2>6, <3>2 DEF RetireDead, retireRuntime, TakeOut
    <3>. QED BY <2>1, <3>1, <3>3
  <2>7. CASE Reuse(c)
    <3>1. /\ call'[c].pc \in {"session", "look", "absent", "done"}
          /\ call'[c].pc = "absent" => runtime = None
      BY <1>0, <2>7 DEF Reuse, TypeOK, Call, MappedIsOpen
    <3>. QED BY <2>1, <2>7, <3>1 DEF Reuse, manager, Building
  <2>8. CASE LaunchAdapter(c) \/ Handshake(c) \/ StartPump(c)
    <3>1. runtime = None \/ call[runtime].overlapped
      BY <1>0, <2>8 DEF LaunchAdapter, Handshake, StartPump, FoundIsCurrent, Building
    <3>2. PICK pc \in Building : Go(c, pc)
      BY <2>8 DEF LaunchAdapter, Handshake, StartPump, Building
    <3>3. call'[c].pc = pc BY <1>0, <3>2, GoEffect DEF Building
    <3>. QED BY <2>1, <2>8, <3>1, <3>2, <3>3
         DEF LaunchAdapter, Handshake, StartPump, manager, Building
  <2>9. CASE NotStarted(c) \/ HandshakeFails(c) \/ EntryTimesOut(c)
              \/ AttachedStatus(c) \/ CreateSession(c)
    <3>1. PICK pc \in {"done", "failed", "session"} : Go(c, pc)
      BY <2>9 DEF NotStarted, HandshakeFails, EntryTimesOut, AttachedStatus, CreateSession
    <3>2. runtime' = runtime
      BY <2>9 DEF NotStarted, HandshakeFails, EntryTimesOut, AttachedStatus, CreateSession, manager
    <3>. QED BY <2>2, <3>1, <3>2 DEF Building
  <2>10. CASE Register(c)
    <3>1. PICK pc \in {"done", "failed", "session", "status"} : Go(c, pc)
      BY <2>10 DEF Register, register, AfterRegister
    <3>2. CASE runtime' = runtime
      BY <2>2, <3>1, <3>2 DEF Building
    <3>3. CASE runtime' = c
      <4>1. call'[c].pc \notin {"absent", "check", "dead"} \cup Building
        BY <1>0, <3>1, GoEffect DEF Building
      <4>2. ASSUME NEW d \in Calls,
                   call'[d].pc \in {"absent", "check", "dead"} \cup Building
            PROVE  call'[c].overlapped
        <5>1. d # c /\ call[d].pc \in {"absent", "check", "dead"} \cup Building
          BY <2>0, <4>1, <4>2
        <5>. QED BY <2>0, <5>1 DEF Busy, Building
      <4>. QED BY <3>3, <4>2 DEF FoundIsCurrent
    <3>. QED BY <2>10, <3>2, <3>3 DEF Register, register
  <2>. QED
    BY <1>3, <2>3, <2>4, <2>5, <2>6, <2>7, <2>8, <2>9, <2>10 DEF Start
<1>. QED
  BY <1>1, <1>2, <1>3 DEF Next, vars, manager, Housekeeping, PumpTerminated, PumpStops, Retire,
     CloseFinishes, DebuggeeExits, AdapterDies, GrowsIdle, Asks, Answered, CloseSession,
     StopRuntime, Sweep, ServiceExits, ServiceStarts, retireRuntime, TakeOut

\* Every live adapter keeps somebody who will close it.
LEMMA AdapterStep == ASSUME OwnedInv, [Next]_vars PROVE AdapterOwned'
<1>. USE DEF OwnedInv
<1>0. TypeOK /\ FoundIsCurrent /\ MappedIsOpen /\ ClosedOnce /\ AdapterOwned BY DEF Inv
<1>1. ASSUME \A d \in Calls : adapter'[d] = "live" =>
               /\ adapter[d] = "live" /\ (call[d].overlapped => call'[d].overlapped)
               /\ call'[d].pc = "idle" => call[d].pc = "idle"
               /\ call[d].pc \in Building => call'[d].pc \in Building
               /\ runtime = d => runtime' = d \/ close'[d] = "stopping"
               /\ close[d] = "stopping" => close'[d] = "stopping"
      PROVE  AdapterOwned'
  BY <1>0, <1>1 DEF AdapterOwned
<1>2. ASSUME NEW d \in Calls, runtime = d, TakeOut(d), UNCHANGED <<adapter, call>>
      PROVE  AdapterOwned'
  <2>1. /\ close'[d] = "stopping"
        /\ \A c \in Calls \ {d} : close'[c] = close[c]
    BY <1>0, <1>2, TakeOutEffect
  <2>. QED BY <1>1, <1>2, <2>1
<1>3. ASSUME NEW c \in Calls, NEW kind \in Kinds, Request(c, kind) PROVE AdapterOwned'
  <2>1. /\ call[c].pc = "idle" /\ UNCHANGED <<adapter, runtime, close>>
        /\ \A d \in Calls \ {c} : /\ call'[d].pc = call[d].pc
                                  /\ (call[d].overlapped => call'[d].overlapped)
    BY <1>0, <1>3, RequestEffect DEF Request, manager, world
  <2>2. adapter[c] # "live"
    BY <1>0, <2>1 DEF AdapterOwned
  <2>. QED BY <1>1, <2>1, <2>2
<1>4. ASSUME NEW c \in Calls, Start(c) PROVE AdapterOwned'
  <2>. USE DEF At, Pcs
  <2>0. /\ \A d \in Calls \ {c} : call'[d] = call[d]
        /\ call'[c].overlapped = call[c].overlapped /\ call'[c].pc # "idle"
    BY <1>0, <1>4, StartIsBusy
  <2>1. ASSUME call[c].pc \notin Building, UNCHANGED <<adapter, runtime, close>>
        PROVE  AdapterOwned'
    BY <1>1, <2>0, <2>1
  <2>2. CASE RetireDead(c)
    <3>1. call[c].pc \notin Building /\ call[c].seen \in Calls
      BY <2>2 DEF RetireDead, Inv, SeenIsRecord, Building
    <3>2. CASE runtime = call[c].seen
      <4>1. TakeOut(call[c].seen) /\ adapter' = adapter
        BY <2>2, <3>2 DEF RetireDead, retireRuntime, world
      <4>2. /\ close'[call[c].seen] = "stopping"
            /\ \A d \in Calls \ {call[c].seen} : close'[d] = close[d]
        BY <1>0, <3>1, <3>2, <4>1, TakeOutEffect
      <4>. QED BY <1>1, <2>0, <3>1, <3>2, <4>1, <4>2
    <3>3. CASE runtime # call[c].seen
      BY <2>1, <2>2, <3>1, <3>3 DEF RetireDead, retireRuntime, world
    <3>. QED BY <3>2, <3>3
  <2>3. CASE LaunchAdapter(c)
    <3>1. call'[c].pc = "handshake" BY <1>0, <2>3, GoEffect DEF LaunchAdapter
    <3>2. /\ \A d \in Calls \ {c} : adapter'[d] = adapter[d]
          /\ UNCHANGED <<runtime, close>>
      BY <1>0, <2>3 DEF LaunchAdapter, manager, TypeOK
    <3>. QED BY <1>0, <2>0, <3>1, <3>2 DEF AdapterOwned, Building
  <2>4. CASE Handshake(c) \/ StartPump(c)
    <3>1. PICK pc \in {"pump", "register"} : Go(c, pc) BY <2>4 DEF Handshake, StartPump
    <3>2. call'[c].pc \in Building BY <1>0, <3>1, GoEffect DEF Building
    <3>3. UNCHANGED <<adapter, runtime, close>>
      BY <2>4 DEF Handshake, StartPump, manager, world
    <3>. QED BY <1>1, <2>0, <3>2, <3>3
  <2>5. CASE HandshakeFails(c)
    <3>1. /\ adapter'[c] = "closed" /\ \A d \in Calls \ {c} : adapter'[d] = adapter[d]
          /\ UNCHANGED <<runtime, close>>
      BY <1>0, <2>5 DEF HandshakeFails, manager, TypeOK
    <3>. QED BY <1>1, <2>0, <3>1
  <2>6. CASE EntryTimesOut(c)
    <3>1. /\ close'[c] = "stopping" /\ \A d \in Calls \ {c} : close'[d] = close[d]
          /\ UNCHANGED <<runtime, adapter>>
      BY <1>0, <2>6 DEF EntryTimesOut, world, TypeOK
    <3>. QED BY <1>0, <2>0, <3>1 DEF AdapterOwned
  <2>7. CASE Register(c)
    <3>1. (runtime = None \/ call[runtime].overlapped) /\ adapter' = adapter
      BY <1>0, <2>7 DEF Register, FoundIsCurrent, Building, world
    <3>2. CASE rec[c].alive
      BY <1>0, <2>0, <2>7, <3>1, <3>2, DebugConstants DEF Register, register, AdapterOwned
    <3>3. CASE ~rec[c].alive
      <4>1. /\ close'[c] = "stopping" /\ runtime' = runtime
            /\ \A d \in Calls \ {c} : close'[d] = close[d]
        BY <1>0, <2>7, <3>3 DEF Register, register, CallClose, TypeOK
      <4>. QED BY <1>0, <2>0, <3>1, <4>1 DEF AdapterOwned
    <3>. QED BY <3>2, <3>3
  <2>8. CASE ActiveLease(c) \/ LookUp(c) \/ CheckProcess(c) \/ Reuse(c) \/ NotStarted(c)
              \/ AttachedStatus(c) \/ CreateSession(c)
    BY <2>1, <2>8 DEF ActiveLease, LookUp, CheckProcess, Reuse, NotStarted, AttachedStatus,
       CreateSession, manager, world, Building
  <2>. QED BY <1>4, <2>2, <2>3, <2>4, <2>5, <2>6, <2>7, <2>8 DEF Start
<1>5. ASSUME NEW c \in Calls, CloseFinishes(c) PROVE AdapterOwned'
  <2>1. /\ adapter'[c] = "closed" /\ \A d \in Calls \ {c} : adapter'[d] = adapter[d]
        /\ \A d \in Calls \ {c} : close'[d] = close[d] /\ UNCHANGED <<runtime, call>>
    BY <1>0, <1>5 DEF CloseFinishes, TypeOK
  <2>. QED BY <1>1, <2>1
<1>6. ASSUME NEW c \in Calls, Retire(c) PROVE AdapterOwned'
  <2>1. CASE runtime = c
    BY <1>2, <1>6, <2>1 DEF Retire, retireRuntime, world
  <2>2. CASE runtime # c
    BY <1>1, <1>6, <2>2 DEF Retire, retireRuntime, world
  <2>. QED BY <2>1, <2>2
<1>7. ASSUME NEW c \in Calls, AdapterDies(c) PROVE AdapterOwned'
  <2>1. /\ adapter'[c] = "dead" /\ \A d \in Calls \ {c} : adapter'[d] = adapter[d]
        /\ UNCHANGED <<runtime, close, call>>
    BY <1>0, <1>7 DEF AdapterDies, manager, TypeOK
  <2>. QED BY <1>1, <2>1
<1>8. ASSUME NEW s \in Calls, NEW stop \in BOOLEAN, CloseSession(s, stop) PROVE AdapterOwned'
  <2>1. CASE stop /\ runtime # None
    BY <1>0, <1>2, <1>8, <2>1 DEF CloseSession, TypeOK, world
  <2>2. CASE ~(stop /\ runtime # None)
    BY <1>1, <1>8, <2>2 DEF CloseSession, world
  <2>. QED BY <2>1, <2>2
<1>9. ASSUME StopRuntime PROVE AdapterOwned'
  BY <1>0, <1>2, <1>9 DEF StopRuntime, TypeOK, world
<1>10. ASSUME UNCHANGED <<runtime, adapter, close, call>> PROVE AdapterOwned'
  BY <1>1, <1>10
<1>. QED
  BY <1>3, <1>4, <1>5, <1>6, <1>7, <1>8, <1>9, <1>10 DEF Next, vars, manager, world,
     Housekeeping, PumpTerminated, PumpStops, DebuggeeExits, GrowsIdle, Asks, Answered, Sweep,
     ServiceExits, ServiceStarts

-----------------------------------------------------------------------------
(* The theorems.                                                           *)

LEMMA InitInv == Init => Inv
BY DebugConstants DEF Init, Inv, TypeOK, Record, Call, Pcs, UnregisteredIsFresh, MappedIsOpen,
   SeenIsRecord, ClosedOnce

\* Inv holds initially and is kept by every step, however requests overlap.
THEOREM Invariance == Spec => []Inv
<1>1. Init => Inv BY InitInv
<1>2. Inv /\ [Next]_vars => Inv'
  BY InvStep
<1>. QED BY <1>1, <1>2, PTL DEF Spec

\* The map, the records, the pumps and the requests keep their types
\* (manager.go, pump.go).
THEOREM TypeCorrect == Spec => []TypeOK
<1>1. Inv => TypeOK BY DEF Inv
<1>. QED BY <1>1, Invariance, PTL

\* record.close runs at most once for every record, whatever the overlap of
\* requests, stops, closes, reuse checks and retirements.
THEOREM RuntimeClosedOnce == Spec => []ClosedOnce
<1>1. Inv => ClosedOnce BY DEF Inv
<1>. QED BY <1>1, Invariance, PTL

\* The adapter process of a request that ran beside no other is never left
\* without an owner: the request itself, the map, or a close that was begun
\* (manager.go, startRuntimeFromConfig to retireRuntime).
THEOREM AdaptersAreOwned == Spec => []NoAdapterLeak
<1>1. Init => OwnedInv
  BY InitInv DEF Init, OwnedInv, AdapterOwned, BusyHaveMet, Busy, FoundIsCurrent, Building
<1>2. OwnedInv /\ [Next]_vars => OwnedInv'
  BY InvStep, BusyStep, FoundStep, AdapterStep DEF OwnedInv
<1>3. OwnedInv => NoAdapterLeak
  BY DEF OwnedInv, AdapterOwned, NoAdapterLeak, Busy, Building
<1>. QED BY <1>1, <1>2, <1>3, PTL DEF Spec
=============================================================================
