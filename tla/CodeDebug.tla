------------------------------ MODULE CodeDebug ------------------------------
(***************************************************************************)
(* The code debugger of one deployment (agent/codedebug/manager.go,        *)
(* pump.go, dap.go): its debug runtime, launched or attached to the        *)
(* running service, the leases (sessions) on it, the event pump that       *)
(* learns that the debuggee ended, and the retirement of a dead runtime.   *)
(*                                                                         *)
(* Manager.mu is held for one map operation at a time; what lies between   *)
(* two of them is a step of its own: the liveness check, the launch, the   *)
(* handshake, the pump's start.  A runtime record is named by the request  *)
(* that built it, and so is a session.  Who calls record.close waits for   *)
(* it; here the caller goes on at once, which allows more.  The js-debug   *)
(* child handshake and the DAP requests of a session change nothing here.  *)
(***************************************************************************)
EXTENDS Naturals, FiniteSets

CONSTANTS
  Calls,     \* requests: each is made once
  Kinds,     \* of "open" (Open), "start" (StartRuntime), "resolve" (ResolveLease)
  MaxBusy,   \* how many requests are under way at once
  Faults,    \* "early": a debuggee may end before the pump listens;
             \* "link": an adapter may die without a word;
             \* "hang": an adapter may leave the pump's question unanswered;
             \* "flood": an event may meet a full buffer
  None

ASSUME DebugConstants ==
  /\ None \notin Calls /\ Kinds \subseteq {"open", "start", "resolve"}
  /\ MaxBusy \in Nat \ {0} /\ Faults \subseteq {"early", "link", "hang", "flood"}

VARIABLES
  runtime,   \* runtimes[deployment]
  rec,       \* the records: origin and Alive
  adapter,   \* each record's adapter process and connection
  debuggee,  \* the process each record debugs
  service,   \* is the service's ordinary process running
  pump,      \* each record's event pump: "asking" waits for a StackTrace, "told"
             \* has terminated in its channel, "behind" both
  retire,    \* the goroutine started by onTerminated
  close,     \* record.close
  closes,    \* history: how often it was called
  call,      \* the requests; history: was another one under way meanwhile
  session    \* the leases; "idle" is past its TTL and not yet swept

manager == <<runtime, rec, session, close, closes>>
world == <<adapter, debuggee, service>>
vars == <<manager, world, pump, retire, call>>

Record == [origin : {"none", "launched", "attached"}, alive : BOOLEAN]

Pcs == {"idle", "lease", "look", "check", "dead", "present", "absent", "handshake", "pump",
        "register", "status", "session", "done", "failed"}
Call == [pc : Pcs, kind : Kinds \cup {None}, again : BOOLEAN, seen : Calls \cup {None},
         overlapped : BOOLEAN]

TypeOK ==
  /\ runtime \in Calls \cup {None} /\ rec \in [Calls -> Record]
  /\ adapter \in [Calls -> {"none", "live", "dead", "closed"}]
  /\ debuggee \in [Calls -> {"none", "alive", "dead"}] /\ service \in BOOLEAN
  /\ pump \in [Calls -> {"off", "on", "asking", "behind", "told", "ended"}]
  /\ retire \in [Calls -> {"none", "due", "done"}]
  /\ close \in [Calls -> {"no", "stopping", "done"}] /\ closes \in [Calls -> Nat]
  /\ call \in [Calls -> Call]
  /\ session \in [Calls -> {"none", "live", "idle", "closed"}]

Init ==
  /\ runtime = None
  /\ rec = [c \in Calls |-> [origin |-> "none", alive |-> FALSE]]
  /\ adapter = [c \in Calls |-> "none"] /\ debuggee = [c \in Calls |-> "none"]
  /\ service \in BOOLEAN
  /\ pump = [c \in Calls |-> "off"] /\ retire = [c \in Calls |-> "none"]
  /\ close = [c \in Calls |-> "no"] /\ closes = [c \in Calls |-> 0]
  /\ call = [c \in Calls |-> [pc |-> "idle", kind |-> None, again |-> FALSE, seen |-> None,
                              overlapped |-> FALSE]]
  /\ session = [c \in Calls |-> "none"]

Busy == {c \in Calls : call[c].pc \notin {"idle", "done", "failed"}}
At(c, pc) == call[c].pc = pc
Go(c, pc) == call' = [call EXCEPT ![c].pc = pc]

-----------------------------------------------------------------------------
(* What happens under the lock.                                            *)

\* cleanupLocked, at the start of most calls: leases past their TTL go.
cleanup(sessions) == [s \in Calls |-> IF sessions[s] = "idle" THEN "closed" ELSE sessions[s]]

\* Every lease of the deployment is closed with its runtime.
closeSessions ==
  [s \in Calls |-> IF session[s] \in {"live", "idle"} THEN "closed" ELSE session[s]]

\* record.close is called: the pump's subscription is cancelled first.
CallClose(d) ==
  close' = [close EXCEPT ![d] = "stopping"] /\ closes' = [closes EXCEPT ![d] = @ + 1]

\* StopRuntime, and Close with stop_runtime: the runtime in the map is taken out.
TakeOut(d) ==
  /\ runtime' = None /\ session' = closeSessions
  /\ rec' = [rec EXCEPT ![d].alive = FALSE]
  /\ CallClose(d)

\* Mistake: the record is closed although somebody else took it out.
retireAnyway(d) ==
  /\ rec' = [rec EXCEPT ![d].alive = FALSE]
  /\ IF runtime = d THEN runtime' = None /\ session' = closeSessions
                    ELSE UNCHANGED <<runtime, session>>
  /\ CallClose(d)

\* retireRuntime: the record is dead in any case, and goes if it is still the
\* one in the map.
retireRuntime(d) ==
  IF runtime = d THEN TakeOut(d)
  ELSE /\ rec' = [rec EXCEPT ![d].alive = FALSE]
       /\ UNCHANGED <<runtime, session, close, closes>>

\* processAlive(record.ProcessID): the adapter of a launched runtime, the
\* service of an attached one.
processAlive(d) ==
  IF rec[d].origin = "launched" THEN adapter[d] = "live" ELSE debuggee[d] = "alive"

-----------------------------------------------------------------------------
(* Open, StartRuntime and ResolveLease.                                    *)

Request(c, kind) ==
  /\ At(c, "idle") /\ Cardinality(Busy) < MaxBusy
  /\ call' = [d \in Calls |->
       IF d = c THEN [call[c] EXCEPT !.kind = kind, !.overlapped = Busy # {},
                                     !.pc = IF kind = "resolve" THEN "lease" ELSE "look"]
       ELSE IF d \in Busy THEN [call[d] EXCEPT !.overlapped = TRUE] ELSE call[d]]
  /\ UNCHANGED <<manager, world, pump, retire>>

\* activeLeaseFor: a lease that is still good answers ResolveLease.
ActiveLease(c) ==
  /\ At(c, "lease")
  /\ session' = cleanup(session)
  /\ Go(c, IF \E s \in Calls : session'[s] = "live" THEN "done" ELSE "look")
  /\ UNCHANGED <<runtime, rec, close, closes, world, pump, retire>>

\* reusableRuntime: the record is read, the lock is dropped ...
LookUp(c) ==
  /\ At(c, "look")
  /\ call' = [call EXCEPT ![c].seen = runtime,
       ![c].pc = IF runtime # None /\ rec[runtime].alive THEN "check" ELSE "absent"]
  /\ UNCHANGED <<manager, world, pump, retire>>

\* ... and its process is looked at.
CheckProcess(c) ==
  /\ At(c, "check")
  /\ Go(c, IF processAlive(call[c].seen) THEN "present" ELSE "dead")
  /\ UNCHANGED <<manager, world, pump, retire>>

RetireDead(c) ==
  /\ At(c, "dead")
  /\ retireRuntime(call[c].seen)
  /\ Go(c, "absent")
  /\ UNCHANGED <<world, pump, retire>>

\* startRuntimeFromConfig takes what is in the map now, if anything is;
\* ResolveLease asks reusableRuntime once more (openLeaseOnRuntime).
Reuse(c) ==
  /\ At(c, "present")
  /\ call' = [call EXCEPT ![c].again = TRUE, ![c].pc =
       IF call[c].kind = "resolve" THEN (IF call[c].again THEN "session" ELSE "look")
       ELSE IF runtime = None \/ ~rec[runtime].alive THEN "absent"
       ELSE IF call[c].kind = "open" THEN "session" ELSE "done"]
  /\ UNCHANGED <<manager, world, pump, retire>>

MayAttach(c) == call[c].kind = "resolve" /\ ~call[c].again /\ service

\* The adapter is launched; ResolveLease only ever attaches.
LaunchAdapter(c) ==
  /\ At(c, "absent") /\ (call[c].kind # "resolve" \/ MayAttach(c))
  /\ adapter' = [adapter EXCEPT ![c] = "live"]
  /\ Go(c, "handshake")
  /\ UNCHANGED <<manager, debuggee, service, pump, retire>>

\* No adapter, no port, no running service, a language that cannot attach, or a
\* runtime that went between the two looks.
NotStarted(c) ==
  /\ At(c, "absent")
  /\ Go(c, "failed")
  /\ UNCHANGED <<manager, world, pump, retire>>

\* Dial, initialize, launch or attach, configurationDone; then the record.
Handshake(c) ==
  /\ At(c, "handshake") /\ adapter[c] = "live"
  /\ call[c].kind = "resolve" => service
  /\ debuggee' = [debuggee EXCEPT ![c] = "alive"]
  /\ rec' = [rec EXCEPT ![c] =
       [origin |-> IF call[c].kind = "resolve" THEN "attached" ELSE "launched", alive |-> TRUE]]
  /\ Go(c, "pump")
  /\ UNCHANGED <<runtime, session, close, closes, adapter, service, pump, retire>>

HandshakeFails(c) ==
  /\ At(c, "handshake")
  /\ adapter' = [adapter EXCEPT ![c] = "closed"]
  /\ Go(c, "failed")
  /\ UNCHANGED <<manager, debuggee, service, pump, retire>>

\* The pump subscribes to the events that come from now on.
StartPump(c) ==
  /\ At(c, "pump")
  /\ pump' = [pump EXCEPT ![c] = "on"]
  /\ Go(c, "register")
  /\ UNCHANGED <<manager, world, retire>>

\* stop_on_entry: the stopped event does not come in time.  The pump is
\* stopped and the adapter closed by the request itself, without record.close.
EntryTimesOut(c) ==
  /\ At(c, "register") /\ rec[c].origin = "launched"
  /\ close' = [close EXCEPT ![c] = "stopping"]
  /\ Go(c, "failed")
  /\ UNCHANGED <<runtime, rec, session, closes, world, pump, retire>>

AfterRegister(c) ==
  CASE call[c].kind = "start" -> "done" [] call[c].kind = "open" -> "session"
    [] OTHER -> "status"

\* Mistake: a refused record is dropped, adapter and all.
registerDropped(c) ==
  /\ IF rec[c].alive THEN runtime' = c /\ Go(c, AfterRegister(c))
                     ELSE Go(c, "failed") /\ UNCHANGED runtime
  /\ UNCHANGED <<close, closes>>

register(c) ==
  IF rec[c].alive
  THEN runtime' = c /\ Go(c, AfterRegister(c)) /\ UNCHANGED <<close, closes>>
  ELSE CallClose(c) /\ Go(c, "failed") /\ UNCHANGED runtime

Register(c) ==
  /\ At(c, "register")
  /\ register(c)
  /\ UNCHANGED <<rec, session, world, pump, retire>>

\* ResolveLease after an attach: RuntimeStatus.
AttachedStatus(c) ==
  /\ At(c, "status")
  /\ session' = cleanup(session)
  /\ Go(c, IF runtime # None /\ rec[runtime].alive THEN "session" ELSE "failed")
  /\ UNCHANGED <<runtime, rec, close, closes, world, pump, retire>>

\* createSessionForRuntime works from the snapshot of the runtime.
CreateSession(c) ==
  /\ At(c, "session")
  /\ session' = [cleanup(session) EXCEPT ![c] = "live"]
  /\ Go(c, "done")
  /\ UNCHANGED <<runtime, rec, close, closes, world, pump, retire>>

Start(c) ==
  \/ ActiveLease(c) \/ LookUp(c) \/ CheckProcess(c) \/ RetireDead(c) \/ Reuse(c)
  \/ LaunchAdapter(c) \/ NotStarted(c) \/ Handshake(c) \/ HandshakeFails(c)
  \/ StartPump(c) \/ EntryTimesOut(c) \/ Register(c) \/ AttachedStatus(c) \/ CreateSession(c)

-----------------------------------------------------------------------------
(* The other operations.                                                   *)

StopRuntime ==
  /\ runtime # None
  /\ TakeOut(runtime)
  /\ UNCHANGED <<world, pump, retire, call>>

\* Close of a session, which stops the runtime unless asked not to.  The
\* handler's Status has swept first.
CloseSession(s, stop) ==
  /\ session[s] = "live"
  /\ IF stop
     THEN IF runtime # None THEN TakeOut(runtime)
          ELSE session' = closeSessions /\ UNCHANGED <<runtime, rec, close, closes>>
     ELSE /\ session' = [cleanup(session) EXCEPT ![s] = "closed"]
          /\ UNCHANGED <<runtime, rec, close, closes>>
  /\ UNCHANGED <<world, pump, retire, call>>

\* List, Status, RuntimeStatus, LeaseFor and every use of a session.
Sweep ==
  /\ \E s \in Calls : session[s] = "idle"
  /\ session' = cleanup(session)
  /\ UNCHANGED <<runtime, rec, close, closes, world, pump, retire, call>>

GrowsIdle(s) ==
  /\ session[s] = "live"
  /\ session' = [session EXCEPT ![s] = "idle"]
  /\ UNCHANGED <<runtime, rec, close, closes, world, pump, retire, call>>

-----------------------------------------------------------------------------
(* The pump, the retirement, the end of record.close.                      *)

\* Mistake: the pump retires the runtime itself and goes on when that is done.
handleTerminatedInline(c) ==
  /\ pump[c] = "told" /\ retire[c] = "none"
  /\ retire' = [retire EXCEPT ![c] = "due"]
  /\ UNCHANGED pump

\* handle of terminated or exited: the retirement is a goroutine of its own,
\* for record.close waits until this loop is over.
handleTerminated(c) ==
  /\ pump[c] = "told"
  /\ retire' = [retire EXCEPT ![c] = "due"]
  /\ pump' = [pump EXCEPT ![c] = "ended"]

PumpTerminated(c) == handleTerminated(c) /\ UNCHANGED <<manager, world, call>>

\* handle of stopped: the loop asks for the stack, with no deadline ...
Asks(c) ==
  /\ pump[c] = "on" /\ close[c] = "no" /\ adapter[c] = "live" /\ debuggee[c] = "alive"
  /\ pump' = [pump EXCEPT ![c] = "asking"]
  /\ UNCHANGED <<manager, world, retire, call>>

\* ... and goes on with the answer, or with the error of a broken connection.
Answered(c) ==
  /\ pump[c] \in {"asking", "behind"}
  /\ pump' = [pump EXCEPT ![c] = IF @ = "behind" THEN "told" ELSE "on"]
  /\ UNCHANGED <<manager, world, retire, call>>

\* The subscription was cancelled and its channel is empty: only a loop that
\* waits for no answer sees that.
PumpStops(c) ==
  /\ pump[c] = "on" /\ close[c] = "stopping"
  /\ pump' = [pump EXCEPT ![c] = "ended"]
  /\ UNCHANGED <<manager, world, retire, call>>

Retire(c) ==
  /\ retire[c] = "due"
  /\ retireRuntime(c)
  /\ retire' = [retire EXCEPT ![c] = "done"]
  /\ UNCHANGED <<world, pump, call>>

\* Disconnect or detach, then the adapter's process group is killed, and with
\* it a debuggee that the adapter launched.
CloseFinishes(c) ==
  /\ close[c] = "stopping" /\ pump[c] = "ended"
  /\ close' = [close EXCEPT ![c] = "done"]
  /\ adapter' = [adapter EXCEPT ![c] = "closed"]
  /\ debuggee' = IF rec[c].origin = "launched" THEN [debuggee EXCEPT ![c] = "dead"] ELSE debuggee
  /\ UNCHANGED <<runtime, rec, session, closes, service, pump, retire, call>>

Housekeeping(c) == PumpTerminated(c) \/ PumpStops(c) \/ Retire(c) \/ CloseFinishes(c)

-----------------------------------------------------------------------------
(* The processes.  A terminated event reaches the pumps that listen and    *)
(* have room for it: dispatchEvent drops what finds a full buffer.         *)

Told(S) ==
  LET listening == {c \in S : adapter[c] = "live" /\ pump[c] \in {"on", "asking"}
                                                 /\ close[c] = "no"} IN
  \E full \in IF "flood" \in Faults THEN SUBSET listening ELSE {{}} :
    pump' = [c \in Calls |-> IF c \notin listening \ full THEN pump[c]
                            ELSE IF pump[c] = "on" THEN "told" ELSE "behind"]

Unheard(c) == debuggee[c] = "alive" /\ pump[c] = "off"

DebuggeeExits(c) ==
  /\ rec[c].origin = "launched" /\ debuggee[c] = "alive"
  /\ "early" \in Faults \/ ~Unheard(c)
  /\ debuggee' = [debuggee EXCEPT ![c] = "dead"]
  /\ Told({c})
  /\ UNCHANGED <<manager, adapter, service, retire, call>>

ServiceExits ==
  LET attached == {c \in Calls : rec[c].origin = "attached" /\ debuggee[c] = "alive"} IN
  /\ service
  /\ "early" \in Faults \/ \A c \in attached : ~Unheard(c)
  /\ service' = FALSE
  /\ debuggee' = [c \in Calls |-> IF c \in attached THEN "dead" ELSE debuggee[c]]
  /\ Told(attached)
  /\ UNCHANGED <<manager, adapter, retire, call>>

ServiceStarts ==
  /\ ~service
  /\ service' = TRUE
  /\ UNCHANGED <<manager, adapter, debuggee, pump, retire, call>>

\* The connection breaks: readLoop ends, the subscribers are told nothing.
AdapterDies(c) ==
  /\ "link" \in Faults /\ adapter[c] = "live"
  /\ adapter' = [adapter EXCEPT ![c] = "dead"]
  /\ debuggee' = IF rec[c].origin = "launched" THEN [debuggee EXCEPT ![c] = "dead"] ELSE debuggee
  /\ UNCHANGED <<manager, service, pump, retire, call>>

-----------------------------------------------------------------------------

Next ==
  \/ \E c \in Calls :
       \/ \E kind \in Kinds : Request(c, kind)
       \/ Start(c) \/ Housekeeping(c) \/ DebuggeeExits(c) \/ AdapterDies(c)
       \/ GrowsIdle(c) \/ Asks(c) \/ Answered(c)
       \/ \E stop \in BOOLEAN : CloseSession(c, stop)
  \/ StopRuntime \/ Sweep \/ ServiceExits \/ ServiceStarts

Spec == Init /\ [][Next]_vars

\* Goroutines run; the handshake has its deadlines.  The pump's question has
\* none: an adapter that may hang need not answer it while its connection is up.
MayHang(c) == "hang" \in Faults /\ adapter[c] = "live"

FairSpec ==
  /\ Spec
  /\ \A c \in Calls :
       WF_vars(Start(c)) /\ WF_vars(Housekeeping(c)) /\ WF_vars(~MayHang(c) /\ Answered(c))

-----------------------------------------------------------------------------
(* Properties.                                                             *)

\* No adapter is left behind: one that lives belongs to a request under way,
\* to the runtime in the map, or to a close that was begun, unless its request
\* ran beside another one.
NoAdapterLeak ==
  \A c \in Calls :
    adapter[c] = "live" /\ ~call[c].overlapped =>
      c \in Busy \/ runtime = c \/ close[c] = "stopping"

\* A runtime is closed once, whoever of a stop, a lease's close, a reuse check,
\* a late terminated event and a refused registration comes first.
ClosedOnce == \A c \in Calls : closes[c] <= 1

\* A debuggee whose end reached the pump's channel takes its runtime with it:
\* the record leaves the map and its adapter is closed.  Two things prevent it:
\* an adapter that keeps the loop waiting for its stack for good, and a request
\* beside the runtime's own that put another one in its place.
EndedIsRetired ==
  \A c \in Calls :
    [](pump[c] \in {"told", "behind"} =>
         \/ <>((runtime # c /\ adapter[c] # "live") \/ call[c].overlapped)
         \/ <>[](pump[c] = "behind" /\ adapter[c] = "live"))

-----------------------------------------------------------------------------
(* What comments say and the code does not keep: each is refuted by the    *)
(* configuration the README names for it.                                  *)

\* No adapter is left behind when requests overlap either.
NothingIsLeft ==
  \A c \in Calls :
    adapter[c] = "live" => c \in Busy \/ runtime = c \/ close[c] = "stopping"

\* ResolveLease hands out an existing lease without a look at its runtime: a
\* live lease has one, when no request is under way.
LeaseHasRuntime == Busy = {} /\ (\E s \in Calls : session[s] = "live") => runtime # None

\* A dead debuggee's runtime does not stay in the map.
DeadIsRetired == \A c \in Calls : (runtime = c /\ debuggee[c] = "dead") ~> runtime # c

\* A runtime whose adapter was gone before the reuse check is not reused.
BrokenNotReused ==
  [][\A c \in Calls :
       At(c, "check") /\ adapter[call[c].seen] = "dead" => call'[c].pc # "present"]_vars
=============================================================================
