------------------------ MODULE TunnelManagerProofs ------------------------
(***************************************************************************)
(* Theorems about TunnelManager, for any number of calls, pins, forwarders *)
(* and ports.                                                              *)
(*                                                                         *)
(* None of the safety properties is inductive by itself: whether a dial    *)
(* that ends may be published depends on the generation its attempt was    *)
(* given, which is only meaningful because the attempt in flight is the    *)
(* one the slot names and because a call's generation and pin never change *)
(* once it leads.  Inv says so.                                            *)
(***************************************************************************)
EXTENDS TunnelManager, TLAPS

Led == {"drop", "dial", "silent", "publish", "fail", "discard", "signal", "ok", "err"}

\* A call's own fields: the pin is set when the call is made, the result is
\* set last, and what it returns was dialled for its pin.
CallAgrees(c) ==
  /\ call[c].pc # "idle" => call[c].pin # NoPin
  /\ Dialling(c) => call[c].pin \in Pins /\ call[c].gen <= gen
  /\ call[c].got # NoOne =>
       /\ call[c].pc \in {"signal", "ok"}
       /\ call[call[c].got].pc \in {"signal", "ok"}
       /\ call[call[c].got].pin = call[c].pin
       /\ call[call[c].got].got = call[c].got
  /\ call[c].pc = "signal" => call[c].got \in {c, NoOne}
  /\ call[c].pc = "ok" => call[c].got # NoOne
  /\ call[c].pc = "drop" => call[c].drop \in Callers
  /\ call[c].pc = "wait" => call[c].wait \in Callers

CallsAgree == \A c \in Callers : CallAgrees(c)

\* The slot names the one attempt in flight.
SlotAgrees ==
  /\ connecting # NoOne => Dialling(connecting)
  /\ \A c \in Callers : Dialling(c) => connecting = c

\* The published tunnel is of the current generation, and leaves no room for
\* an attempt.
PublishedAgrees ==
  conn # NoOne =>
    /\ connecting = NoOne
    /\ call[conn].gen = gen
    /\ call[conn].pc \in {"signal", "ok"}
    /\ call[conn].pin \in Pins
    /\ call[conn].got = conn

\* Once invalidated, an attempt is behind the generation for ever.
StaleAgrees ==
  \A x \in stale : call[x].pc \in Led /\ (call[x].gen < gen \/ closed)

Over == {"signal", "ok", "err"}

\* A tunnel in the hands of its call is open; one that waits to be closed is
\* stale, and its call has nothing more to do with it.
HandsAgree ==
  /\ \A c \in Callers : call[c].pc \in {"publish", "discard"} => c \in open
  /\ \A x \in doomed : x \in stale /\ call[x].pc \in Over
  /\ \A c \in Callers : call[c].pc = "drop" =>
       call[c].drop \in stale /\ call[call[c].drop].pc \in Over

Inv ==
  /\ TypeOK /\ CallsAgree /\ SlotAgrees /\ PublishedAgrees
  /\ StatusIsTruth /\ StaleAgrees /\ HandsAgree /\ NothingLeaks

-----------------------------------------------------------------------------
\* The record updates keep the type of a call.
LEMMA CallUpdates ==
  ASSUME NEW r \in Call, NEW pin \in Pins \cup {BadPin}, NEW x \in Tunnel,
         NEW pc \in {"idle", "start", "drop", "dial", "silent", "publish", "fail",
                    "discard", "signal", "wait", "ok", "err"}, NEW g \in Nat, gen \in Nat
  PROVE  /\ Made(r, pin) \in Call
         /\ Waiting(r, x) \in Call
         /\ Leading(r, pc, x, g) \in Call
         /\ Answered(r, pc, x) \in Call
  BY DEF Call, Made, Waiting, Leading, Answered

\* A call that is just made holds nothing.
LEMMA CallMade ==
  ASSUME Inv, NEW c \in Callers, NEW pin \in Pins \cup {BadPin}, EnsureConnected(c, pin)
  PROVE  Inv'
<1>1. TypeOK'
  <2>1. call' \in [Callers -> Call]
    BY CallUpdates, TunnelConstants DEF Inv, TypeOK, Tunnel, mgr, tunnels, GoTo,
       EnsureConnected
  <2>2. QED
    BY <2>1, TunnelConstants DEF Inv, TypeOK, Call, Tunnel, mgr, tunnels, GoTo,
       EnsureConnected, CallsAgree, CallAgrees, Dialling, SlotAgrees,
       PublishedAgrees, StatusIsTruth
<1>2. CallsAgree'
  BY <1>1, TunnelConstants DEF Inv, TypeOK, Call, Tunnel, mgr, tunnels, GoTo,
     EnsureConnected, Made, CallsAgree, CallAgrees, Dialling, SlotAgrees,
     PublishedAgrees, StatusIsTruth
<1>3. SlotAgrees'
  BY <1>1, TunnelConstants DEF Inv, TypeOK, Call, Tunnel, mgr, tunnels, GoTo,
     EnsureConnected, Made, SlotAgrees, Dialling, CallsAgree, CallAgrees,
     PublishedAgrees
<1>4. PublishedAgrees'
  BY <1>1, TunnelConstants DEF Inv, TypeOK, Call, Tunnel, mgr, tunnels, GoTo,
     EnsureConnected, Made, PublishedAgrees, SlotAgrees, Dialling, CallsAgree,
     CallAgrees, StatusIsTruth
<1>5. StatusIsTruth'
  BY <1>1, TunnelConstants DEF Inv, TypeOK, Call, Tunnel, mgr, tunnels, GoTo,
     EnsureConnected, Made, StatusIsTruth, PublishedAgrees, SlotAgrees, Dialling,
     CallsAgree, CallAgrees, StaleAgrees
<1>6. StaleAgrees'
  BY <1>1, TunnelConstants DEF Inv, TypeOK, Call, Tunnel, mgr, tunnels, GoTo,
     EnsureConnected, Made, StaleAgrees, Led, CallsAgree, CallAgrees, SlotAgrees,
     PublishedAgrees, Dialling, StatusIsTruth
<1>7. HandsAgree'
  BY <1>1, TunnelConstants DEF Inv, TypeOK, Call, Tunnel, mgr, tunnels, GoTo,
     EnsureConnected, Made, HandsAgree, StaleAgrees, Led, Over, CallsAgree,
     CallAgrees, SlotAgrees, PublishedAgrees, Dialling, NothingLeaks
<1>8. NothingLeaks'
  BY <1>1, TunnelConstants DEF Inv, TypeOK, Call, Tunnel, mgr, tunnels, GoTo,
     EnsureConnected, Made, NothingLeaks, HandsAgree, Over, PublishedAgrees,
     StaleAgrees, Led, SlotAgrees, Dialling, StatusIsTruth
<1>9. QED
  BY <1>1, <1>2, <1>3, <1>4, <1>5, <1>6, <1>7, <1>8 DEF Inv

\* A closed manager turns the call away.
LEMMA ClosedRejected ==
  ASSUME Inv, NEW c \in Callers, RejectClosed(c)
  PROVE  Inv'
<1>1. TypeOK'
  <2>1. call' \in [Callers -> Call]
    BY TunnelConstants DEF Inv, TypeOK, Call, Tunnel, mgr, tunnels, GoTo, RejectClosed
  <2>2. QED
    BY <2>1, TunnelConstants DEF Inv, TypeOK, Call, Tunnel, mgr, tunnels, GoTo,
       RejectClosed, CallsAgree, CallAgrees, Dialling, SlotAgrees,
       PublishedAgrees, StatusIsTruth
<1>2. CallsAgree'
  BY <1>1, TunnelConstants DEF Inv, TypeOK, Call, Tunnel, mgr, tunnels, GoTo,
     RejectClosed, CallsAgree, CallAgrees, Dialling, SlotAgrees, PublishedAgrees,
     StatusIsTruth
<1>3. SlotAgrees'
  BY <1>1, TunnelConstants DEF Inv, TypeOK, Call, Tunnel, mgr, tunnels, GoTo,
     RejectClosed, SlotAgrees, Dialling, CallsAgree, CallAgrees, PublishedAgrees
<1>4. PublishedAgrees'
  BY <1>1, TunnelConstants DEF Inv, TypeOK, Call, Tunnel, mgr, tunnels, GoTo,
     RejectClosed, PublishedAgrees, SlotAgrees, Dialling, CallsAgree, CallAgrees,
     StatusIsTruth
<1>5. StatusIsTruth'
  BY <1>1, TunnelConstants DEF Inv, TypeOK, Call, Tunnel, mgr, tunnels, GoTo,
     RejectClosed, StatusIsTruth, PublishedAgrees, SlotAgrees, Dialling, CallsAgree,
     CallAgrees, StaleAgrees
<1>6. StaleAgrees'
  BY <1>1, TunnelConstants DEF Inv, TypeOK, Call, Tunnel, mgr, tunnels, GoTo,
     RejectClosed, StaleAgrees, Led, CallsAgree, CallAgrees, SlotAgrees,
     PublishedAgrees, Dialling, StatusIsTruth
<1>7. HandsAgree'
  BY <1>1, TunnelConstants DEF Inv, TypeOK, Call, Tunnel, mgr, tunnels, GoTo,
     RejectClosed, HandsAgree, StaleAgrees, Led, Over, CallsAgree, CallAgrees,
     SlotAgrees, PublishedAgrees, Dialling, NothingLeaks
<1>8. NothingLeaks'
  BY <1>1, TunnelConstants DEF Inv, TypeOK, Call, Tunnel, mgr, tunnels, GoTo,
     RejectClosed, NothingLeaks, HandsAgree, Over, PublishedAgrees, StaleAgrees,
     Led, SlotAgrees, Dialling, StatusIsTruth
<1>9. QED
  BY <1>1, <1>2, <1>3, <1>4, <1>5, <1>6, <1>7, <1>8 DEF Inv

\* An invalid pin invalidates the host like MarkFailed.
LEMMA PinRejected ==
  ASSUME Inv, NEW c \in Callers, RejectPin(c)
  PROVE  Inv'
<1>1. TypeOK'
  <2>1. call' \in [Callers -> Call]
    BY TunnelConstants DEF Inv, TypeOK, Call, Tunnel, mgr, tunnels, GoTo,
       RejectPin, BumpGeneration, Invalidate, ClearEvidence
  <2>2. QED
    BY <2>1, TunnelConstants DEF Inv, TypeOK, Call, Tunnel, mgr, tunnels, GoTo,
       RejectPin, BumpGeneration, Invalidate, ClearEvidence, CallsAgree,
       CallAgrees, Dialling, SlotAgrees, PublishedAgrees, StatusIsTruth
<1>2. CallsAgree'
  BY <1>1, TunnelConstants DEF Inv, TypeOK, Call, Tunnel, mgr, tunnels, GoTo,
     RejectPin, BumpGeneration, Invalidate, ClearEvidence, CallsAgree, CallAgrees,
     Dialling, SlotAgrees, PublishedAgrees, StatusIsTruth
<1>3. SlotAgrees'
  BY <1>1, TunnelConstants DEF Inv, TypeOK, Call, Tunnel, mgr, tunnels, GoTo,
     RejectPin, BumpGeneration, Invalidate, ClearEvidence, SlotAgrees, Dialling,
     CallsAgree, CallAgrees, PublishedAgrees
<1>4. PublishedAgrees'
  BY <1>1, TunnelConstants DEF Inv, TypeOK, Call, Tunnel, mgr, tunnels, GoTo,
     RejectPin, BumpGeneration, Invalidate, ClearEvidence, PublishedAgrees,
     SlotAgrees, Dialling, CallsAgree, CallAgrees, StatusIsTruth
<1>5. StatusIsTruth'
  BY <1>1, TunnelConstants DEF Inv, TypeOK, Call, Tunnel, mgr, tunnels, GoTo,
     RejectPin, BumpGeneration, Invalidate, ClearEvidence, StatusIsTruth,
     PublishedAgrees, SlotAgrees, Dialling, CallsAgree, CallAgrees, StaleAgrees
<1>6. StaleAgrees'
  BY <1>1, TunnelConstants DEF Inv, TypeOK, Call, Tunnel, mgr, tunnels, GoTo,
     RejectPin, BumpGeneration, Invalidate, ClearEvidence, StaleAgrees, Led,
     CallsAgree, CallAgrees, SlotAgrees, PublishedAgrees, Dialling, StatusIsTruth
<1>7. HandsAgree'
  BY <1>1, TunnelConstants DEF Inv, TypeOK, Call, Tunnel, mgr, tunnels, GoTo,
     RejectPin, BumpGeneration, Invalidate, ClearEvidence, HandsAgree, StaleAgrees,
     Led, Over, CallsAgree, CallAgrees, SlotAgrees, PublishedAgrees, Dialling,
     NothingLeaks
<1>8. NothingLeaks'
  BY <1>1, TunnelConstants DEF Inv, TypeOK, Call, Tunnel, mgr, tunnels, GoTo,
     RejectPin, BumpGeneration, Invalidate, ClearEvidence, NothingLeaks, HandsAgree,
     Over, PublishedAgrees, StaleAgrees, Led, SlotAgrees, Dialling, StatusIsTruth
<1>9. QED
  BY <1>1, <1>2, <1>3, <1>4, <1>5, <1>6, <1>7, <1>8 DEF Inv

\* A shared tunnel was proved against the sharer's pin.
LEMMA Reused ==
  ASSUME Inv, NEW c \in Callers, Reuse(c)
  PROVE  Inv'
<1>1. TypeOK'
  <2>1. call' \in [Callers -> Call]
    BY CallUpdates, TunnelConstants DEF Inv, TypeOK, Tunnel, mgr, tunnels, GoTo,
       Reuse, MayEnter, Reusable
  <2>2. QED
    BY <2>1, TunnelConstants DEF Inv, TypeOK, Call, Tunnel, mgr, tunnels, GoTo,
       Reuse, MayEnter, Reusable, CallsAgree, CallAgrees, Dialling, SlotAgrees,
       PublishedAgrees, StatusIsTruth
<1>2. CallsAgree'
  BY <1>1, TunnelConstants DEF Inv, TypeOK, Call, Tunnel, mgr, tunnels, GoTo, Reuse,
     MayEnter, Reusable, Answered, CallsAgree, CallAgrees, Dialling, SlotAgrees,
     PublishedAgrees, StatusIsTruth
<1>3. SlotAgrees'
  BY <1>1, TunnelConstants DEF Inv, TypeOK, Call, Tunnel, mgr, tunnels, GoTo, Reuse,
     MayEnter, Reusable, Answered, SlotAgrees, Dialling, CallsAgree, CallAgrees,
     PublishedAgrees
<1>4. PublishedAgrees'
  BY <1>1, TunnelConstants DEF Inv, TypeOK, Call, Tunnel, mgr, tunnels, GoTo, Reuse,
     MayEnter, Reusable, Answered, PublishedAgrees, SlotAgrees, Dialling,
     CallsAgree, CallAgrees, StatusIsTruth
<1>5. StatusIsTruth'
  BY <1>1, TunnelConstants DEF Inv, TypeOK, Call, Tunnel, mgr, tunnels, GoTo, Reuse,
     MayEnter, Reusable, Answered, StatusIsTruth, PublishedAgrees, SlotAgrees,
     Dialling, CallsAgree, CallAgrees, StaleAgrees
<1>6. StaleAgrees'
  BY <1>1, TunnelConstants DEF Inv, TypeOK, Call, Tunnel, mgr, tunnels, GoTo, Reuse,
     MayEnter, Reusable, Answered, StaleAgrees, Led, CallsAgree, CallAgrees,
     SlotAgrees, PublishedAgrees, Dialling, StatusIsTruth
<1>7. HandsAgree'
  BY <1>1, TunnelConstants DEF Inv, TypeOK, Call, Tunnel, mgr, tunnels, GoTo, Reuse,
     MayEnter, Reusable, Answered, HandsAgree, StaleAgrees, Led, Over, CallsAgree,
     CallAgrees, SlotAgrees, PublishedAgrees, Dialling, NothingLeaks
<1>8. NothingLeaks'
  BY <1>1, TunnelConstants DEF Inv, TypeOK, Call, Tunnel, mgr, tunnels, GoTo, Reuse,
     MayEnter, Reusable, Answered, NothingLeaks, HandsAgree, Over, PublishedAgrees,
     StaleAgrees, Led, SlotAgrees, Dialling, StatusIsTruth
<1>9. QED
  BY <1>1, <1>2, <1>3, <1>4, <1>5, <1>6, <1>7, <1>8 DEF Inv

\* A waiter finds no tunnel to replace.
LEMMA Joined ==
  ASSUME Inv, NEW c \in Callers, Join(c)
  PROVE  Inv'
<1>1. TypeOK'
  <2>1. call' \in [Callers -> Call]
    BY CallUpdates, TunnelConstants DEF Inv, TypeOK, Tunnel, mgr, tunnels, GoTo,
       Join, MayEnter, Reusable, Replace, BumpGeneration, ClearEvidence
  <2>2. QED
    BY <2>1, TunnelConstants DEF Inv, TypeOK, Call, Tunnel, mgr, tunnels, GoTo,
       Join, MayEnter, Reusable, Replace, BumpGeneration, ClearEvidence,
       CallsAgree, CallAgrees, Dialling, SlotAgrees, PublishedAgrees,
       StatusIsTruth
<1>2. CallsAgree'
  BY <1>1, TunnelConstants DEF Inv, TypeOK, Call, Tunnel, mgr, tunnels, GoTo, Join,
     MayEnter, Reusable, Replace, BumpGeneration, ClearEvidence, Waiting,
     CallsAgree, CallAgrees, Dialling, SlotAgrees, PublishedAgrees, StatusIsTruth
<1>3. SlotAgrees'
  BY <1>1, TunnelConstants DEF Inv, TypeOK, Call, Tunnel, mgr, tunnels, GoTo, Join,
     MayEnter, Reusable, Replace, BumpGeneration, ClearEvidence, Waiting,
     SlotAgrees, Dialling, CallsAgree, CallAgrees, PublishedAgrees
<1>4. PublishedAgrees'
  BY <1>1, TunnelConstants DEF Inv, TypeOK, Call, Tunnel, mgr, tunnels, GoTo, Join,
     MayEnter, Reusable, Replace, BumpGeneration, ClearEvidence, Waiting,
     PublishedAgrees, SlotAgrees, Dialling, CallsAgree, CallAgrees, StatusIsTruth
<1>5. StatusIsTruth'
  BY <1>1, TunnelConstants DEF Inv, TypeOK, Call, Tunnel, mgr, tunnels, GoTo, Join,
     MayEnter, Reusable, Replace, BumpGeneration, ClearEvidence, Waiting,
     StatusIsTruth, PublishedAgrees, SlotAgrees, Dialling, CallsAgree, CallAgrees,
     StaleAgrees
<1>6. StaleAgrees'
  BY <1>1, TunnelConstants DEF Inv, TypeOK, Call, Tunnel, mgr, tunnels, GoTo, Join,
     MayEnter, Reusable, Replace, BumpGeneration, ClearEvidence, Waiting,
     StaleAgrees, Led, CallsAgree, CallAgrees, SlotAgrees, PublishedAgrees,
     Dialling, StatusIsTruth
<1>7. HandsAgree'
  BY <1>1, TunnelConstants DEF Inv, TypeOK, Call, Tunnel, mgr, tunnels, GoTo, Join,
     MayEnter, Reusable, Replace, BumpGeneration, ClearEvidence, Waiting,
     HandsAgree, StaleAgrees, Led, Over, CallsAgree, CallAgrees, SlotAgrees,
     PublishedAgrees, Dialling, NothingLeaks
<1>8. NothingLeaks'
  BY <1>1, TunnelConstants DEF Inv, TypeOK, Call, Tunnel, mgr, tunnels, GoTo, Join,
     MayEnter, Reusable, Replace, BumpGeneration, ClearEvidence, Waiting,
     NothingLeaks, HandsAgree, Over, PublishedAgrees, StaleAgrees, Led, SlotAgrees,
     Dialling, StatusIsTruth
<1>9. QED
  BY <1>1, <1>2, <1>3, <1>4, <1>5, <1>6, <1>7, <1>8 DEF Inv

\* The leader takes the slot at the generation after the replacement.
LEMMA Led_ ==
  ASSUME Inv, NEW c \in Callers, Lead(c)
  PROVE  Inv'
<1>1. TypeOK'
  <2>1. call' \in [Callers -> Call]
    BY CallUpdates, TunnelConstants DEF Inv, TypeOK, Tunnel, mgr, tunnels, GoTo,
       Lead, MayEnter, Reusable, Replace, BumpGeneration, ClearEvidence
  <2>2. QED
    BY <2>1, TunnelConstants DEF Inv, TypeOK, Call, Tunnel, mgr, tunnels, GoTo,
       Lead, MayEnter, Reusable, Replace, BumpGeneration, ClearEvidence,
       CallsAgree, CallAgrees, Dialling, SlotAgrees, PublishedAgrees,
       StatusIsTruth
<1>2. CallsAgree'
  BY <1>1, TunnelConstants DEF Inv, TypeOK, Call, Tunnel, mgr, tunnels, GoTo, Lead,
     MayEnter, Reusable, Replace, BumpGeneration, ClearEvidence, Leading,
     CallsAgree, CallAgrees, Dialling, SlotAgrees, PublishedAgrees, StatusIsTruth
<1>3. SlotAgrees'
  BY <1>1, TunnelConstants DEF Inv, TypeOK, Call, Tunnel, mgr, tunnels, GoTo, Lead,
     MayEnter, Reusable, Replace, BumpGeneration, ClearEvidence, Leading,
     SlotAgrees, Dialling, CallsAgree, CallAgrees, PublishedAgrees
<1>4. PublishedAgrees'
  BY <1>1, TunnelConstants DEF Inv, TypeOK, Call, Tunnel, mgr, tunnels, GoTo, Lead,
     MayEnter, Reusable, Replace, BumpGeneration, ClearEvidence, Leading,
     PublishedAgrees, SlotAgrees, Dialling, CallsAgree, CallAgrees, StatusIsTruth
<1>5. StatusIsTruth'
  BY <1>1, TunnelConstants DEF Inv, TypeOK, Call, Tunnel, mgr, tunnels, GoTo, Lead,
     MayEnter, Reusable, Replace, BumpGeneration, ClearEvidence, Leading,
     StatusIsTruth, PublishedAgrees, SlotAgrees, Dialling, CallsAgree, CallAgrees,
     StaleAgrees
<1>6. StaleAgrees'
  BY <1>1, TunnelConstants DEF Inv, TypeOK, Call, Tunnel, mgr, tunnels, GoTo, Lead,
     MayEnter, Reusable, Replace, BumpGeneration, ClearEvidence, Leading,
     StaleAgrees, Led, CallsAgree, CallAgrees, SlotAgrees, PublishedAgrees,
     Dialling, StatusIsTruth
<1>7. HandsAgree'
  BY <1>1, TunnelConstants DEF Inv, TypeOK, Call, Tunnel, mgr, tunnels, GoTo, Lead,
     MayEnter, Reusable, Replace, BumpGeneration, ClearEvidence, Leading,
     HandsAgree, StaleAgrees, Led, Over, CallsAgree, CallAgrees, SlotAgrees,
     PublishedAgrees, Dialling, NothingLeaks
<1>8. NothingLeaks'
  BY <1>1, TunnelConstants DEF Inv, TypeOK, Call, Tunnel, mgr, tunnels, GoTo, Lead,
     MayEnter, Reusable, Replace, BumpGeneration, ClearEvidence, Leading,
     NothingLeaks, HandsAgree, Over, PublishedAgrees, StaleAgrees, Led, SlotAgrees,
     Dialling, StatusIsTruth
<1>9. QED
  BY <1>1, <1>2, <1>3, <1>4, <1>5, <1>6, <1>7, <1>8 DEF Inv

\* Only a stale tunnel is closed before the dial.
LEMMA ReplacedClosed ==
  ASSUME Inv, NEW c \in Callers, CloseReplaced(c)
  PROVE  Inv'
<1>1. TypeOK'
  <2>1. call' \in [Callers -> Call]
    BY TunnelConstants DEF Inv, TypeOK, Call, Tunnel, mgr, tunnels, GoTo,
       CloseReplaced, Shut
  <2>2. QED
    BY <2>1, TunnelConstants DEF Inv, TypeOK, Call, Tunnel, mgr, tunnels, GoTo,
       CloseReplaced, Shut, CallsAgree, CallAgrees, Dialling, SlotAgrees,
       PublishedAgrees, StatusIsTruth
<1>2. CallsAgree'
  BY <1>1, TunnelConstants DEF Inv, TypeOK, Call, Tunnel, mgr, tunnels, GoTo,
     CloseReplaced, Shut, CallsAgree, CallAgrees, Dialling, SlotAgrees,
     PublishedAgrees, StatusIsTruth
<1>3. SlotAgrees'
  BY <1>1, TunnelConstants DEF Inv, TypeOK, Call, Tunnel, mgr, tunnels, GoTo,
     CloseReplaced, Shut, SlotAgrees, Dialling, CallsAgree, CallAgrees,
     PublishedAgrees
<1>4. PublishedAgrees'
  BY <1>1, TunnelConstants DEF Inv, TypeOK, Call, Tunnel, mgr, tunnels, GoTo,
     CloseReplaced, Shut, PublishedAgrees, SlotAgrees, Dialling, CallsAgree,
     CallAgrees, StatusIsTruth
<1>5. StatusIsTruth'
  BY <1>1, TunnelConstants DEF Inv, TypeOK, Call, Tunnel, mgr, tunnels, GoTo,
     CloseReplaced, Shut, StatusIsTruth, PublishedAgrees, SlotAgrees, Dialling,
     CallsAgree, CallAgrees, StaleAgrees
<1>6. StaleAgrees'
  BY <1>1, TunnelConstants DEF Inv, TypeOK, Call, Tunnel, mgr, tunnels, GoTo,
     CloseReplaced, Shut, StaleAgrees, Led, CallsAgree, CallAgrees, SlotAgrees,
     PublishedAgrees, Dialling, StatusIsTruth
<1>7. HandsAgree'
  BY <1>1, TunnelConstants DEF Inv, TypeOK, Call, Tunnel, mgr, tunnels, GoTo,
     CloseReplaced, Shut, HandsAgree, StaleAgrees, Led, Over, CallsAgree,
     CallAgrees, SlotAgrees, PublishedAgrees, Dialling, NothingLeaks
<1>8. NothingLeaks'
  BY <1>1, TunnelConstants DEF Inv, TypeOK, Call, Tunnel, mgr, tunnels, GoTo,
     CloseReplaced, Shut, NothingLeaks, HandsAgree, Over, PublishedAgrees,
     StaleAgrees, Led, SlotAgrees, Dialling, StatusIsTruth
<1>9. QED
  BY <1>1, <1>2, <1>3, <1>4, <1>5, <1>6, <1>7, <1>8 DEF Inv

\* A new tunnel belongs to the call that dialled it.
LEMMA Dialled ==
  ASSUME Inv, NEW c \in Callers, DialSucceeds(c)
  PROVE  Inv'
<1>1. TypeOK'
  <2>1. call' \in [Callers -> Call]
    BY TunnelConstants DEF Inv, TypeOK, Call, Tunnel, mgr, tunnels, GoTo, DialSucceeds
  <2>2. QED
    BY <2>1, TunnelConstants DEF Inv, TypeOK, Call, Tunnel, mgr, tunnels, GoTo,
       DialSucceeds, CallsAgree, CallAgrees, Dialling, SlotAgrees,
       PublishedAgrees, StatusIsTruth
<1>2. CallsAgree'
  BY <1>1, TunnelConstants DEF Inv, TypeOK, Call, Tunnel, mgr, tunnels, GoTo,
     DialSucceeds, CallsAgree, CallAgrees, Dialling, SlotAgrees, PublishedAgrees,
     StatusIsTruth
<1>3. SlotAgrees'
  BY <1>1, TunnelConstants DEF Inv, TypeOK, Call, Tunnel, mgr, tunnels, GoTo,
     DialSucceeds, SlotAgrees, Dialling, CallsAgree, CallAgrees, PublishedAgrees
<1>4. PublishedAgrees'
  BY <1>1, TunnelConstants DEF Inv, TypeOK, Call, Tunnel, mgr, tunnels, GoTo,
     DialSucceeds, PublishedAgrees, SlotAgrees, Dialling, CallsAgree, CallAgrees,
     StatusIsTruth
<1>5. StatusIsTruth'
  BY <1>1, TunnelConstants DEF Inv, TypeOK, Call, Tunnel, mgr, tunnels, GoTo,
     DialSucceeds, StatusIsTruth, PublishedAgrees, SlotAgrees, Dialling, CallsAgree,
     CallAgrees, StaleAgrees
<1>6. StaleAgrees'
  BY <1>1, TunnelConstants DEF Inv, TypeOK, Call, Tunnel, mgr, tunnels, GoTo,
     DialSucceeds, StaleAgrees, Led, CallsAgree, CallAgrees, SlotAgrees,
     PublishedAgrees, Dialling, StatusIsTruth
<1>7. HandsAgree'
  BY <1>1, TunnelConstants DEF Inv, TypeOK, Call, Tunnel, mgr, tunnels, GoTo,
     DialSucceeds, HandsAgree, StaleAgrees, Led, Over, CallsAgree, CallAgrees,
     SlotAgrees, PublishedAgrees, Dialling, NothingLeaks
<1>8. NothingLeaks'
  BY <1>1, TunnelConstants DEF Inv, TypeOK, Call, Tunnel, mgr, tunnels, GoTo,
     DialSucceeds, NothingLeaks, HandsAgree, Over, PublishedAgrees, StaleAgrees,
     Led, SlotAgrees, Dialling, StatusIsTruth
<1>9. QED
  BY <1>1, <1>2, <1>3, <1>4, <1>5, <1>6, <1>7, <1>8 DEF Inv

\* A failed dial leaves nothing.
LEMMA DialFailed ==
  ASSUME Inv, NEW c \in Callers, DialFails(c)
  PROVE  Inv'
<1>1. TypeOK'
  <2>1. call' \in [Callers -> Call]
    BY TunnelConstants DEF Inv, TypeOK, Call, Tunnel, mgr, tunnels, GoTo, DialFails
  <2>2. QED
    BY <2>1, TunnelConstants DEF Inv, TypeOK, Call, Tunnel, mgr, tunnels, GoTo,
       DialFails, CallsAgree, CallAgrees, Dialling, SlotAgrees, PublishedAgrees,
       StatusIsTruth
<1>2. CallsAgree'
  BY <1>1, TunnelConstants DEF Inv, TypeOK, Call, Tunnel, mgr, tunnels, GoTo,
     DialFails, CallsAgree, CallAgrees, Dialling, SlotAgrees, PublishedAgrees,
     StatusIsTruth
<1>3. SlotAgrees'
  BY <1>1, TunnelConstants DEF Inv, TypeOK, Call, Tunnel, mgr, tunnels, GoTo,
     DialFails, SlotAgrees, Dialling, CallsAgree, CallAgrees, PublishedAgrees
<1>4. PublishedAgrees'
  BY <1>1, TunnelConstants DEF Inv, TypeOK, Call, Tunnel, mgr, tunnels, GoTo,
     DialFails, PublishedAgrees, SlotAgrees, Dialling, CallsAgree, CallAgrees,
     StatusIsTruth
<1>5. StatusIsTruth'
  BY <1>1, TunnelConstants DEF Inv, TypeOK, Call, Tunnel, mgr, tunnels, GoTo,
     DialFails, StatusIsTruth, PublishedAgrees, SlotAgrees, Dialling, CallsAgree,
     CallAgrees, StaleAgrees
<1>6. StaleAgrees'
  BY <1>1, TunnelConstants DEF Inv, TypeOK, Call, Tunnel, mgr, tunnels, GoTo,
     DialFails, StaleAgrees, Led, CallsAgree, CallAgrees, SlotAgrees,
     PublishedAgrees, Dialling, StatusIsTruth
<1>7. HandsAgree'
  BY <1>1, TunnelConstants DEF Inv, TypeOK, Call, Tunnel, mgr, tunnels, GoTo,
     DialFails, HandsAgree, StaleAgrees, Led, Over, CallsAgree, CallAgrees,
     SlotAgrees, PublishedAgrees, Dialling, NothingLeaks
<1>8. NothingLeaks'
  BY <1>1, TunnelConstants DEF Inv, TypeOK, Call, Tunnel, mgr, tunnels, GoTo,
     DialFails, NothingLeaks, HandsAgree, Over, PublishedAgrees, StaleAgrees, Led,
     SlotAgrees, Dialling, StatusIsTruth
<1>9. QED
  BY <1>1, <1>2, <1>3, <1>4, <1>5, <1>6, <1>7, <1>8 DEF Inv

\* A dial that hangs keeps the slot and leaves the rest alone.
LEMMA PeerSilent ==
  ASSUME Inv, NEW c \in Callers, FallsSilent(c)
  PROVE  Inv'
<1>1. TypeOK'
  <2>1. call' \in [Callers -> Call]
    BY TunnelConstants DEF Inv, TypeOK, Call, Tunnel, mgr, tunnels, GoTo, FallsSilent
  <2>2. QED
    BY <2>1, TunnelConstants DEF Inv, TypeOK, Call, Tunnel, mgr, tunnels, GoTo,
       FallsSilent, CallsAgree, CallAgrees, Dialling, SlotAgrees, PublishedAgrees,
       StatusIsTruth
<1>2. CallsAgree'
  BY <1>1, TunnelConstants DEF Inv, TypeOK, Call, Tunnel, mgr, tunnels, GoTo,
     FallsSilent, CallsAgree, CallAgrees, Dialling, SlotAgrees, PublishedAgrees,
     StatusIsTruth
<1>3. SlotAgrees'
  BY <1>1, TunnelConstants DEF Inv, TypeOK, Call, Tunnel, mgr, tunnels, GoTo,
     FallsSilent, SlotAgrees, Dialling, CallsAgree, CallAgrees, PublishedAgrees
<1>4. PublishedAgrees'
  BY <1>1, TunnelConstants DEF Inv, TypeOK, Call, Tunnel, mgr, tunnels, GoTo,
     FallsSilent, PublishedAgrees, SlotAgrees, Dialling, CallsAgree, CallAgrees,
     StatusIsTruth
<1>5. StatusIsTruth'
  BY <1>1, TunnelConstants DEF Inv, TypeOK, Call, Tunnel, mgr, tunnels, GoTo,
     FallsSilent, StatusIsTruth, PublishedAgrees, SlotAgrees, Dialling, CallsAgree,
     CallAgrees, StaleAgrees
<1>6. StaleAgrees'
  BY <1>1, TunnelConstants DEF Inv, TypeOK, Call, Tunnel, mgr, tunnels, GoTo,
     FallsSilent, StaleAgrees, Led, CallsAgree, CallAgrees, SlotAgrees,
     PublishedAgrees, Dialling, StatusIsTruth
<1>7. HandsAgree'
  BY <1>1, TunnelConstants DEF Inv, TypeOK, Call, Tunnel, mgr, tunnels, GoTo,
     FallsSilent, HandsAgree, StaleAgrees, Led, Over, CallsAgree, CallAgrees,
     SlotAgrees, PublishedAgrees, Dialling, NothingLeaks
<1>8. NothingLeaks'
  BY <1>1, TunnelConstants DEF Inv, TypeOK, Call, Tunnel, mgr, tunnels, GoTo,
     FallsSilent, NothingLeaks, HandsAgree, Over, PublishedAgrees, StaleAgrees, Led,
     SlotAgrees, Dialling, StatusIsTruth
<1>9. QED
  BY <1>1, <1>2, <1>3, <1>4, <1>5, <1>6, <1>7, <1>8 DEF Inv

\* Only an attempt that still counts is published.
LEMMA Published ==
  ASSUME Inv, NEW c \in Callers, Publish(c)
  PROVE  Inv'
<1>1. TypeOK'
  <2>1. call' \in [Callers -> Call]
    BY CallUpdates, TunnelConstants DEF Inv, TypeOK, Tunnel, mgr, tunnels, GoTo,
       Publish, Invalidated, FreeSlot
  <2>2. QED
    BY <2>1, TunnelConstants DEF Inv, TypeOK, Call, Tunnel, mgr, tunnels, GoTo,
       Publish, Invalidated, FreeSlot, CallsAgree, CallAgrees, Dialling,
       SlotAgrees, PublishedAgrees, StatusIsTruth
<1>2. CallsAgree'
  BY <1>1, TunnelConstants DEF Inv, TypeOK, Call, Tunnel, mgr, tunnels, GoTo,
     Publish, Invalidated, FreeSlot, Answered, CallsAgree, CallAgrees, Dialling,
     SlotAgrees, PublishedAgrees, StatusIsTruth
<1>3. SlotAgrees'
  BY <1>1, TunnelConstants DEF Inv, TypeOK, Call, Tunnel, mgr, tunnels, GoTo,
     Publish, Invalidated, FreeSlot, Answered, SlotAgrees, Dialling, CallsAgree,
     CallAgrees, PublishedAgrees
<1>4. PublishedAgrees'
  BY <1>1, TunnelConstants DEF Inv, TypeOK, Call, Tunnel, mgr, tunnels, GoTo,
     Publish, Invalidated, FreeSlot, Answered, PublishedAgrees, SlotAgrees,
     Dialling, CallsAgree, CallAgrees, StatusIsTruth
<1>5. StatusIsTruth'
  BY <1>1, TunnelConstants DEF Inv, TypeOK, Call, Tunnel, mgr, tunnels, GoTo,
     Publish, Invalidated, FreeSlot, Answered, StatusIsTruth, PublishedAgrees,
     SlotAgrees, Dialling, CallsAgree, CallAgrees, StaleAgrees
<1>6. StaleAgrees'
  BY <1>1, TunnelConstants DEF Inv, TypeOK, Call, Tunnel, mgr, tunnels, GoTo,
     Publish, Invalidated, FreeSlot, Answered, StaleAgrees, Led, CallsAgree,
     CallAgrees, SlotAgrees, PublishedAgrees, Dialling, StatusIsTruth
<1>7. HandsAgree'
  BY <1>1, TunnelConstants DEF Inv, TypeOK, Call, Tunnel, mgr, tunnels, GoTo,
     Publish, Invalidated, FreeSlot, Answered, HandsAgree, StaleAgrees, Led, Over,
     CallsAgree, CallAgrees, SlotAgrees, PublishedAgrees, Dialling, NothingLeaks
<1>8. NothingLeaks'
  BY <1>1, TunnelConstants DEF Inv, TypeOK, Call, Tunnel, mgr, tunnels, GoTo,
     Publish, Invalidated, FreeSlot, Answered, NothingLeaks, HandsAgree, Over,
     PublishedAgrees, StaleAgrees, Led, SlotAgrees, Dialling, StatusIsTruth
<1>9. QED
  BY <1>1, <1>2, <1>3, <1>4, <1>5, <1>6, <1>7, <1>8 DEF Inv

\* A failure that still counts is recorded.
LEMMA Failed ==
  ASSUME Inv, NEW c \in Callers, Fail(c)
  PROVE  Inv'
<1>1. TypeOK'
  <2>1. call' \in [Callers -> Call]
    BY TunnelConstants DEF Inv, TypeOK, Call, Tunnel, mgr, tunnels, GoTo, Fail,
       Invalidated, FreeSlot, ClearEvidence
  <2>2. QED
    BY <2>1, TunnelConstants DEF Inv, TypeOK, Call, Tunnel, mgr, tunnels, GoTo,
       Fail, Invalidated, FreeSlot, ClearEvidence, CallsAgree, CallAgrees,
       Dialling, SlotAgrees, PublishedAgrees, StatusIsTruth
<1>2. CallsAgree'
  BY <1>1, TunnelConstants DEF Inv, TypeOK, Call, Tunnel, mgr, tunnels, GoTo, Fail,
     Invalidated, FreeSlot, ClearEvidence, CallsAgree, CallAgrees, Dialling,
     SlotAgrees, PublishedAgrees, StatusIsTruth
<1>3. SlotAgrees'
  BY <1>1, TunnelConstants DEF Inv, TypeOK, Call, Tunnel, mgr, tunnels, GoTo, Fail,
     Invalidated, FreeSlot, ClearEvidence, SlotAgrees, Dialling, CallsAgree,
     CallAgrees, PublishedAgrees
<1>4. PublishedAgrees'
  BY <1>1, TunnelConstants DEF Inv, TypeOK, Call, Tunnel, mgr, tunnels, GoTo, Fail,
     Invalidated, FreeSlot, ClearEvidence, PublishedAgrees, SlotAgrees, Dialling,
     CallsAgree, CallAgrees, StatusIsTruth
<1>5. StatusIsTruth'
  BY <1>1, TunnelConstants DEF Inv, TypeOK, Call, Tunnel, mgr, tunnels, GoTo, Fail,
     Invalidated, FreeSlot, ClearEvidence, StatusIsTruth, PublishedAgrees,
     SlotAgrees, Dialling, CallsAgree, CallAgrees, StaleAgrees
<1>6. StaleAgrees'
  BY <1>1, TunnelConstants DEF Inv, TypeOK, Call, Tunnel, mgr, tunnels, GoTo, Fail,
     Invalidated, FreeSlot, ClearEvidence, StaleAgrees, Led, CallsAgree, CallAgrees,
     SlotAgrees, PublishedAgrees, Dialling, StatusIsTruth
<1>7. HandsAgree'
  BY <1>1, TunnelConstants DEF Inv, TypeOK, Call, Tunnel, mgr, tunnels, GoTo, Fail,
     Invalidated, FreeSlot, ClearEvidence, HandsAgree, StaleAgrees, Led, Over,
     CallsAgree, CallAgrees, SlotAgrees, PublishedAgrees, Dialling, NothingLeaks
<1>8. NothingLeaks'
  BY <1>1, TunnelConstants DEF Inv, TypeOK, Call, Tunnel, mgr, tunnels, GoTo, Fail,
     Invalidated, FreeSlot, ClearEvidence, NothingLeaks, HandsAgree, Over,
     PublishedAgrees, StaleAgrees, Led, SlotAgrees, Dialling, StatusIsTruth
<1>9. QED
  BY <1>1, <1>2, <1>3, <1>4, <1>5, <1>6, <1>7, <1>8 DEF Inv

\* A late result frees the slot and changes nothing else.
LEMMA Discarded ==
  ASSUME Inv, NEW c \in Callers, Discard(c)
  PROVE  Inv'
<1>1. TypeOK'
  <2>1. call' \in [Callers -> Call]
    BY TunnelConstants DEF Inv, TypeOK, Call, Tunnel, mgr, tunnels, GoTo, Discard,
       Invalidated, FreeSlot
  <2>2. QED
    BY <2>1, TunnelConstants DEF Inv, TypeOK, Call, Tunnel, mgr, tunnels, GoTo,
       Discard, Invalidated, FreeSlot, CallsAgree, CallAgrees, Dialling,
       SlotAgrees, PublishedAgrees, StatusIsTruth
<1>2. CallsAgree'
  BY <1>1, TunnelConstants DEF Inv, TypeOK, Call, Tunnel, mgr, tunnels, GoTo,
     Discard, Invalidated, FreeSlot, CallsAgree, CallAgrees, Dialling, SlotAgrees,
     PublishedAgrees, StatusIsTruth
<1>3. SlotAgrees'
  BY <1>1, TunnelConstants DEF Inv, TypeOK, Call, Tunnel, mgr, tunnels, GoTo,
     Discard, Invalidated, FreeSlot, SlotAgrees, Dialling, CallsAgree, CallAgrees,
     PublishedAgrees
<1>4. PublishedAgrees'
  BY <1>1, TunnelConstants DEF Inv, TypeOK, Call, Tunnel, mgr, tunnels, GoTo,
     Discard, Invalidated, FreeSlot, PublishedAgrees, SlotAgrees, Dialling,
     CallsAgree, CallAgrees, StatusIsTruth
<1>5. StatusIsTruth'
  BY <1>1, TunnelConstants DEF Inv, TypeOK, Call, Tunnel, mgr, tunnels, GoTo,
     Discard, Invalidated, FreeSlot, StatusIsTruth, PublishedAgrees, SlotAgrees,
     Dialling, CallsAgree, CallAgrees, StaleAgrees
<1>6. StaleAgrees'
  BY <1>1, TunnelConstants DEF Inv, TypeOK, Call, Tunnel, mgr, tunnels, GoTo,
     Discard, Invalidated, FreeSlot, StaleAgrees, Led, CallsAgree, CallAgrees,
     SlotAgrees, PublishedAgrees, Dialling, StatusIsTruth
<1>7. HandsAgree'
  BY <1>1, TunnelConstants DEF Inv, TypeOK, Call, Tunnel, mgr, tunnels, GoTo,
     Discard, Invalidated, FreeSlot, HandsAgree, StaleAgrees, Led, Over, CallsAgree,
     CallAgrees, SlotAgrees, PublishedAgrees, Dialling, NothingLeaks
<1>8. NothingLeaks'
  BY <1>1, TunnelConstants DEF Inv, TypeOK, Call, Tunnel, mgr, tunnels, GoTo,
     Discard, Invalidated, FreeSlot, NothingLeaks, HandsAgree, Over,
     PublishedAgrees, StaleAgrees, Led, SlotAgrees, Dialling, StatusIsTruth
<1>9. QED
  BY <1>1, <1>2, <1>3, <1>4, <1>5, <1>6, <1>7, <1>8 DEF Inv

\* The discarded tunnel is closed by its own call.
LEMMA DiscardedClosed ==
  ASSUME Inv, NEW c \in Callers, CloseDiscarded(c)
  PROVE  Inv'
<1>1. TypeOK'
  <2>1. call' \in [Callers -> Call]
    BY TunnelConstants DEF Inv, TypeOK, Call, Tunnel, mgr, tunnels, GoTo,
       CloseDiscarded, Shut
  <2>2. QED
    BY <2>1, TunnelConstants DEF Inv, TypeOK, Call, Tunnel, mgr, tunnels, GoTo,
       CloseDiscarded, Shut, CallsAgree, CallAgrees, Dialling,
       SlotAgrees, PublishedAgrees, StatusIsTruth
<1>2. CallsAgree'
  BY <1>1, TunnelConstants DEF Inv, TypeOK, Call, Tunnel, mgr, tunnels, GoTo,
     CloseDiscarded, Shut, CallsAgree, CallAgrees, Dialling, SlotAgrees,
     PublishedAgrees, StatusIsTruth
<1>3. SlotAgrees'
  BY <1>1, TunnelConstants DEF Inv, TypeOK, Call, Tunnel, mgr, tunnels, GoTo,
     CloseDiscarded, Shut, SlotAgrees, Dialling, CallsAgree, CallAgrees,
     PublishedAgrees
<1>4. PublishedAgrees'
  BY <1>1, TunnelConstants DEF Inv, TypeOK, Call, Tunnel, mgr, tunnels, GoTo,
     CloseDiscarded, Shut, PublishedAgrees, SlotAgrees, Dialling,
     CallsAgree, CallAgrees, StatusIsTruth
<1>5. StatusIsTruth'
  BY <1>1, TunnelConstants DEF Inv, TypeOK, Call, Tunnel, mgr, tunnels, GoTo,
     CloseDiscarded, Shut, StatusIsTruth, PublishedAgrees, SlotAgrees,
     Dialling, CallsAgree, CallAgrees, StaleAgrees
<1>6. StaleAgrees'
  BY <1>1, TunnelConstants DEF Inv, TypeOK, Call, Tunnel, mgr, tunnels, GoTo,
     CloseDiscarded, Shut, StaleAgrees, Led, CallsAgree, CallAgrees,
     SlotAgrees, PublishedAgrees, Dialling, StatusIsTruth
<1>7. HandsAgree'
  BY <1>1, TunnelConstants DEF Inv, TypeOK, Call, Tunnel, mgr, tunnels, GoTo,
     CloseDiscarded, Shut, HandsAgree, StaleAgrees, Led, Over, CallsAgree,
     CallAgrees, SlotAgrees, PublishedAgrees, Dialling, NothingLeaks
<1>8. NothingLeaks'
  BY <1>1, TunnelConstants DEF Inv, TypeOK, Call, Tunnel, mgr, tunnels, GoTo,
     CloseDiscarded, Shut, NothingLeaks, HandsAgree, Over,
     PublishedAgrees, StaleAgrees, Led, SlotAgrees, Dialling, StatusIsTruth
<1>9. QED
  BY <1>1, <1>2, <1>3, <1>4, <1>5, <1>6, <1>7, <1>8 DEF Inv

\* The leader returns what it published.
LEMMA Signalled ==
  ASSUME Inv, NEW c \in Callers, Signal(c)
  PROVE  Inv'
<1>1. TypeOK'
  <2>1. call' \in [Callers -> Call]
    BY TunnelConstants DEF Inv, TypeOK, Call, Tunnel, mgr, tunnels, GoTo, Signal,
       Announce
  <2>2. QED
    BY <2>1, TunnelConstants DEF Inv, TypeOK, Call, Tunnel, mgr, tunnels, GoTo,
       Signal, Announce, CallsAgree, CallAgrees, Dialling, SlotAgrees,
       PublishedAgrees, StatusIsTruth
<1>2. CallsAgree'
  BY <1>1, TunnelConstants DEF Inv, TypeOK, Call, Tunnel, mgr, tunnels, GoTo,
     Signal, Announce, CallsAgree, CallAgrees, Dialling, SlotAgrees,
     PublishedAgrees, StatusIsTruth
<1>3. SlotAgrees'
  BY <1>1, TunnelConstants DEF Inv, TypeOK, Call, Tunnel, mgr, tunnels, GoTo,
     Signal, Announce, SlotAgrees, Dialling, CallsAgree, CallAgrees, PublishedAgrees
<1>4. PublishedAgrees'
  BY <1>1, TunnelConstants DEF Inv, TypeOK, Call, Tunnel, mgr, tunnels, GoTo,
     Signal, Announce, PublishedAgrees, SlotAgrees, Dialling, CallsAgree,
     CallAgrees, StatusIsTruth
<1>5. StatusIsTruth'
  BY <1>1, TunnelConstants DEF Inv, TypeOK, Call, Tunnel, mgr, tunnels, GoTo,
     Signal, Announce, StatusIsTruth, PublishedAgrees, SlotAgrees, Dialling,
     CallsAgree, CallAgrees, StaleAgrees
<1>6. StaleAgrees'
  BY <1>1, TunnelConstants DEF Inv, TypeOK, Call, Tunnel, mgr, tunnels, GoTo,
     Signal, Announce, StaleAgrees, Led, CallsAgree, CallAgrees, SlotAgrees,
     PublishedAgrees, Dialling, StatusIsTruth
<1>7. HandsAgree'
  BY <1>1, TunnelConstants DEF Inv, TypeOK, Call, Tunnel, mgr, tunnels, GoTo,
     Signal, Announce, HandsAgree, StaleAgrees, Led, Over, CallsAgree, CallAgrees,
     SlotAgrees, PublishedAgrees, Dialling, NothingLeaks
<1>8. NothingLeaks'
  BY <1>1, TunnelConstants DEF Inv, TypeOK, Call, Tunnel, mgr, tunnels, GoTo,
     Signal, Announce, NothingLeaks, HandsAgree, Over, PublishedAgrees, StaleAgrees,
     Led, SlotAgrees, Dialling, StatusIsTruth
<1>9. QED
  BY <1>1, <1>2, <1>3, <1>4, <1>5, <1>6, <1>7, <1>8 DEF Inv

\* A woken waiter that fails holds nothing.
LEMMA WaiterFailed ==
  ASSUME Inv, NEW c \in Callers, WakeFails(c)
  PROVE  Inv'
<1>1. TypeOK'
  <2>1. call' \in [Callers -> Call]
    BY TunnelConstants DEF Inv, TypeOK, Call, Tunnel, mgr, tunnels, GoTo,
       WakeFails, Woken
  <2>2. QED
    BY <2>1, TunnelConstants DEF Inv, TypeOK, Call, Tunnel, mgr, tunnels, GoTo,
       WakeFails, Woken, CallsAgree, CallAgrees, Dialling, SlotAgrees,
       PublishedAgrees, StatusIsTruth
<1>2. CallsAgree'
  BY <1>1, TunnelConstants DEF Inv, TypeOK, Call, Tunnel, mgr, tunnels, GoTo,
     WakeFails, Woken, CallsAgree, CallAgrees, Dialling, SlotAgrees,
     PublishedAgrees, StatusIsTruth
<1>3. SlotAgrees'
  BY <1>1, TunnelConstants DEF Inv, TypeOK, Call, Tunnel, mgr, tunnels, GoTo,
     WakeFails, Woken, SlotAgrees, Dialling, CallsAgree, CallAgrees, PublishedAgrees
<1>4. PublishedAgrees'
  BY <1>1, TunnelConstants DEF Inv, TypeOK, Call, Tunnel, mgr, tunnels, GoTo,
     WakeFails, Woken, PublishedAgrees, SlotAgrees, Dialling, CallsAgree,
     CallAgrees, StatusIsTruth
<1>5. StatusIsTruth'
  BY <1>1, TunnelConstants DEF Inv, TypeOK, Call, Tunnel, mgr, tunnels, GoTo,
     WakeFails, Woken, StatusIsTruth, PublishedAgrees, SlotAgrees, Dialling,
     CallsAgree, CallAgrees, StaleAgrees
<1>6. StaleAgrees'
  BY <1>1, TunnelConstants DEF Inv, TypeOK, Call, Tunnel, mgr, tunnels, GoTo,
     WakeFails, Woken, StaleAgrees, Led, CallsAgree, CallAgrees, SlotAgrees,
     PublishedAgrees, Dialling, StatusIsTruth
<1>7. HandsAgree'
  BY <1>1, TunnelConstants DEF Inv, TypeOK, Call, Tunnel, mgr, tunnels, GoTo,
     WakeFails, Woken, HandsAgree, StaleAgrees, Led, Over, CallsAgree, CallAgrees,
     SlotAgrees, PublishedAgrees, Dialling, NothingLeaks
<1>8. NothingLeaks'
  BY <1>1, TunnelConstants DEF Inv, TypeOK, Call, Tunnel, mgr, tunnels, GoTo,
     WakeFails, Woken, NothingLeaks, HandsAgree, Over, PublishedAgrees, StaleAgrees,
     Led, SlotAgrees, Dialling, StatusIsTruth
<1>9. QED
  BY <1>1, <1>2, <1>3, <1>4, <1>5, <1>6, <1>7, <1>8 DEF Inv

\* A woken waiter shares only a tunnel of its own pin.
LEMMA WaiterShared ==
  ASSUME Inv, NEW c \in Callers, WakeShares(c)
  PROVE  Inv'
<1>1. TypeOK'
  <2>1. call' \in [Callers -> Call]
    BY CallUpdates, TunnelConstants DEF Inv, TypeOK, Tunnel, mgr, tunnels, GoTo,
       WakeShares, Woken, StillCounts, Reusable
  <2>2. QED
    BY <2>1, TunnelConstants DEF Inv, TypeOK, Call, Tunnel, mgr, tunnels, GoTo,
       WakeShares, Woken, StillCounts, Reusable, CallsAgree, CallAgrees, Dialling,
       SlotAgrees, PublishedAgrees, StatusIsTruth
<1>2. CallsAgree'
  BY <1>1, TunnelConstants DEF Inv, TypeOK, Call, Tunnel, mgr, tunnels, GoTo,
     WakeShares, Woken, StillCounts, Reusable, Answered, CallsAgree, CallAgrees,
     Dialling, SlotAgrees, PublishedAgrees, StatusIsTruth
<1>3. SlotAgrees'
  BY <1>1, TunnelConstants DEF Inv, TypeOK, Call, Tunnel, mgr, tunnels, GoTo,
     WakeShares, Woken, StillCounts, Reusable, Answered, SlotAgrees, Dialling,
     CallsAgree, CallAgrees, PublishedAgrees
<1>4. PublishedAgrees'
  BY <1>1, TunnelConstants DEF Inv, TypeOK, Call, Tunnel, mgr, tunnels, GoTo,
     WakeShares, Woken, StillCounts, Reusable, Answered, PublishedAgrees,
     SlotAgrees, Dialling, CallsAgree, CallAgrees, StatusIsTruth
<1>5. StatusIsTruth'
  BY <1>1, TunnelConstants DEF Inv, TypeOK, Call, Tunnel, mgr, tunnels, GoTo,
     WakeShares, Woken, StillCounts, Reusable, Answered, StatusIsTruth,
     PublishedAgrees, SlotAgrees, Dialling, CallsAgree, CallAgrees, StaleAgrees
<1>6. StaleAgrees'
  BY <1>1, TunnelConstants DEF Inv, TypeOK, Call, Tunnel, mgr, tunnels, GoTo,
     WakeShares, Woken, StillCounts, Reusable, Answered, StaleAgrees, Led,
     CallsAgree, CallAgrees, SlotAgrees, PublishedAgrees, Dialling, StatusIsTruth
<1>7. HandsAgree'
  BY <1>1, TunnelConstants DEF Inv, TypeOK, Call, Tunnel, mgr, tunnels, GoTo,
     WakeShares, Woken, StillCounts, Reusable, Answered, HandsAgree, StaleAgrees,
     Led, Over, CallsAgree, CallAgrees, SlotAgrees, PublishedAgrees, Dialling,
     NothingLeaks
<1>8. NothingLeaks'
  BY <1>1, TunnelConstants DEF Inv, TypeOK, Call, Tunnel, mgr, tunnels, GoTo,
     WakeShares, Woken, StillCounts, Reusable, Answered, NothingLeaks, HandsAgree,
     Over, PublishedAgrees, StaleAgrees, Led, SlotAgrees, Dialling, StatusIsTruth
<1>9. QED
  BY <1>1, <1>2, <1>3, <1>4, <1>5, <1>6, <1>7, <1>8 DEF Inv

\* A woken waiter that starts over holds nothing.
LEMMA WaiterRetried ==
  ASSUME Inv, NEW c \in Callers, WakeRetries(c)
  PROVE  Inv'
<1>1. TypeOK'
  <2>1. call' \in [Callers -> Call]
    BY TunnelConstants DEF Inv, TypeOK, Call, Tunnel, mgr, tunnels, GoTo,
       WakeRetries, Woken
  <2>2. QED
    BY <2>1, TunnelConstants DEF Inv, TypeOK, Call, Tunnel, mgr, tunnels, GoTo,
       WakeRetries, Woken, CallsAgree, CallAgrees, Dialling, SlotAgrees,
       PublishedAgrees, StatusIsTruth
<1>2. CallsAgree'
  BY <1>1, TunnelConstants DEF Inv, TypeOK, Call, Tunnel, mgr, tunnels, GoTo,
     WakeRetries, Woken, CallsAgree, CallAgrees, Dialling, SlotAgrees,
     PublishedAgrees, StatusIsTruth
<1>3. SlotAgrees'
  BY <1>1, TunnelConstants DEF Inv, TypeOK, Call, Tunnel, mgr, tunnels, GoTo,
     WakeRetries, Woken, SlotAgrees, Dialling, CallsAgree, CallAgrees,
     PublishedAgrees
<1>4. PublishedAgrees'
  BY <1>1, TunnelConstants DEF Inv, TypeOK, Call, Tunnel, mgr, tunnels, GoTo,
     WakeRetries, Woken, PublishedAgrees, SlotAgrees, Dialling, CallsAgree,
     CallAgrees, StatusIsTruth
<1>5. StatusIsTruth'
  BY <1>1, TunnelConstants DEF Inv, TypeOK, Call, Tunnel, mgr, tunnels, GoTo,
     WakeRetries, Woken, StatusIsTruth, PublishedAgrees, SlotAgrees, Dialling,
     CallsAgree, CallAgrees, StaleAgrees
<1>6. StaleAgrees'
  BY <1>1, TunnelConstants DEF Inv, TypeOK, Call, Tunnel, mgr, tunnels, GoTo,
     WakeRetries, Woken, StaleAgrees, Led, CallsAgree, CallAgrees, SlotAgrees,
     PublishedAgrees, Dialling, StatusIsTruth
<1>7. HandsAgree'
  BY <1>1, TunnelConstants DEF Inv, TypeOK, Call, Tunnel, mgr, tunnels, GoTo,
     WakeRetries, Woken, HandsAgree, StaleAgrees, Led, Over, CallsAgree, CallAgrees,
     SlotAgrees, PublishedAgrees, Dialling, NothingLeaks
<1>8. NothingLeaks'
  BY <1>1, TunnelConstants DEF Inv, TypeOK, Call, Tunnel, mgr, tunnels, GoTo,
     WakeRetries, Woken, NothingLeaks, HandsAgree, Over, PublishedAgrees,
     StaleAgrees, Led, SlotAgrees, Dialling, StatusIsTruth
<1>9. QED
  BY <1>1, <1>2, <1>3, <1>4, <1>5, <1>6, <1>7, <1>8 DEF Inv

\* Disconnect leaves the attempt in flight behind the generation.
LEMMA Disconnected ==
  ASSUME Inv, Disconnect
  PROVE  Inv'
<1>1. TypeOK'
  <2>1. call' \in [Callers -> Call]
    BY TunnelConstants DEF Inv, TypeOK, Call, Tunnel, mgr, tunnels, GoTo,
       Disconnect, BumpGeneration, Invalidate, ClearEvidence, SlotKept
  <2>2. QED
    BY <2>1, TunnelConstants DEF Inv, TypeOK, Call, Tunnel, mgr, tunnels, GoTo,
       Disconnect, BumpGeneration, Invalidate, ClearEvidence, SlotKept,
       CallsAgree, CallAgrees, Dialling, SlotAgrees, PublishedAgrees,
       StatusIsTruth
<1>2. CallsAgree'
  BY <1>1, TunnelConstants DEF Inv, TypeOK, Call, Tunnel, mgr, tunnels, GoTo,
     Disconnect, BumpGeneration, Invalidate, ClearEvidence, SlotKept, CallsAgree,
     CallAgrees, Dialling, SlotAgrees, PublishedAgrees, StatusIsTruth
<1>3. SlotAgrees'
  BY <1>1, TunnelConstants DEF Inv, TypeOK, Call, Tunnel, mgr, tunnels, GoTo,
     Disconnect, BumpGeneration, Invalidate, ClearEvidence, SlotKept, SlotAgrees,
     Dialling, CallsAgree, CallAgrees, PublishedAgrees
<1>4. PublishedAgrees'
  BY <1>1, TunnelConstants DEF Inv, TypeOK, Call, Tunnel, mgr, tunnels, GoTo,
     Disconnect, BumpGeneration, Invalidate, ClearEvidence, SlotKept,
     PublishedAgrees, SlotAgrees, Dialling, CallsAgree, CallAgrees, StatusIsTruth
<1>5. StatusIsTruth'
  BY <1>1, TunnelConstants DEF Inv, TypeOK, Call, Tunnel, mgr, tunnels, GoTo,
     Disconnect, BumpGeneration, Invalidate, ClearEvidence, SlotKept, StatusIsTruth,
     PublishedAgrees, SlotAgrees, Dialling, CallsAgree, CallAgrees, StaleAgrees
<1>6. StaleAgrees'
  BY <1>1, TunnelConstants DEF Inv, TypeOK, Call, Tunnel, mgr, tunnels, GoTo,
     Disconnect, BumpGeneration, Invalidate, ClearEvidence, SlotKept, StaleAgrees,
     Led, CallsAgree, CallAgrees, SlotAgrees, PublishedAgrees, Dialling,
     StatusIsTruth
<1>7. HandsAgree'
  BY <1>1, TunnelConstants DEF Inv, TypeOK, Call, Tunnel, mgr, tunnels, GoTo,
     Disconnect, BumpGeneration, Invalidate, ClearEvidence, SlotKept, HandsAgree,
     StaleAgrees, Led, Over, CallsAgree, CallAgrees, SlotAgrees, PublishedAgrees,
     Dialling, NothingLeaks
<1>8. NothingLeaks'
  BY <1>1, TunnelConstants DEF Inv, TypeOK, Call, Tunnel, mgr, tunnels, GoTo,
     Disconnect, BumpGeneration, Invalidate, ClearEvidence, SlotKept, NothingLeaks,
     HandsAgree, Over, PublishedAgrees, StaleAgrees, Led, SlotAgrees, Dialling,
     StatusIsTruth
<1>9. QED
  BY <1>1, <1>2, <1>3, <1>4, <1>5, <1>6, <1>7, <1>8 DEF Inv

\* MarkFailed does the same with another status.
LEMMA MarkedFailed ==
  ASSUME Inv, MarkFailed
  PROVE  Inv'
<1>1. TypeOK'
  <2>1. call' \in [Callers -> Call]
    BY TunnelConstants DEF Inv, TypeOK, Call, Tunnel, mgr, tunnels, GoTo,
       MarkFailed, BumpGeneration, Invalidate, ClearEvidence, SlotKept
  <2>2. QED
    BY <2>1, TunnelConstants DEF Inv, TypeOK, Call, Tunnel, mgr, tunnels, GoTo,
       MarkFailed, BumpGeneration, Invalidate, ClearEvidence, SlotKept,
       CallsAgree, CallAgrees, Dialling, SlotAgrees, PublishedAgrees,
       StatusIsTruth
<1>2. CallsAgree'
  BY <1>1, TunnelConstants DEF Inv, TypeOK, Call, Tunnel, mgr, tunnels, GoTo,
     MarkFailed, BumpGeneration, Invalidate, ClearEvidence, SlotKept, CallsAgree,
     CallAgrees, Dialling, SlotAgrees, PublishedAgrees, StatusIsTruth
<1>3. SlotAgrees'
  BY <1>1, TunnelConstants DEF Inv, TypeOK, Call, Tunnel, mgr, tunnels, GoTo,
     MarkFailed, BumpGeneration, Invalidate, ClearEvidence, SlotKept, SlotAgrees,
     Dialling, CallsAgree, CallAgrees, PublishedAgrees
<1>4. PublishedAgrees'
  BY <1>1, TunnelConstants DEF Inv, TypeOK, Call, Tunnel, mgr, tunnels, GoTo,
     MarkFailed, BumpGeneration, Invalidate, ClearEvidence, SlotKept,
     PublishedAgrees, SlotAgrees, Dialling, CallsAgree, CallAgrees, StatusIsTruth
<1>5. StatusIsTruth'
  BY <1>1, TunnelConstants DEF Inv, TypeOK, Call, Tunnel, mgr, tunnels, GoTo,
     MarkFailed, BumpGeneration, Invalidate, ClearEvidence, SlotKept, StatusIsTruth,
     PublishedAgrees, SlotAgrees, Dialling, CallsAgree, CallAgrees, StaleAgrees
<1>6. StaleAgrees'
  BY <1>1, TunnelConstants DEF Inv, TypeOK, Call, Tunnel, mgr, tunnels, GoTo,
     MarkFailed, BumpGeneration, Invalidate, ClearEvidence, SlotKept, StaleAgrees,
     Led, CallsAgree, CallAgrees, SlotAgrees, PublishedAgrees, Dialling,
     StatusIsTruth
<1>7. HandsAgree'
  BY <1>1, TunnelConstants DEF Inv, TypeOK, Call, Tunnel, mgr, tunnels, GoTo,
     MarkFailed, BumpGeneration, Invalidate, ClearEvidence, SlotKept, HandsAgree,
     StaleAgrees, Led, Over, CallsAgree, CallAgrees, SlotAgrees, PublishedAgrees,
     Dialling, NothingLeaks
<1>8. NothingLeaks'
  BY <1>1, TunnelConstants DEF Inv, TypeOK, Call, Tunnel, mgr, tunnels, GoTo,
     MarkFailed, BumpGeneration, Invalidate, ClearEvidence, SlotKept, NothingLeaks,
     HandsAgree, Over, PublishedAgrees, StaleAgrees, Led, SlotAgrees, Dialling,
     StatusIsTruth
<1>9. QED
  BY <1>1, <1>2, <1>3, <1>4, <1>5, <1>6, <1>7, <1>8 DEF Inv

\* After Close nothing is published again.
LEMMA Closed ==
  ASSUME Inv, Close
  PROVE  Inv'
<1>1. TypeOK'
  <2>1. call' \in [Callers -> Call]
    BY TunnelConstants DEF Inv, TypeOK, Call, Tunnel, mgr, tunnels, GoTo, Close,
       BumpGeneration, Invalidate, ClearEvidence, SlotKept
  <2>2. QED
    BY <2>1, TunnelConstants DEF Inv, TypeOK, Call, Tunnel, mgr, tunnels, GoTo,
       Close, BumpGeneration, Invalidate, ClearEvidence, SlotKept, CallsAgree,
       CallAgrees, Dialling, SlotAgrees, PublishedAgrees, StatusIsTruth
<1>2. CallsAgree'
  BY <1>1, TunnelConstants DEF Inv, TypeOK, Call, Tunnel, mgr, tunnels, GoTo, Close,
     BumpGeneration, Invalidate, ClearEvidence, SlotKept, CallsAgree, CallAgrees,
     Dialling, SlotAgrees, PublishedAgrees, StatusIsTruth
<1>3. SlotAgrees'
  BY <1>1, TunnelConstants DEF Inv, TypeOK, Call, Tunnel, mgr, tunnels, GoTo, Close,
     BumpGeneration, Invalidate, ClearEvidence, SlotKept, SlotAgrees, Dialling,
     CallsAgree, CallAgrees, PublishedAgrees
<1>4. PublishedAgrees'
  BY <1>1, TunnelConstants DEF Inv, TypeOK, Call, Tunnel, mgr, tunnels, GoTo, Close,
     BumpGeneration, Invalidate, ClearEvidence, SlotKept, PublishedAgrees,
     SlotAgrees, Dialling, CallsAgree, CallAgrees, StatusIsTruth
<1>5. StatusIsTruth'
  BY <1>1, TunnelConstants DEF Inv, TypeOK, Call, Tunnel, mgr, tunnels, GoTo, Close,
     BumpGeneration, Invalidate, ClearEvidence, SlotKept, StatusIsTruth,
     PublishedAgrees, SlotAgrees, Dialling, CallsAgree, CallAgrees, StaleAgrees
<1>6. StaleAgrees'
  BY <1>1, TunnelConstants DEF Inv, TypeOK, Call, Tunnel, mgr, tunnels, GoTo, Close,
     BumpGeneration, Invalidate, ClearEvidence, SlotKept, StaleAgrees, Led,
     CallsAgree, CallAgrees, SlotAgrees, PublishedAgrees, Dialling, StatusIsTruth
<1>7. HandsAgree'
  BY <1>1, TunnelConstants DEF Inv, TypeOK, Call, Tunnel, mgr, tunnels, GoTo, Close,
     BumpGeneration, Invalidate, ClearEvidence, SlotKept, HandsAgree, StaleAgrees,
     Led, Over, CallsAgree, CallAgrees, SlotAgrees, PublishedAgrees, Dialling,
     NothingLeaks
<1>8. NothingLeaks'
  BY <1>1, TunnelConstants DEF Inv, TypeOK, Call, Tunnel, mgr, tunnels, GoTo, Close,
     BumpGeneration, Invalidate, ClearEvidence, SlotKept, NothingLeaks, HandsAgree,
     Over, PublishedAgrees, StaleAgrees, Led, SlotAgrees, Dialling, StatusIsTruth
<1>9. QED
  BY <1>1, <1>2, <1>3, <1>4, <1>5, <1>6, <1>7, <1>8 DEF Inv

\* A doomed tunnel is not the published one.
LEMMA DoomedClosed ==
  ASSUME Inv, NEW x \in Callers, CloseDoomed(x)
  PROVE  Inv'
<1>1. TypeOK'
  <2>1. call' \in [Callers -> Call]
    BY TunnelConstants DEF Inv, TypeOK, Call, Tunnel, mgr, tunnels, GoTo,
       CloseDoomed, Shut
  <2>2. QED
    BY <2>1, TunnelConstants DEF Inv, TypeOK, Call, Tunnel, mgr, tunnels, GoTo,
       CloseDoomed, Shut, CallsAgree, CallAgrees, Dialling, SlotAgrees,
       PublishedAgrees, StatusIsTruth
<1>2. CallsAgree'
  BY <1>1, TunnelConstants DEF Inv, TypeOK, Call, Tunnel, mgr, tunnels, GoTo,
     CloseDoomed, Shut, CallsAgree, CallAgrees, Dialling, SlotAgrees,
     PublishedAgrees, StatusIsTruth
<1>3. SlotAgrees'
  BY <1>1, TunnelConstants DEF Inv, TypeOK, Call, Tunnel, mgr, tunnels, GoTo,
     CloseDoomed, Shut, SlotAgrees, Dialling, CallsAgree, CallAgrees,
     PublishedAgrees
<1>4. PublishedAgrees'
  BY <1>1, TunnelConstants DEF Inv, TypeOK, Call, Tunnel, mgr, tunnels, GoTo,
     CloseDoomed, Shut, PublishedAgrees, SlotAgrees, Dialling, CallsAgree,
     CallAgrees, StatusIsTruth
<1>5. StatusIsTruth'
  BY <1>1, TunnelConstants DEF Inv, TypeOK, Call, Tunnel, mgr, tunnels, GoTo,
     CloseDoomed, Shut, StatusIsTruth, PublishedAgrees, SlotAgrees, Dialling,
     CallsAgree, CallAgrees, StaleAgrees
<1>6. StaleAgrees'
  BY <1>1, TunnelConstants DEF Inv, TypeOK, Call, Tunnel, mgr, tunnels, GoTo,
     CloseDoomed, Shut, StaleAgrees, Led, CallsAgree, CallAgrees, SlotAgrees,
     PublishedAgrees, Dialling, StatusIsTruth
<1>7. HandsAgree'
  BY <1>1, TunnelConstants DEF Inv, TypeOK, Call, Tunnel, mgr, tunnels, GoTo,
     CloseDoomed, Shut, HandsAgree, StaleAgrees, Led, Over, CallsAgree, CallAgrees,
     SlotAgrees, PublishedAgrees, Dialling, NothingLeaks
<1>8. NothingLeaks'
  BY <1>1, TunnelConstants DEF Inv, TypeOK, Call, Tunnel, mgr, tunnels, GoTo,
     CloseDoomed, Shut, NothingLeaks, HandsAgree, Over, PublishedAgrees,
     StaleAgrees, Led, SlotAgrees, Dialling, StatusIsTruth
<1>9. QED
  BY <1>1, <1>2, <1>3, <1>4, <1>5, <1>6, <1>7, <1>8 DEF Inv

\* Looking a tunnel up changes nothing.
LEMMA LookedUp ==
  ASSUME Inv, NEW f \in Forwarders, NEW p \in Ports, NEW add \in BOOLEAN, LookUp(f, p, add)
  PROVE  Inv'
<1>1. TypeOK'
  <2>1. call' \in [Callers -> Call]
    BY TunnelConstants DEF Inv, TypeOK, Call, Tunnel, mgr, tunnels, GoTo, LookUp
  <2>2. QED
    BY <2>1, TunnelConstants DEF Inv, TypeOK, Call, Tunnel, mgr, tunnels, GoTo,
       LookUp, CallsAgree, CallAgrees, Dialling, SlotAgrees, PublishedAgrees,
       StatusIsTruth
<1>2. CallsAgree'
  BY <1>1, TunnelConstants DEF Inv, TypeOK, Call, Tunnel, mgr, tunnels, GoTo,
     LookUp, CallsAgree, CallAgrees, Dialling, SlotAgrees, PublishedAgrees,
     StatusIsTruth
<1>3. SlotAgrees'
  BY <1>1, TunnelConstants DEF Inv, TypeOK, Call, Tunnel, mgr, tunnels, GoTo,
     LookUp, SlotAgrees, Dialling, CallsAgree, CallAgrees, PublishedAgrees
<1>4. PublishedAgrees'
  BY <1>1, TunnelConstants DEF Inv, TypeOK, Call, Tunnel, mgr, tunnels, GoTo,
     LookUp, PublishedAgrees, SlotAgrees, Dialling, CallsAgree, CallAgrees,
     StatusIsTruth
<1>5. StatusIsTruth'
  BY <1>1, TunnelConstants DEF Inv, TypeOK, Call, Tunnel, mgr, tunnels, GoTo,
     LookUp, StatusIsTruth, PublishedAgrees, SlotAgrees, Dialling, CallsAgree,
     CallAgrees, StaleAgrees
<1>6. StaleAgrees'
  BY <1>1, TunnelConstants DEF Inv, TypeOK, Call, Tunnel, mgr, tunnels, GoTo,
     LookUp, StaleAgrees, Led, CallsAgree, CallAgrees, SlotAgrees, PublishedAgrees,
     Dialling, StatusIsTruth
<1>7. HandsAgree'
  BY <1>1, TunnelConstants DEF Inv, TypeOK, Call, Tunnel, mgr, tunnels, GoTo,
     LookUp, HandsAgree, StaleAgrees, Led, Over, CallsAgree, CallAgrees, SlotAgrees,
     PublishedAgrees, Dialling, NothingLeaks
<1>8. NothingLeaks'
  BY <1>1, TunnelConstants DEF Inv, TypeOK, Call, Tunnel, mgr, tunnels, GoTo,
     LookUp, NothingLeaks, HandsAgree, Over, PublishedAgrees, StaleAgrees, Led,
     SlotAgrees, Dialling, StatusIsTruth
<1>9. QED
  BY <1>1, <1>2, <1>3, <1>4, <1>5, <1>6, <1>7, <1>8 DEF Inv

\* A forward is added to an open tunnel only.
LEMMA ForwardAdded ==
  ASSUME Inv, NEW f \in Forwarders, AddForward(f)
  PROVE  Inv'
<1>1. TypeOK'
  <2>1. call' \in [Callers -> Call]
    BY TunnelConstants DEF Inv, TypeOK, Call, Tunnel, mgr, tunnels, GoTo,
       AddForward, NotClosed, Listening
  <2>2. QED
    BY <2>1, TunnelConstants DEF Inv, TypeOK, Call, Tunnel, mgr, tunnels, GoTo,
       AddForward, NotClosed, Listening, CallsAgree, CallAgrees, Dialling,
       SlotAgrees, PublishedAgrees, StatusIsTruth
<1>2. CallsAgree'
  BY <1>1, TunnelConstants DEF Inv, TypeOK, Call, Tunnel, mgr, tunnels, GoTo,
     AddForward, NotClosed, Listening, CallsAgree, CallAgrees, Dialling, SlotAgrees,
     PublishedAgrees, StatusIsTruth
<1>3. SlotAgrees'
  BY <1>1, TunnelConstants DEF Inv, TypeOK, Call, Tunnel, mgr, tunnels, GoTo,
     AddForward, NotClosed, Listening, SlotAgrees, Dialling, CallsAgree, CallAgrees,
     PublishedAgrees
<1>4. PublishedAgrees'
  BY <1>1, TunnelConstants DEF Inv, TypeOK, Call, Tunnel, mgr, tunnels, GoTo,
     AddForward, NotClosed, Listening, PublishedAgrees, SlotAgrees, Dialling,
     CallsAgree, CallAgrees, StatusIsTruth
<1>5. StatusIsTruth'
  BY <1>1, TunnelConstants DEF Inv, TypeOK, Call, Tunnel, mgr, tunnels, GoTo,
     AddForward, NotClosed, Listening, StatusIsTruth, PublishedAgrees, SlotAgrees,
     Dialling, CallsAgree, CallAgrees, StaleAgrees
<1>6. StaleAgrees'
  BY <1>1, TunnelConstants DEF Inv, TypeOK, Call, Tunnel, mgr, tunnels, GoTo,
     AddForward, NotClosed, Listening, StaleAgrees, Led, CallsAgree, CallAgrees,
     SlotAgrees, PublishedAgrees, Dialling, StatusIsTruth
<1>7. HandsAgree'
  BY <1>1, TunnelConstants DEF Inv, TypeOK, Call, Tunnel, mgr, tunnels, GoTo,
     AddForward, NotClosed, Listening, HandsAgree, StaleAgrees, Led, Over,
     CallsAgree, CallAgrees, SlotAgrees, PublishedAgrees, Dialling, NothingLeaks
<1>8. NothingLeaks'
  BY <1>1, TunnelConstants DEF Inv, TypeOK, Call, Tunnel, mgr, tunnels, GoTo,
     AddForward, NotClosed, Listening, NothingLeaks, HandsAgree, Over,
     PublishedAgrees, StaleAgrees, Led, SlotAgrees, Dialling, StatusIsTruth
<1>9. QED
  BY <1>1, <1>2, <1>3, <1>4, <1>5, <1>6, <1>7, <1>8 DEF Inv

\* Removing a forward opens nothing.
LEMMA ForwardRemoved ==
  ASSUME Inv, NEW f \in Forwarders, RemoveForward(f)
  PROVE  Inv'
<1>1. TypeOK'
  <2>1. call' \in [Callers -> Call]
    BY TunnelConstants DEF Inv, TypeOK, Call, Tunnel, mgr, tunnels, GoTo, RemoveForward
  <2>2. QED
    BY <2>1, TunnelConstants DEF Inv, TypeOK, Call, Tunnel, mgr, tunnels, GoTo,
       RemoveForward, CallsAgree, CallAgrees, Dialling, SlotAgrees,
       PublishedAgrees, StatusIsTruth
<1>2. CallsAgree'
  BY <1>1, TunnelConstants DEF Inv, TypeOK, Call, Tunnel, mgr, tunnels, GoTo,
     RemoveForward, CallsAgree, CallAgrees, Dialling, SlotAgrees, PublishedAgrees,
     StatusIsTruth
<1>3. SlotAgrees'
  BY <1>1, TunnelConstants DEF Inv, TypeOK, Call, Tunnel, mgr, tunnels, GoTo,
     RemoveForward, SlotAgrees, Dialling, CallsAgree, CallAgrees, PublishedAgrees
<1>4. PublishedAgrees'
  BY <1>1, TunnelConstants DEF Inv, TypeOK, Call, Tunnel, mgr, tunnels, GoTo,
     RemoveForward, PublishedAgrees, SlotAgrees, Dialling, CallsAgree, CallAgrees,
     StatusIsTruth
<1>5. StatusIsTruth'
  BY <1>1, TunnelConstants DEF Inv, TypeOK, Call, Tunnel, mgr, tunnels, GoTo,
     RemoveForward, StatusIsTruth, PublishedAgrees, SlotAgrees, Dialling,
     CallsAgree, CallAgrees, StaleAgrees
<1>6. StaleAgrees'
  BY <1>1, TunnelConstants DEF Inv, TypeOK, Call, Tunnel, mgr, tunnels, GoTo,
     RemoveForward, StaleAgrees, Led, CallsAgree, CallAgrees, SlotAgrees,
     PublishedAgrees, Dialling, StatusIsTruth
<1>7. HandsAgree'
  BY <1>1, TunnelConstants DEF Inv, TypeOK, Call, Tunnel, mgr, tunnels, GoTo,
     RemoveForward, HandsAgree, StaleAgrees, Led, Over, CallsAgree, CallAgrees,
     SlotAgrees, PublishedAgrees, Dialling, NothingLeaks
<1>8. NothingLeaks'
  BY <1>1, TunnelConstants DEF Inv, TypeOK, Call, Tunnel, mgr, tunnels, GoTo,
     RemoveForward, NothingLeaks, HandsAgree, Over, PublishedAgrees, StaleAgrees,
     Led, SlotAgrees, Dialling, StatusIsTruth
<1>9. QED
  BY <1>1, <1>2, <1>3, <1>4, <1>5, <1>6, <1>7, <1>8 DEF Inv

\* The invariant holds initially and every step keeps it.
THEOREM Invariance == Spec => []Inv
<1>1. Init => Inv
  <2> SUFFICES ASSUME Init PROVE Inv
    OBVIOUS
  <2>1. call \in [Callers -> Call]
    BY DEF Init, Call, Tunnel
  <2>2. fwd \in [Forwarders -> [tunnel : Tunnel, port : Ports, add : BOOLEAN]]
    BY DEF Init, Tunnel
  <2>3. TypeOK
    BY <2>1, <2>2 DEF Init, TypeOK, Tunnel
  <2>4. QED
    BY <2>3, TunnelConstants DEF Init, Inv, CallsAgree, CallAgrees, Dialling,
       SlotAgrees, PublishedAgrees, StatusIsTruth, StaleAgrees, Over, HandsAgree, NothingLeaks
<1>2. Inv /\ [Next]_vars => Inv'
  <2> SUFFICES ASSUME Inv, [Next]_vars PROVE Inv'
    OBVIOUS
  <2>1. CASE \E c \in Callers : CallStep(c) \/ FallsSilent(c)
    BY <2>1, ClosedRejected, PinRejected, Reused, Joined, Led_, ReplacedClosed, Dialled,
       DialFailed, PeerSilent, Published, Failed, Discarded, DiscardedClosed, Signalled, WaiterFailed,
       WaiterShared, WaiterRetried DEF CallStep
  <2>2. CASE \E c \in Callers, pin \in Pins \cup {BadPin} : EnsureConnected(c, pin)
    BY <2>2, CallMade
  <2>3. CASE Disconnect \/ MarkFailed \/ Close
    BY <2>3, Disconnected, MarkedFailed, Closed
  <2>4. CASE \E x \in Callers : CloseDoomed(x)
    BY <2>4, DoomedClosed
  <2>5. CASE \E f \in Forwarders : AddForward(f) \/ RemoveForward(f)
    BY <2>5, ForwardAdded, ForwardRemoved
  <2>6. CASE \E f \in Forwarders, p \in Ports, add \in BOOLEAN : LookUp(f, p, add)
    BY <2>6, LookedUp
  <2>7. CASE UNCHANGED vars
    BY <2>7 DEF Inv, vars, mgr, tunnels, TypeOK, CallsAgree, CallAgrees, Dialling,
       SlotAgrees, PublishedAgrees, StatusIsTruth, StaleAgrees, HandsAgree, NothingLeaks
  <2>8. QED
    BY <2>1, <2>2, <2>3, <2>4, <2>5, <2>6, <2>7 DEF Next
<1>3. QED
  BY <1>1, <1>2, PTL DEF Spec

\* Type correctness.
THEOREM TypeCorrect == Spec => []TypeOK
  BY Invariance, PTL DEF Inv

\* An attempt or a tunnel that Disconnect, MarkFailed, a new pin or Close has
\* invalidated is never published again (manager.go:130-132, 241-256).
THEOREM NoResurrection == Spec => []NeverResurrected
<1>1. Inv => NeverResurrected
  BY TunnelConstants DEF Inv, TypeOK, Tunnel, PublishedAgrees, StatusIsTruth,
     StaleAgrees,
     NeverResurrected
<1>2. QED
  BY <1>1, Invariance, PTL

\* Status, evidence and the published tunnel always agree.
THEOREM StatusIsSound == Spec => []StatusIsTruth
  BY Invariance, PTL DEF Inv

\* A caller is only ever handed a tunnel that was proved against its own pin.
THEOREM PinIsRespected == Spec => []OwnPinOnly
<1>1. Inv => OwnPinOnly
  BY DEF Inv, CallsAgree, CallAgrees, OwnPinOnly
<1>2. QED
  BY <1>1, Invariance, PTL

\* At most one dial is in flight.
THEOREM DialIsSingleFlight == Spec => []SingleFlight
<1>1. Inv => SingleFlight
  BY DEF Inv, SlotAgrees, SingleFlight
<1>2. QED
  BY <1>1, Invariance, PTL

\* Every open tunnel has an owner that will close it, and listeners live on
\* open tunnels only.
THEOREM TunnelsAreOwned == Spec => []NothingLeaks
  BY Invariance, PTL DEF Inv
=============================================================================
