-------------------------- MODULE PortMirrorProofs --------------------------
(***************************************************************************)
(* Theorems about PortMirror, for any hosts, deployments, ports, programs  *)
(* and cooldown: no forward is ever off the record, and none outlives the  *)
(* service it was made for.                                                *)
(*                                                                         *)
(* ForwardsOwned needs to know that forwards die with their tunnel: an     *)
(* attempt that finds no tunnel takes the entry off the record without     *)
(* dropping anything.  NoForwardPastItsService follows from it once the    *)
(* entries, and the mirrors a round is about to visit, are known to be     *)
(* declared by the newest input whenever no wake-up is under way.          *)
(***************************************************************************)
EXTENDS PortMirror, TLAPS

\* A forward dies with its tunnel.
OnTunnels == \A f \in fwds : f.host \in tunnels

\* What a round still has to do comes from what it expects; a mirror it will
\* leave alone has an entry.
RoundAgrees ==
  /\ round.todo \subseteq round.exp
  /\ \A k \in round.exp : ~Duplicate(round.exp, k) /\ k \notin round.due => k \in DOMAIN entries
  /\ pc \notin {"round", "hung"} => round = Idle

Current == {k \in frame : k.host \in dev}

\* With no wake-up under way the loop works on the newest input.
Followed ==
  pc \in {"select", "round"} /\ ~wake /\ posting = {} /\ ~closing =>
    DOMAIN entries \subseteq Current /\ round.exp \subseteq Current

StopAgrees == stop.pc # "idle" => stop.host \in Hosts /\ stop.port \in Ports

Inv ==
  /\ TypeOK /\ ForwardsOwned /\ OnTunnels /\ RoundAgrees /\ Followed /\ StopAgrees

-----------------------------------------------------------------------------
\* What a visit puts in place of an entry is an entry.
LEMMA FailedEntry ==
  ASSUME age \in 0 .. Cooldown, NEW code \in {"duplicate", "connection"}
  PROVE  Failed(code) \in Entry
  BY MirrorConstants DEF MirrorConstants, Entry, Failed, Remaining, Process

LEMMA ConflictEntry ==
  ASSUME age \in 0 .. Cooldown, NEW o \in Process
  PROVE  [state |-> "conflict", err |-> "conflict", occupier |-> o,
          wait |-> Remaining, up |-> FALSE] \in Entry
  BY MirrorConstants DEF MirrorConstants, Entry, Remaining

LEMMA EntryUpdates ==
  ASSUME NEW e \in Entry
  PROVE  /\ Forwarded(e) \in Entry /\ Forwarded(e).up
         /\ Retried(e) \in Entry /\ Retried(e).up = e.up
         /\ [e EXCEPT !.up = FALSE] \in Entry
<1>1. NoOne \in Process /\ 0 \in 0 .. Cooldown
  BY MirrorConstants DEF MirrorConstants, Process
<1>2. Forwarded(e) \in Entry /\ Forwarded(e).up
  BY <1>1 DEF Entry, Forwarded
<1>3. Retried(e) \in Entry /\ Retried(e).up = e.up
  BY <1>1 DEF Entry, Retried
<1>4. [e EXCEPT !.up = FALSE] \in Entry
  BY DEF Entry
<1>5. QED
  BY <1>2, <1>3, <1>4

\* A mirror visited for the first time starts out without a forward.
LEMMA EnsuredEntry ==
  ASSUME Inv, NEW k \in Key
  PROVE  /\ ensureEntry(k) \in Entry
         /\ k \in DOMAIN entries => ensureEntry(k) = entries[k]
         /\ k \notin DOMAIN entries => ~ensureEntry(k).up
<1>1. [state |-> "pending", err |-> "none", occupier |-> NoOne, wait |-> 0,
       up |-> FALSE] \in Entry
  BY MirrorConstants DEF Entry, Process, MirrorConstants
<1>2. k \in DOMAIN entries => entries[k] \in Entry
  BY DEF Inv, TypeOK
<1>3. QED
  BY <1>1, <1>2 DEF ensureEntry

\* A visit is safe if every forward it leaves was there before and stays on
\* record, or is the visited mirror's own.
LEMMA VisitIsSafe ==
  ASSUME Inv, pc = "round", NEW k \in round.todo, NEW e \in Entry, NEW f \in SUBSET FwdKey,
         Visited(k, e, f),
         \A x \in f : x.host \in tunnels,
         \A x \in f : \/ x = Fwd(k) /\ e.up
                      \/ x \in fwds /\ (k \in DOMAIN entries /\ entries[k].up => x # Fwd(k))
  PROVE  Inv'
<1>0. k \in round.exp /\ k \in Key
  BY DEF Inv, TypeOK, RoundAgrees, Round
<1>1. TypeOK'
  <2>1. round' \in Round
    BY <1>0 DEF Inv, TypeOK, Round, Visited
  <2>2. DOMAIN entries' \subseteq Key /\ entries' \in [DOMAIN entries' -> Entry]
    BY <1>0 DEF Inv, TypeOK, Visited
  <2>3. QED
    BY <2>1, <2>2 DEF Inv, TypeOK, Visited, inbox, out
<1>2. ForwardsOwned'
  BY <1>0 DEF Inv, ForwardsOwned, Visited
<1>3. OnTunnels'
  BY DEF OnTunnels, Visited
<1>4. RoundAgrees'
  BY <1>0 DEF Inv, TypeOK, Round, RoundAgrees, Visited, Duplicate
<1>5. Followed'
  BY <1>0 DEF Inv, TypeOK, Round, Followed, Current, Visited, inbox
<1>6. StopAgrees'
  BY DEF Inv, StopAgrees, Visited
<1>7. QED
  BY <1>1, <1>2, <1>3, <1>4, <1>5, <1>6 DEF Inv

\* Every kind of visit is safe.
LEMMA Visits == Inv /\ Visit => Inv'
<1> SUFFICES ASSUME Inv, NEW k \in round.todo,
                    \/ markDuplicate(k) \/ CoolingDown(k) \/ markConnectFailed(k)
                    \/ attemptForward(k) \/ ForwardConflict(k) \/ ForwardFailed(k)
             PROVE  Inv'
  BY DEF Visit
<1>1. k \in Key /\ Fwd(k) \in FwdKey /\ fwds \subseteq FwdKey /\ age \in 0 .. Cooldown
  BY DEF Inv, TypeOK, Round, Key, FwdKey, Fwd
<1>2. ensureEntry(k) \in Entry
  BY <1>1, EnsuredEntry
<1>3. \A u \in BOOLEAN : DropForward(u, k) \in SUBSET FwdKey /\ DropForward(u, k) \subseteq fwds
  BY <1>1 DEF DropForward
<1>4. \A x \in fwds : x.host \in tunnels
  BY DEF Inv, OnTunnels
<1>5. ensureEntry(k).up \in BOOLEAN
  BY <1>2 DEF Entry
<1>6. \A x \in DropForward(ensureEntry(k).up, k) :
        x \in fwds /\ (k \in DOMAIN entries /\ entries[k].up => x # Fwd(k))
  BY <1>1, EnsuredEntry DEF DropForward
<1>7. CASE markDuplicate(k)
  <2> DEFINE e == IF ensureEntry(k).err = "duplicate" THEN [ensureEntry(k) EXCEPT !.up = FALSE]
                  ELSE Failed("duplicate")
  <2>1. e \in Entry
    BY <1>1, <1>2, EntryUpdates, FailedEntry
  <2>2. pc = "round" /\ Visited(k, e, DropForward(ensureEntry(k).up, k))
    BY <1>7 DEF markDuplicate, NextKey
  <2> HIDE DEF e
  <2>3. QED
    BY <2>1, <2>2, <1>3, <1>4, <1>5, <1>6, VisitIsSafe
<1>8. CASE CoolingDown(k)
  <2>1. pc = "round" /\ Visited(k, entries[k], fwds) /\ k \in DOMAIN entries
    BY <1>8 DEF CoolingDown, NextKey, Inv, RoundAgrees
  <2>2. entries[k] \in Entry /\ entries[k].up \in BOOLEAN
    BY <2>1 DEF Inv, TypeOK, Entry
  <2>3. \A x \in fwds : \/ x = Fwd(k) /\ entries[k].up
                        \/ x \in fwds /\ (k \in DOMAIN entries /\ entries[k].up => x # Fwd(k))
    BY <2>2
  <2>4. QED
    BY <2>1, <2>2, <2>3, <1>1, <1>4, VisitIsSafe
<1>9. CASE markConnectFailed(k)
  <2>1. pc = "round" /\ Visited(k, Failed("connection"), DropForward(ensureEntry(k).up, k))
    BY <1>9 DEF markConnectFailed, NextKey
  <2>2. Failed("connection") \in Entry
    BY <1>1, FailedEntry
  <2>3. QED
    BY <2>1, <2>2, <1>3, <1>4, <1>5, <1>6, VisitIsSafe
<1>10. CASE attemptForward(k)
  <2>1. /\ pc = "round" /\ k.host \in tunnels
        /\ Visited(k, Forwarded(ensureEntry(k)), fwds \cup {Fwd(k)})
    BY <1>10 DEF attemptForward, Attempt, NextKey, EnsureForwardOK
  <2>2. Forwarded(ensureEntry(k)) \in Entry /\ Forwarded(ensureEntry(k)).up
    BY <1>2, EntryUpdates
  <2>3. \A x \in fwds \cup {Fwd(k)} : x.host \in tunnels
    BY <2>1, <1>4 DEF Fwd
  <2>4. \A x \in fwds \cup {Fwd(k)} :
          \/ x = Fwd(k) /\ Forwarded(ensureEntry(k)).up
          \/ x \in fwds /\ (k \in DOMAIN entries /\ entries[k].up => x # Fwd(k))
    BY <2>2
  <2>5. fwds \cup {Fwd(k)} \in SUBSET FwdKey
    BY <1>1
  <2>6. QED
    BY <2>1, <2>2, <2>3, <2>4, <2>5, VisitIsSafe
<1>11. CASE ForwardConflict(k)
  <2>1. pc = "round" /\ Fwd(k) \notin fwds
    BY <1>11 DEF ForwardConflict, Attempt, NextKey, EnsureForwardOK
  <2>2. Listener(k.port) \in Process /\ NoOne \in Process
    BY <1>1 DEF Inv, TypeOK, Listener, Process, Key
  <2>3. PICK o \in Process :
          Visited(k, [state |-> "conflict", err |-> "conflict", occupier |-> o,
                      wait |-> Remaining, up |-> FALSE], fwds)
    BY <1>11, <2>2 DEF ForwardConflict
  <2> DEFINE e == [state |-> "conflict", err |-> "conflict", occupier |-> o,
                   wait |-> Remaining, up |-> FALSE]
  <2>4. e \in Entry
    BY <1>1, ConflictEntry
  <2>5. Visited(k, e, fwds)
    BY <2>3
  <2>6. \A x \in fwds : x \in fwds /\ (k \in DOMAIN entries /\ entries[k].up => x # Fwd(k))
    BY <2>1
  <2> HIDE DEF e
  <2>7. QED
    BY <2>1, <2>4, <2>5, <2>6, <1>1, <1>4, VisitIsSafe
<1>12. CASE ForwardFailed(k)
  <2>1. pc = "round" /\ k.host \notin tunnels /\ Visited(k, Failed("connection"), fwds)
    BY <1>12 DEF ForwardFailed, Attempt, NextKey
  <2>2. \A x \in fwds : x \in fwds /\ (k \in DOMAIN entries /\ entries[k].up => x # Fwd(k))
    BY <2>1, <1>4 DEF Fwd
  <2>3. Failed("connection") \in Entry
    BY <1>1, FailedEntry
  <2>4. QED
    BY <2>1, <2>2, <2>3, <1>1, <1>4, VisitIsSafe
<1>13. QED
  BY <1>7, <1>8, <1>9, <1>10, <1>11, <1>12

-----------------------------------------------------------------------------
\* A round starts from the newest input and drops the forward of every mirror
\* it takes off the record.
LEMMA RoundBegins == Inv /\ BeginRound => Inv'
<1> SUFFICES ASSUME Inv, BeginRound PROVE Inv'
  OBVIOUS
<1>1. PICK hosts \in HostLists :
        /\ entries' = Restrict(applyRetries(entries),
                               DOMAIN applyRetries(entries) \cap Declared(hosts))
        /\ fwds' = fwds \ teardownUnexpected(applyRetries(entries), Declared(hosts))
        /\ round' = [exp |-> Declared(hosts),
                     due |-> {k \in Declared(hosts) : ~Duplicate(Declared(hosts), k)
                                                      /\ isDue(applyRetries(entries), k)},
                     dial |-> {k.host : k \in {x \in Declared(hosts) :
                                ~Duplicate(Declared(hosts), x)
                                /\ isDue(applyRetries(entries), x)}},
                     bad |-> {}, todo |-> Declared(hosts)]
  BY DEF BeginRound
<1> DEFINE exp == Declared(hosts)
           es == applyRetries(entries)
<1>2. exp \subseteq Key /\ exp \subseteq Current
  BY DEF Declared, HostLists, Inv, TypeOK, Current
<1>3. DOMAIN es = DOMAIN entries /\ DOMAIN es \subseteq Key
  BY DEF applyRetries, Inv, TypeOK
<1>4. \A k \in DOMAIN es : es[k] \in Entry /\ es[k].up = entries[k].up
  BY EntryUpdates DEF applyRetries, Inv, TypeOK
<1>5. /\ DOMAIN entries' = DOMAIN es \cap exp
      /\ \A k \in DOMAIN es \cap exp : entries'[k] = es[k]
      /\ entries' = [k \in DOMAIN es \cap exp |-> es[k]]
  BY <1>1 DEF Restrict
<1>6. fwds' = fwds \ {Fwd(k) : k \in {x \in DOMAIN es \ exp : es[x].up}}
  BY <1>1 DEF teardownUnexpected, ForwardsOf
<1>7. \A k \in exp : k.host \in Hosts
  BY <1>2 DEF Key
<1>8. \A k \in exp : ~isDue(es, k) => k \in DOMAIN es
  BY DEF isDue
<1>9. /\ wake' = FALSE /\ retryReqs' = {} /\ age' = 0 /\ pc' = "round"
      /\ UNCHANGED <<frame, dev, known, posting, closing, out, host, tunnels, listens, stop>>
  BY DEF BeginRound
<1> HIDE DEF exp, es
<1>10. /\ round'.exp = exp /\ round'.todo = exp
       /\ round'.due = {k \in exp : ~Duplicate(exp, k) /\ isDue(es, k)}
  BY <1>1 DEF exp, es
<1>11. TypeOK'
  <2>1. round' \in Round
    BY <1>1, <1>2, <1>7 DEF Round, exp
  <2>2. DOMAIN entries' \subseteq Key /\ entries' \in [DOMAIN entries' -> Entry]
    BY <1>3, <1>4, <1>5
  <2>3. age' \in 0 .. Cooldown
    BY <1>9, MirrorConstants DEF MirrorConstants
  <2>4. fwds' \subseteq FwdKey
    BY <1>6 DEF Inv, TypeOK
  <2>5. QED
    BY <2>1, <2>2, <2>3, <2>4, <1>9 DEF Inv, TypeOK, out
<1>12. ForwardsOwned'
  <2>1. SUFFICES ASSUME NEW f \in fwds' PROVE \E k \in DOMAIN entries' : Fwd(k) = f /\ entries'[k].up
    BY DEF ForwardsOwned
  <2>2. PICK k \in DOMAIN entries : Fwd(k) = f /\ entries[k].up
    BY <1>6 DEF Inv, ForwardsOwned
  <2>3. k \in exp
    BY <2>2, <1>3, <1>4, <1>6
  <2>4. QED
    BY <2>2, <2>3, <1>3, <1>4, <1>5
<1>13. OnTunnels'
  BY <1>6, <1>9 DEF Inv, OnTunnels
<1>14. RoundAgrees'
  BY <1>3, <1>5, <1>8, <1>9, <1>10 DEF RoundAgrees, Duplicate
<1>15. Followed'
  BY <1>2, <1>5, <1>9, <1>10 DEF Followed, Current
<1>16. StopAgrees'
  BY <1>9 DEF Inv, StopAgrees
<1>17. QED
  BY <1>11, <1>12, <1>13, <1>14, <1>15, <1>16 DEF Inv

\* Connecting a host only adds tunnels.
LEMMA HostConnects == ASSUME Inv, NEW h \in Hosts, ConnectHost(h) PROVE Inv'
<1>1. TypeOK'
  BY DEF Inv, TypeOK, Round, ConnectHost, inbox, out
<1>2. ForwardsOwned' /\ OnTunnels' /\ StopAgrees'
  BY DEF Inv, ForwardsOwned, OnTunnels, StopAgrees, ConnectHost
<1>3. RoundAgrees'
  BY DEF Inv, TypeOK, Round, RoundAgrees, Duplicate, ConnectHost
<1>4. Followed'
  BY DEF Inv, TypeOK, Round, Followed, Current, ConnectHost, inbox
<1>5. QED
  BY <1>1, <1>2, <1>3, <1>4 DEF Inv

\* Publishing leaves the forwards and their record alone.
LEMMA RoundEnds == Inv /\ publishIfChanged => Inv'
<1> SUFFICES ASSUME Inv, publishIfChanged PROVE Inv'
  OBVIOUS
<1>1. Idle \in Round
  BY DEF Idle, Round
<1>2. /\ DOMAIN buildSnapshot \subseteq Key
      /\ buildSnapshot \in [DOMAIN buildSnapshot -> Status]
  BY DEF buildSnapshot, Inv, TypeOK, Entry, Status
<1>3. buildSnapshot \in Snapshots
  BY <1>2 DEF Snapshots
<1>4. chan' \in Seq(Snapshots) /\ Len(chan') <= SubBuffer
  <2>1. chan' = chan \/ (chan' = Append(chan, buildSnapshot) /\ Len(chan) < SubBuffer)
    BY DEF publishIfChanged, Broadcast
  <2>2. Append(chan, buildSnapshot) \in Seq(Snapshots)
        /\ Len(Append(chan, buildSnapshot)) = Len(chan) + 1 /\ Len(chan) \in Nat
    BY <1>3 DEF Inv, TypeOK
  <2>3. QED
    BY <2>1, <2>2, MirrorConstants DEF Inv, TypeOK, MirrorConstants
<1>5. TypeOK'
  <2>1. age' \in 0 .. Cooldown
    BY MirrorConstants DEF publishIfChanged, MirrorConstants
  <2>2. QED
    BY <1>1, <1>2, <1>4, <2>1 DEF Inv, TypeOK, publishIfChanged, inbox, net
<1>6. ForwardsOwned' /\ OnTunnels' /\ StopAgrees'
  BY DEF Inv, ForwardsOwned, OnTunnels, StopAgrees, publishIfChanged, net
<1>7. RoundAgrees'
  BY DEF RoundAgrees, publishIfChanged, Idle
<1>8. Followed'
  BY DEF Inv, Followed, Current, publishIfChanged, inbox, Idle
<1>9. QED
  BY <1>5, <1>6, <1>7, <1>8 DEF Inv

\* Close finds every forward on record, so it leaves none.
LEMMA TornDown == Inv /\ teardownAll => Inv' /\ fwds' = {}
<1> SUFFICES ASSUME Inv, teardownAll PROVE Inv' /\ fwds' = {}
  OBVIOUS
<1>1. fwds' = {}
  BY DEF Inv, ForwardsOwned, teardownAll, ForwardsOf
<1>2. DOMAIN Empty = {} /\ Empty \in [DOMAIN Empty -> Entry]
  BY DEF Empty
<1>3. TypeOK'
  BY <1>1, <1>2 DEF Inv, TypeOK, teardownAll, inbox, out
<1>4. RoundAgrees'
  BY DEF Inv, RoundAgrees, teardownAll, Idle
<1>5. Followed' /\ StopAgrees' /\ ForwardsOwned' /\ OnTunnels'
  BY <1>1 DEF Inv, Followed, StopAgrees, ForwardsOwned, OnTunnels, teardownAll, inbox
<1>6. QED
  BY <1>1, <1>3, <1>4, <1>5 DEF Inv

\* Time only runs cooldowns down.
LEMMA TimePasses == Inv /\ Tick => Inv'
<1> SUFFICES ASSUME Inv, Tick PROVE Inv'
  OBVIOUS
<1> DEFINE Later(e) == [e EXCEPT !.wait = IF @ = 0 THEN 0 ELSE @ - 1]
<1>0. ASSUME NEW e \in Entry PROVE Later(e) \in Entry /\ Later(e).up = e.up
  <2>1. Cooldown \in Nat
    BY MirrorConstants DEF MirrorConstants
  <2>2. (IF e.wait = 0 THEN 0 ELSE e.wait - 1) \in 0 .. Cooldown
    BY <2>1 DEF Entry
  <2>3. QED
    BY <2>2 DEF Entry
<1>1. /\ DOMAIN entries' = DOMAIN entries
      /\ \A k \in DOMAIN entries : entries'[k] \in Entry /\ entries'[k].up = entries[k].up
      /\ entries' \in [DOMAIN entries' -> Entry]
  <2>1. entries' = [k \in DOMAIN entries |-> Later(entries[k])]
    BY DEF Tick
  <2>2. \A k \in DOMAIN entries : entries[k] \in Entry
    BY DEF Inv, TypeOK
  <2> HIDE DEF Later
  <2>3. QED
    BY <1>0, <2>1, <2>2
<1>2. TypeOK'
  <2>1. age' \in 0 .. Cooldown
    BY MirrorConstants DEF Inv, TypeOK, Tick, MirrorConstants
  <2>2. QED
    BY <1>1, <2>1 DEF Inv, TypeOK, Tick, inbox, out, net
<1>3. ForwardsOwned' /\ OnTunnels' /\ RoundAgrees' /\ Followed' /\ StopAgrees'
  BY <1>1 DEF Inv, ForwardsOwned, OnTunnels, RoundAgrees, Duplicate, Followed, Current,
     StopAgrees, Tick, inbox, net
<1>4. QED
  BY <1>2, <1>3 DEF Inv

-----------------------------------------------------------------------------
\* Input reaches the inbox together with a pending wake-up.
LEMMA InputArrives ==
  ASSUME Inv,
         \/ \E f \in SUBSET Key : ApplyNodes(f)
         \/ \E h \in Hosts : SetDevMachineMode(h)
         \/ \E f \in FwdKey : Retry(f)
         \/ Close \/ signalWake
  PROVE  Inv'
<1>1. /\ UNCHANGED <<loop, out, net, stop, known>>
      /\ posting' \subseteq {"frame", "host", "retry", "stop"}
      /\ frame' \subseteq Key /\ dev' \subseteq Hosts /\ retryReqs' \subseteq FwdKey
      /\ wake' \in BOOLEAN /\ closing' \in BOOLEAN
      /\ \/ posting' # {} \/ wake' \/ closing'
         \/ UNCHANGED <<frame, dev, posting, wake, closing>>
  <2>1. CASE \E f \in SUBSET Key : ApplyNodes(f)
    BY <2>1 DEF ApplyNodes, Post, Inv, TypeOK
  <2>2. CASE \E h \in Hosts : SetDevMachineMode(h)
    BY <2>2 DEF SetDevMachineMode, Inv, TypeOK
  <2>3. CASE \E f \in FwdKey : Retry(f)
    BY <2>3 DEF Retry, Post, Inv, TypeOK
  <2>4. CASE Close
    BY <2>4 DEF Close, Inv, TypeOK
  <2>5. CASE signalWake
    BY <2>5 DEF signalWake, Inv, TypeOK
  <2>6. QED
    BY <2>1, <2>2, <2>3, <2>4, <2>5
<1>2. TypeOK'
  BY <1>1 DEF Inv, TypeOK, loop, out, net
<1>3. ForwardsOwned' /\ OnTunnels' /\ RoundAgrees' /\ StopAgrees'
  BY <1>1 DEF Inv, ForwardsOwned, OnTunnels, RoundAgrees, Duplicate, StopAgrees, loop, net
<1>4. Followed'
  BY <1>1 DEF Inv, TypeOK, Followed, Current, loop
<1>5. QED
  BY <1>2, <1>3, <1>4 DEF Inv

\* The stop-occupier handler touches the inbox and a foreign process only.
LEMMA HandlerRuns == Inv /\ Handler => Inv'
<1> SUFFICES ASSUME Inv, Handler PROVE Inv'
  OBVIOUS
<1>1. /\ UNCHANGED <<loop, out, host, tunnels, fwds, frame, dev, known, wake>>
      /\ posting' \subseteq {"frame", "host", "retry", "stop"} /\ posting \subseteq posting'
      /\ retryReqs' \subseteq FwdKey
      /\ closing' \in BOOLEAN /\ (closing => closing')
      /\ listens' \in [Ports -> Programs \cup {NoOne}]
      /\ stop' \in StopRequest /\ StopAgrees'
  <2>0. NoStop \in StopRequest /\ NoStop.pc = "idle"
    BY DEF NoStop, StopRequest, Process
  <2>1. stop.pc # "idle" => [host |-> stop.host, port |-> stop.port] \in FwdKey
    BY DEF Inv, StopAgrees, FwdKey
  <2>2. CASE \E k \in Key : StopOccupier(k)
    <3>1. PICK k \in Key : StopOccupier(k)
      BY <2>2
    <3>2. snapshot[k].occupier \in Process
      BY <3>1 DEF StopOccupier, Inv, TypeOK, Status
    <3>3. stop' \in StopRequest /\ StopAgrees'
      BY <3>1, <3>2 DEF StopOccupier, StopRequest, StopAgrees, Key
    <3>4. QED
      BY <3>1, <3>3 DEF StopOccupier, inbox, net, Inv, TypeOK
  <2>3. CASE RecheckOccupier
    <3>1. stop.pc = "recheck" /\ (stop' = NoStop \/ stop' = [stop EXCEPT !.pc = "signal"])
      BY <2>3 DEF RecheckOccupier
    <3>2. stop' \in StopRequest /\ StopAgrees'
      BY <2>0, <3>1 DEF StopRequest, StopAgrees, Inv, TypeOK
    <3>3. /\ retryReqs' \subseteq FwdKey /\ posting \subseteq posting'
          /\ posting' \subseteq {"frame", "host", "retry", "stop"}
      BY <2>1, <2>3, <3>1 DEF RecheckOccupier, RetryAfterStop, Post, Inv, TypeOK
    <3>4. QED
      BY <2>3, <3>2, <3>3 DEF RecheckOccupier, net, Inv, TypeOK
  <2>4. CASE TerminateOccupier
    <3>1. /\ retryReqs' \subseteq FwdKey /\ posting \subseteq posting'
          /\ posting' \subseteq {"frame", "host", "retry", "stop"}
      BY <2>1, <2>4 DEF TerminateOccupier, RetryAfterStop, Post, Inv, TypeOK
    <3>2. QED
      BY <2>0, <2>4, <3>1 DEF TerminateOccupier, StopAgrees, Inv, TypeOK
  <2>5. CASE StopRefused
    BY <2>0, <2>5 DEF StopRefused, StopAgrees, inbox, net, Inv, TypeOK
  <2>6. QED
    BY <2>2, <2>3, <2>4, <2>5 DEF Handler
<1>2. TypeOK'
  BY <1>1 DEF Inv, TypeOK, loop, out
<1>3. ForwardsOwned' /\ OnTunnels' /\ RoundAgrees'
  BY <1>1 DEF Inv, ForwardsOwned, OnTunnels, RoundAgrees, Duplicate, loop
<1>4. Followed'
  BY <1>1 DEF Inv, TypeOK, Followed, Current, loop
<1>5. QED
  BY <1>1, <1>2, <1>3, <1>4 DEF Inv

\* A loop that hangs keeps what it has.
LEMMA LoopHangs ==
  ASSUME Inv, NEW h \in Hosts, RoundHangs(h) PROVE Inv'
<1>1. pc' = "hung" /\ UNCHANGED <<inbox, round, age, entries, out, net, stop>>
  BY DEF RoundHangs
<1>2. TypeOK'
  BY <1>1 DEF Inv, TypeOK, inbox, out, net
<1>3. ForwardsOwned' /\ OnTunnels' /\ RoundAgrees' /\ Followed' /\ StopAgrees'
  BY <1>1 DEF Inv, ForwardsOwned, OnTunnels, RoundAgrees, Duplicate, Followed, StopAgrees, net
<1>4. QED
  BY <1>2, <1>3 DEF Inv

\* Whatever else the world does, forwards only disappear, with their tunnel.
LEMMA WorldMoves ==
  ASSUME Inv, World \/ Receive PROVE Inv'
<1> SUFFICES ASSUME ~ \E h \in Hosts : RoundHangs(h) PROVE Inv'
  BY LoopHangs
<1>1. /\ UNCHANGED <<frame, dev, retryReqs, posting, wake, closing, loop, snapshot, stop>>
      /\ fwds' \subseteq fwds /\ OnTunnels' /\ tunnels' \subseteq Hosts
      /\ known' \subseteq Deployments
      /\ host' \in [Hosts -> HostState]
      /\ listens' \in [Ports -> Programs \cup {NoOne}]
      /\ chan' \in Seq(Snapshots) /\ Len(chan') <= SubBuffer
  <2>1. CASE \E ds \in SUBSET Deployments : ProjectsChange(ds)
    BY <2>1 DEF ProjectsChange, out, net, Inv, TypeOK, OnTunnels
  <2>2. CASE \E h \in Hosts, s \in HostState : HostChanges(h, s)
    BY <2>2 DEF HostChanges, inbox, out, Inv, TypeOK, OnTunnels
  <2>3. CASE \E h \in Hosts : TunnelLost(h)
    BY <2>3 DEF TunnelLost, inbox, out, Inv, TypeOK, OnTunnels
  <2>4. CASE \E p \in Ports, x \in Programs : Listen(p, x)
    BY <2>4 DEF Listen, inbox, out, Inv, TypeOK, OnTunnels
  <2>5. CASE \E x \in Programs : ProgramExits(x)
    BY <2>5 DEF ProgramExits, inbox, out, Inv, TypeOK, OnTunnels
  <2>6. CASE Receive
    <3>1. Tail(chan) \in Seq(Snapshots) /\ Len(Tail(chan)) = Len(chan) - 1 /\ Len(chan) \in Nat
      BY <2>6 DEF Receive, Inv, TypeOK
    <3>2. QED
      BY <2>6, <3>1, MirrorConstants DEF Receive, inbox, net, Inv, TypeOK, OnTunnels, MirrorConstants
  <2>7. QED
    BY <2>1, <2>2, <2>3, <2>4, <2>5, <2>6 DEF World
<1>2. TypeOK'
  BY <1>1 DEF Inv, TypeOK, loop
<1>3. ForwardsOwned' /\ RoundAgrees' /\ Followed' /\ StopAgrees'
  BY <1>1 DEF Inv, ForwardsOwned, RoundAgrees, Duplicate, Followed, Current, StopAgrees, loop
<1>4. QED
  BY <1>1, <1>2, <1>3 DEF Inv

-----------------------------------------------------------------------------
\* The invariant holds initially.
LEMMA Starts == Init => Inv
<1> SUFFICES ASSUME Init PROVE Inv
  OBVIOUS
<1>1. DOMAIN Empty = {} /\ Empty \in [{} -> Entry] /\ Empty \in [{} -> Status]
  BY DEF Empty
<1>2. Empty \in Snapshots
  BY <1>1 DEF Snapshots
<1>3. chan \in Seq(Snapshots) /\ Len(chan) <= SubBuffer
  BY <1>2, MirrorConstants DEF Init, MirrorConstants
<1>4. Idle \in Round /\ NoStop \in StopRequest /\ NoStop.pc = "idle"
  BY DEF Idle, Round, NoStop, StopRequest, Process
<1>5. TypeOK
  <2>1. /\ DOMAIN entries \subseteq Key /\ entries \in [DOMAIN entries -> Entry]
        /\ DOMAIN snapshot \subseteq Key /\ snapshot \in [DOMAIN snapshot -> Status]
    BY <1>1 DEF Init
  <2>2. age \in 0 .. Cooldown /\ round \in Round /\ stop \in StopRequest
    BY <1>4, MirrorConstants DEF Init, MirrorConstants
  <2>3. QED
    BY <1>3, <2>1, <2>2 DEF Init, TypeOK, HostState
<1>6. RoundAgrees
  BY DEF Init, RoundAgrees, Idle
<1>7. ForwardsOwned /\ OnTunnels /\ Followed /\ StopAgrees
  BY <1>1, <1>4 DEF Init, ForwardsOwned, OnTunnels, Followed, StopAgrees, Idle
<1>8. QED
  BY <1>5, <1>6, <1>7 DEF Inv

\* Every step keeps the invariant.
LEMMA Continues == Inv /\ [Next]_vars => Inv'
<1> SUFFICES ASSUME Inv, [Next]_vars PROVE Inv'
  OBVIOUS
<1>1. CASE Loop
  BY <1>1, RoundBegins, HostConnects, Visits, RoundEnds, TornDown DEF Loop
<1>2. CASE signalWake \/ Input
  BY <1>2, InputArrives DEF Input
<1>3. CASE Handler
  BY <1>3, HandlerRuns
<1>4. CASE World \/ Receive
  BY <1>4, WorldMoves
<1>5. CASE Tick
  BY <1>5, TimePasses
<1>6. CASE UNCHANGED vars
  <2>1. TypeOK'
    BY <1>6 DEF Inv, TypeOK, vars, inbox, loop, out, net
  <2>2. QED
    BY <1>6, <2>1 DEF Inv, ForwardsOwned, OnTunnels, RoundAgrees, Duplicate, Followed,
       Current, StopAgrees, vars, inbox, loop, out, net
<1>7. QED
  BY <1>1, <1>2, <1>3, <1>4, <1>5, <1>6 DEF Next

\* The inductive invariant of the mirror manager.
THEOREM Invariance == Spec => []Inv
  BY Starts, Continues, PTL DEF Spec

\* Inbox, round, entries, published states and channels keep their types.
THEOREM TypeCorrect == Spec => []TypeOK
<1>1. Inv => TypeOK
  BY DEF Inv
<1>2. QED
  BY <1>1, Invariance, PTL

\* Every forward that listens locally is on record in an entry that will drop
\* it, so none is left when the manager is closed.
THEOREM ForwardsAreOwned == Spec => []ForwardsOwned
<1>1. Inv => ForwardsOwned
  BY DEF Inv
<1>2. QED
  BY <1>1, Invariance, PTL

\* No input is lost on its way to the loop: at rest, every forward belongs to
\* a port the newest frame declares on a host that is switched on.
THEOREM ForwardsFollowServices == Spec => []NoForwardPastItsService
<1>1. Inv => NoForwardPastItsService
  BY DEF Inv, ForwardsOwned, Followed, Current, NoForwardPastItsService, Fwd
<1>2. QED
  BY <1>1, Invariance, PTL

\* Close leaves no forward behind: the step that ends the loop drops all.
THEOREM CloseDropsAll == Spec => [][teardownAll => fwds' = {}]_vars
<1>1. Inv /\ [Next]_vars => [teardownAll => fwds' = {}]_vars
  BY TornDown
<1>2. QED
  BY <1>1, Invariance, PTL DEF Spec
=============================================================================
