------------------------ MODULE SparkplugManagerProofs ------------------------
(***************************************************************************)
(* Proofs about the Sparkplug manager, for every set of devices, every     *)
(* report and any number of faults, NCMDs and command results.             *)
(*                                                                         *)
(* The properties speak of devices the loop is not at.  IInv adds what the *)
(* loop and its current device know of each other between two blocking     *)
(* calls, and what the session and its owed will say about the broker.     *)
(***************************************************************************)
EXTENDS SparkplugManager, TLAPS

\* The types that the argument needs; the bounds on counters play no part.
Publication == [born : BOOLEAN, unavailable : BOOLEAN, last : Reports \cup {"none"}]
Session == [connected : BOOLEAN, pending : BOOLEAN, callbacks : Nat]
Loop ==
  [pc : LoopPC, todo : SUBSET Devices, all : BOOLEAN, dev : Devices \cup {"none"},
   kind : Kinds, report : Reports \cup {"none"}, redcon : {1, 4}]

DeviceTypes ==
  /\ want \in [Devices -> Reports \cup {"off"}]
  /\ pub \in [Devices -> Publication]
  /\ mqtt \in [Devices -> {"nil", "up", "down", "closed"}]
  /\ reconnect \in [Devices -> Session]
  /\ will \in [Devices -> BOOLEAN]
  /\ seen \in [Devices -> Reports \cup {"none", "dead", "mixed", "stray"}]
  /\ fresh \in [Devices -> BOOLEAN]

LoopTypes ==
  /\ managed \subseteq Devices /\ rebirth \in BOOLEAN /\ nodeRedcon \in {1, 4}
  /\ loop \in Loop

AtDevice == {"connect", "publish", "disconnect"}

\* Where the loop stands, and what it still has to visit.
LoopInv ==
  /\ loop.pc \in {"idle", "online", "check", "crashed"} => loop.todo = {}
  /\ loop.dev # "none" <=> loop.pc \in AtDevice
  /\ loop.pc # "stopped" => loop.todo \subseteq managed
  /\ loop.pc = "disconnect" => loop.kind = "death"

\* A session that is up owes no will, one that is down owes it or has sent it;
\* a session that was opened has its first connection announced or about to be.
SessionInv(d) ==
  /\ pub[d].born => pub[d].last \in Reports
  /\ mqtt[d] = "up" => ~will[d]
  /\ mqtt[d] = "down" => will[d] \/ seen[d] = "dead"
  /\ mqtt[d] \in {"up", "down"} => reconnect[d].connected \/ reconnect[d].callbacks > 0
  /\ mqtt[d] = "closed" => d \notin managed

\* What the loop is about to tell the broker is what the device counts as.
BusyInv(d) ==
  loop.dev = d =>
    /\ pub[d].born => loop.kind \in {"birth", "data"} /\ loop.report = pub[d].last
    /\ pub[d].unavailable => loop.kind = "death"
    /\ loop.pc = "disconnect" => seen[d] = "dead"

\* A device that is not yet born again after the node is still to be visited.
FreshInv(d) ==
  Running /\ ~rebirth /\ d \in managed /\ pub[d].born =>
    fresh[d] \/ (loop.all /\ d \in loop.todo) \/ (loop.dev = d /\ loop.kind = "birth")

\* SeenIsPublished, DeadIsClosed and ShutdownBuries of one device.
SeenOf(d) ==
  Settled(d) /\ pub[d].born =>
    /\ mqtt[d] # "nil"
    /\ mqtt[d] = "up" /\ ~Signalled(reconnect[d]) => seen[d] \in {pub[d].last, "mixed"}
DeadOf(d) ==
  Settled(d) /\ pub[d].unavailable => mqtt[d] = "nil" /\ seen[d] = "dead"
BuriedOf(d) ==
  loop.pc = "stopped" /\ d \in managed \ loop.todo /\ pub[d].born
    => will[d] \/ seen[d] = "dead"

DevInv(d) ==
  SessionInv(d) /\ BusyInv(d) /\ FreshInv(d) /\ SeenOf(d) /\ DeadOf(d) /\ BuriedOf(d)

IInv ==
  /\ DeviceTypes /\ LoopTypes /\ LoopInv
  /\ \A d \in Devices : DevInv(d)

-----------------------------------------------------------------------------
(* Devices that a step leaves alone.                                       *)

\* Nothing about d changes, nor does the step start or end a rebirth.
Same(d) ==
  /\ pub'[d] = pub[d] /\ mqtt'[d] = mqtt[d] /\ reconnect'[d] = reconnect[d]
  /\ will'[d] = will[d] /\ seen'[d] = seen[d] /\ fresh'[d] = fresh[d]
  /\ (d \in managed' <=> d \in managed) /\ rebirth' = rebirth

\* The loop stands where it stood, and visits d if it did.
Stays(d) ==
  /\ loop'.pc = loop.pc /\ loop'.all = loop.all /\ loop'.dev = loop.dev
  /\ loop'.kind = loop.kind /\ loop'.report = loop.report
  /\ (d \in loop'.todo <=> d \in loop.todo)

\* The loop moves, but neither at d nor to it, and d stays due if it was.
Elsewhere(d) ==
  /\ Running /\ Running' /\ loop.dev # d /\ loop'.dev # d
  /\ loop.all /\ d \in loop.todo => loop'.all /\ d \in loop'.todo

\* A device that a step does not touch and whose turn in the round does not change
\* keeps its part of the invariant.
LEMMA FrameSame ==
  ASSUME NEW d \in Devices, DevInv(d), Same(d), Stays(d)
  PROVE  DevInv(d)'
<1> USE DEF Same, Stays, Settled, Running
<1>1. (SessionInv(d) /\ BusyInv(d))'
  BY Zenon DEF DevInv, SessionInv, BusyInv
<1>2. (FreshInv(d) /\ BuriedOf(d))'
  BY Zenon DEF DevInv, FreshInv, BuriedOf
<1>3. (SeenOf(d) /\ DeadOf(d))'
  BY Zenon DEF DevInv, SeenOf, DeadOf, Signalled
<1> QED BY Zenon, <1>1, <1>2, <1>3 DEF DevInv

\* So it does when the round goes on without having it as its device.
LEMMA FrameElsewhere ==
  ASSUME NEW d \in Devices, DevInv(d), Same(d), Elsewhere(d)
  PROVE  DevInv(d)'
<1> USE DEF Same, Elsewhere, Settled, Running
<1>1. (SessionInv(d) /\ BusyInv(d))'
  BY Zenon DEF DevInv, SessionInv, BusyInv
<1>2. (FreshInv(d) /\ BuriedOf(d))'
  BY Zenon DEF DevInv, FreshInv, BuriedOf
<1>3. (SeenOf(d) /\ DeadOf(d))'
  BY Zenon DEF DevInv, SeenOf, DeadOf, Signalled
<1> QED BY Zenon, <1>1, <1>2, <1>3 DEF DevInv

\* A step that touches one device has to be examined for that device only.
LEMMA OneDevice ==
  ASSUME IInv, NEW d \in Devices, DeviceTypes', DevInv(d)',
         managed' = managed, rebirth' = rebirth, nodeRedcon' = nodeRedcon, loop' = loop,
         \A e \in Devices \ {d} : Same(e)
  PROVE  IInv'
<1>1. LoopTypes' /\ LoopInv'
  BY Zenon DEF IInv, LoopTypes, LoopInv
<1>2. ASSUME NEW e \in Devices PROVE DevInv(e)'
  <2>1. CASE e = d
    BY Zenon, <2>1
  <2>2. CASE e # d
    <3>1. DevInv(e) /\ Same(e)
      BY Zenon, <2>2 DEF IInv
    <3> QED BY Zenon, <3>1, FrameSame DEF Stays
  <2> QED BY Zenon, <2>1, <2>2
<1> QED BY Zenon, <1>1, <1>2 DEF IInv

\* A step of the node's session or of an NCMD that touches no device.
LEMMA NoDevice ==
  ASSUME IInv, UNCHANGED <<managed, devVars, rebirth, loop>>, nodeRedcon' \in {1, 4}
  PROVE  IInv'
<1>1. LoopTypes' /\ LoopInv' /\ DeviceTypes'
  BY Zenon DEF IInv, LoopTypes, LoopInv, DeviceTypes, devVars
<1>2. ASSUME NEW e \in Devices PROVE DevInv(e)'
  <2>1. DevInv(e) /\ Same(e)
    BY Zenon DEF IInv, Same, devVars
  <2> QED BY Zenon, <2>1, FrameSame DEF Stays
<1> QED BY Zenon, <1>1, <1>2 DEF IInv

-----------------------------------------------------------------------------
(* The sessions and the broker.                                            *)

\* The broker publishes the will of a connection that broke.
LEMMA WillFiresStep ==
  ASSUME IInv, NEW d \in Devices, WillFires(d)
  PROVE  IInv'
<1> USE DEF WillFires, procVars
<1>1. DeviceTypes'
  BY Zenon DEF IInv, DeviceTypes
<1>2. ASSUME NEW e \in Devices \ {d} PROVE Same(e)
  BY Zenon DEF IInv, DeviceTypes, Same
<1>3. /\ DevInv(d) /\ will[d] /\ seen'[d] = "dead" /\ ~will'[d]
      /\ UNCHANGED <<managed, rebirth, loop, nodeRedcon, pub, mqtt, reconnect, fresh>>
  BY Zenon DEF IInv, DeviceTypes
<1>4. DevInv(d)'
  BY <1>3 DEF DevInv, SessionInv, BusyInv, FreshInv, SeenOf, DeadOf, BuriedOf, Settled, Running
<1> QED BY Zenon, <1>1, <1>2, <1>3, <1>4, OneDevice

\* A connection breaks.
LEMMA LoseConnectionStep ==
  ASSUME IInv, Running, NEW d \in Devices, LoseConnection(d)
  PROVE  IInv'
<1> USE DEF LoseConnection, procVars
<1>1. DeviceTypes'
  BY Zenon DEF IInv, DeviceTypes
<1>2. ASSUME NEW e \in Devices \ {d} PROVE Same(e)
  BY Zenon DEF IInv, DeviceTypes, Same
<1>3. /\ DevInv(d) /\ mqtt[d] = "up" /\ mqtt'[d] = "down" /\ will'[d]
      /\ UNCHANGED <<managed, rebirth, loop, nodeRedcon, pub, reconnect, seen, fresh>>
  BY Zenon DEF IInv, DeviceTypes
<1>4. DevInv(d)'
  BY <1>3 DEF DevInv, SessionInv, BusyInv, FreshInv, SeenOf, DeadOf, BuriedOf, Settled, Running
<1> QED BY Zenon, <1>1, <1>2, <1>3, <1>4, OneDevice

\* The client library connects again by itself.
LEMMA ReconnectStep ==
  ASSUME IInv, Running, NEW d \in Devices, Reconnect(d)
  PROVE  IInv'
<1> USE DEF Reconnect, procVars
<1> DEFINE r == [reconnect[d] EXCEPT !.callbacks = @ + 1]
<1>1. /\ r \in Session /\ r.callbacks = reconnect[d].callbacks + 1
      /\ r.connected = reconnect[d].connected
  BY DEF IInv, DeviceTypes, Session
<1>2. reconnect' = [reconnect EXCEPT ![d] = r]
  OBVIOUS
<1> HIDE DEF r
<1>3. DeviceTypes'
  BY <1>1, <1>2 DEF IInv, DeviceTypes
<1>4. ASSUME NEW e \in Devices \ {d} PROVE Same(e)
  BY Zenon, <1>2 DEF IInv, DeviceTypes, Same
<1>5. /\ DevInv(d) /\ mqtt[d] = "down" /\ ~will[d] /\ mqtt'[d] = "up" /\ reconnect'[d] = r
      /\ reconnect[d] \in Session
      /\ UNCHANGED <<managed, rebirth, loop, nodeRedcon, pub, will, seen, fresh>>
  BY Zenon, <1>2 DEF IInv, DeviceTypes
<1> HIDE DEF Reconnect
<1>6. Signalled(reconnect[d])'
  BY <1>1, <1>5 DEF DevInv, SessionInv, Session, Signalled
<1>7. reconnect'[d].callbacks > 0
  BY <1>1, <1>5 DEF Session
<1>8. DevInv(d)'
  BY Zenon, <1>5, <1>6, <1>7
     DEF DevInv, SessionInv, BusyInv, FreshInv, SeenOf, DeadOf, BuriedOf, Settled, Running
<1> QED BY Zenon, <1>3, <1>4, <1>5, <1>8, OneDevice

\* What the connection callback does to a session.
LEMMA OnConnectionFacts ==
  ASSUME NEW q \in Session, q.callbacks > 0
  PROVE  /\ OnConnection(q) \in Session
         /\ OnConnection(q).connected = TRUE
         /\ OnConnection(q).pending = (q.pending \/ q.connected)
         /\ OnConnection(q).callbacks = q.callbacks - 1
<1> DEFINE n == q.callbacks - 1
           p == q.pending \/ q.connected
           s == [q EXCEPT !.callbacks = n]
           t == [s EXCEPT !.connected = TRUE]
<1>1. n \in Nat /\ p \in BOOLEAN
  BY DEF Session
<1>2. OnConnection(q) = [t EXCEPT !.pending = p]
  BY Zenon DEF OnConnection
<1> HIDE DEF n, p
<1>3. s \in Session /\ s.callbacks = n
  BY Zenon, <1>1 DEF Session
<1> HIDE DEF s
<1>4. t \in Session /\ t.callbacks = n /\ t.connected = TRUE
  BY Zenon, <1>3 DEF Session
<1> HIDE DEF t
<1>5. /\ OnConnection(q) \in Session /\ OnConnection(q).callbacks = n
      /\ OnConnection(q).connected = TRUE /\ OnConnection(q).pending = p
  BY Zenon, <1>1, <1>2, <1>4 DEF Session
<1> QED BY Zenon, <1>5 DEF n, p

\* onConnection loses no signal: either the session was already connected, and
\* the reconnect is pending now, or the connection counts from here on.
LEMMA CallbackStep ==
  ASSUME IInv, Running, NEW d \in Devices, Callback(d)
  PROVE  IInv'
<1> DEFINE q == reconnect[d]
           r == OnConnection(q)
<1>1. q \in Session /\ q.callbacks > 0
  BY Zenon DEF Callback, IInv, DeviceTypes
<1>2. reconnect' = [reconnect EXCEPT ![d] = r]
  BY Zenon DEF Callback
<1>3. UNCHANGED <<managed, rebirth, loop, nodeRedcon, want, pub, mqtt, will, seen, fresh>>
  BY Zenon DEF Callback, procVars
<1> HIDE DEF q
<1>4. /\ r \in Session /\ r.connected = TRUE /\ r.pending = (q.pending \/ q.connected)
      /\ r.callbacks = q.callbacks - 1
  BY Zenon, <1>1, OnConnectionFacts
<1>5. r \in Session
  BY Zenon, <1>4
<1> HIDE DEF r
<1>6. Signalled(q) => Signalled(r)
  BY <1>1, <1>4 DEF Session, Signalled
<1>7. DeviceTypes' /\ reconnect'[d] = r
  BY Zenon, <1>2, <1>3, <1>5 DEF IInv, DeviceTypes
<1>8. ASSUME NEW e \in Devices \ {d} PROVE Same(e)
  BY Zenon, <1>2, <1>3 DEF IInv, DeviceTypes, Same
<1>9. DevInv(d) /\ r.connected /\ reconnect[d] = q
  BY Zenon, <1>4 DEF IInv, q
<1>10. (SessionInv(d) /\ BusyInv(d) /\ FreshInv(d) /\ DeadOf(d) /\ BuriedOf(d))'
  BY Zenon, <1>3, <1>7, <1>9
     DEF DevInv, SessionInv, BusyInv, FreshInv, DeadOf, BuriedOf, Settled, Running
<1>11. SeenOf(d)'
  <2>1. Signalled(reconnect[d]) => Signalled(reconnect[d])'
    BY Zenon, <1>6, <1>7, <1>9 DEF Signalled
  <2> QED BY Zenon, <1>3, <1>9, <2>1 DEF DevInv, SeenOf, Settled, Running
<1>12. DevInv(d)'
  BY Zenon, <1>10, <1>11 DEF DevInv
<1> QED BY Zenon, <1>3, <1>7, <1>8, <1>12, OneDevice

\* What a device should say does not enter the invariant until it is decided.
LEMMA WantStep ==
  ASSUME IInv, NEW d \in Devices, NEW v \in Reports \cup {"off"},
         Expire(d) \/ ObserveState(d, v)
  PROVE  IInv'
<1>1. /\ UNCHANGED <<managed, rebirth, loop, nodeRedcon, pub, mqtt, reconnect, will, seen, fresh>>
      /\ want' = [want EXCEPT ![d] = v] \/ want' = [want EXCEPT ![d] = "off"]
  BY Zenon DEF Expire, ObserveState, procVars
<1>2. DeviceTypes'
  BY Zenon, <1>1 DEF IInv, DeviceTypes
<1>3. \A e \in Devices : Same(e)
  BY Zenon, <1>1 DEF Same
<1>4. DevInv(d)'
  BY Zenon, <1>1, <1>3, FrameSame DEF IInv, Stays
<1> QED BY Zenon, <1>1, <1>2, <1>3, <1>4, OneDevice

\* The relayed REDCON can only blur a report that was told before.
LEMMA CommandResultStep ==
  ASSUME IInv, Running, NEW d \in Devices, CommandResult(d)
  PROVE  IInv'
<1>1. /\ loop.pc = "idle" /\ d \in managed /\ mqtt[d] # "nil"
      /\ UNCHANGED <<managed, rebirth, loop, nodeRedcon, want, pub, mqtt, reconnect, will, fresh>>
  BY Zenon DEF CommandResult, procVars
<1>2. PICK told \in {seen[d]} \cup
         (IF mqtt[d] = "down" \/ seen[d] = want[d] THEN {}
          ELSE IF seen[d] \in {"none", "dead", "stray"} THEN {"stray"} ELSE {"mixed"}) :
       seen' = [seen EXCEPT ![d] = told]
  BY Zenon DEF CommandResult
<1>3. /\ told \in {seen[d], "stray", "mixed"}
      /\ mqtt[d] = "down" => told = seen[d]
      /\ told = "stray" => told = seen[d] \/ seen[d] \in {"none", "dead"}
  BY Zenon, <1>2
<1>4. DeviceTypes' /\ seen'[d] = told
  BY Zenon, <1>1, <1>2, <1>3 DEF IInv, DeviceTypes
<1>5. ASSUME NEW e \in Devices \ {d} PROVE Same(e)
  BY Zenon, <1>1, <1>2 DEF IInv, DeviceTypes, Same
<1>6. DevInv(d) /\ LoopInv
  BY Zenon DEF IInv
<1>7. (SessionInv(d) /\ FreshInv(d) /\ BuriedOf(d))'
  BY Zenon, <1>1, <1>3, <1>4, <1>6 DEF DevInv, SessionInv, FreshInv, BuriedOf, Running
<1>8. BusyInv(d)' /\ DeadOf(d)' /\ Settled(d)
  BY Zenon, <1>1, <1>6, BoundsAssumption DEF DevInv, DeadOf, BusyInv, Settled, Running, LoopInv, AtDevice
<1>9. SeenOf(d)'
  BY Zenon, <1>1, <1>3, <1>4, <1>6, <1>8, BoundsAssumption
     DEF DevInv, SeenOf, SessionInv, Settled, Running, Signalled
<1>10. DevInv(d)'
  BY Zenon, <1>7, <1>8, <1>9 DEF DevInv
<1> QED BY Zenon, <1>1, <1>4, <1>5, <1>10, OneDevice

\* A session is closed without a DDEATH and what was published is forgotten.
LEMMA TeardownStep ==
  ASSUME IInv, Running, NEW d \in Devices, Teardown(d)
  PROVE  IInv'
<1>1. /\ UNCHANGED <<managed, rebirth, loop, nodeRedcon, want, will, seen, fresh>>
      /\ mqtt' = [mqtt EXCEPT ![d] = "nil"]
      /\ reconnect' = [reconnect EXCEPT ![d] = Quiet]
      /\ pub' = [pub EXCEPT ![d] = Unpublished]
  BY Zenon DEF Teardown
<1>2. DeviceTypes' /\ mqtt'[d] = "nil" /\ ~pub'[d].born /\ ~pub'[d].unavailable
  BY Zenon, <1>1 DEF IInv, DeviceTypes, Publication, Unpublished, Session, Quiet
<1>3. ASSUME NEW e \in Devices \ {d} PROVE Same(e)
  BY Zenon, <1>1 DEF IInv, DeviceTypes, Same
<1>4. DevInv(d)'
  BY Zenon, <1>1, <1>2
     DEF IInv, DevInv, SessionInv, BusyInv, FreshInv, SeenOf, DeadOf, BuriedOf, Settled, Running
<1> QED BY Zenon, <1>1, <1>2, <1>3, <1>4, OneDevice

-----------------------------------------------------------------------------
(* The inventory.                                                          *)

\* Devices leave and join the inventory; the round under way forgets those that left.
LEMMA RefreshStep ==
  ASSUME IInv, Running, NEW inv \in SUBSET Devices, Refresh(inv),
         loop' \in Loop, loop'.todo = loop.todo \cap inv,
         loop'.pc = loop.pc, loop'.all = loop.all, loop'.dev = loop.dev,
         loop'.kind = loop.kind, loop'.report = loop.report
  PROVE  IInv'
<1>1. /\ managed' = inv
      /\ UNCHANGED <<will, seen, fresh, nodeRedcon, rebirth>>
  BY Zenon DEF Refresh
<1>2. DeviceTypes'
  <2>1. want' \in [Devices -> Reports \cup {"off"}] /\ pub' \in [Devices -> Publication]
    BY Zenon DEF Refresh, IInv, DeviceTypes, Publication, Unpublished
  <2>2. mqtt' \in [Devices -> {"nil", "up", "down", "closed"}]
    BY Zenon DEF Refresh, IInv, DeviceTypes
  <2>3. reconnect' \in [Devices -> Session]
    BY Zenon DEF Refresh, IInv, DeviceTypes, Session, Quiet
  <2> QED BY Zenon, <1>1, <2>1, <2>2, <2>3 DEF IInv, DeviceTypes
<1>3. LoopTypes' /\ LoopInv'
  BY Zenon, <1>1 DEF IInv, LoopTypes, LoopInv, Running
<1>4. ASSUME NEW e \in Devices PROVE DevInv(e)'
  <2>1. DevInv(e)
    BY Zenon DEF IInv
  <2>2. CASE e \in managed \cap inv
    <3>1. Same(e)
      BY Zenon, <1>1, <2>2 DEF Refresh, Same
    <3>2. Stays(e)
      BY Zenon, <2>2 DEF Stays
    <3> QED BY Zenon, <2>1, <3>1, <3>2, FrameSame
  <2>3. CASE e \notin managed \cap inv
    <3>1. /\ ~pub'[e].born /\ ~pub'[e].unavailable
          /\ mqtt'[e] = "nil" \/ (mqtt'[e] = "closed" /\ e \notin managed')
      BY Zenon, <1>1, <2>3 DEF Refresh, Unpublished
    <3> QED BY Zenon, <1>1, <2>1, <3>1
      DEF DevInv, SessionInv, BusyInv, FreshInv, SeenOf, DeadOf, BuriedOf
  <2> QED BY Zenon, <2>2, <2>3
<1> QED BY Zenon, <1>2, <1>3, <1>4 DEF IInv

\* The loop's own refresh of the inventory.
LEMMA RefreshInventoryStep ==
  ASSUME IInv, Running, RefreshInventory
  PROVE  IInv'
<1>1. PICK inv \in SUBSET Devices : Refresh(inv)
  BY Zenon DEF RefreshInventory
<1>2. loop.pc = "idle" /\ loop' = loop
  BY Zenon DEF RefreshInventory
<1>3. loop \in Loop /\ loop.todo = {}
  BY Zenon, <1>2 DEF IInv, LoopTypes, LoopInv
<1> QED BY Zenon, <1>1, <1>2, <1>3, RefreshStep

\* A crash of the process ends what the invariant says of its devices.
LEMMA CrashStep ==
  ASSUME IInv, UNCHANGED <<managed, devVars, nodeRedcon, rebirth>>,
         loop' = [Idle EXCEPT !.pc = "crashed"]
  PROVE  IInv'
<1>1. /\ loop' \in Loop /\ loop'.pc = "crashed" /\ loop'.dev = "none" /\ loop'.todo = {}
  BY Zenon DEF Idle, Loop, LoopPC, Kinds
<1>2. DeviceTypes' /\ LoopTypes' /\ LoopInv'
  BY Zenon, <1>1 DEF IInv, DeviceTypes, LoopTypes, LoopInv, AtDevice, devVars
<1>3. ASSUME NEW e \in Devices PROVE DevInv(e)'
  <2>1. DevInv(e) /\ e # "none"
    BY Zenon, BoundsAssumption DEF IInv
  <2> QED BY Zenon, <1>1, <2>1
    DEF DevInv, SessionInv, BusyInv, FreshInv, SeenOf, DeadOf, BuriedOf, Settled, Running, devVars
<1> QED BY Zenon, <1>2, <1>3 DEF IInv

\* The refresh that a command to the node ends with, under the loop's feet.
LEMMA RefreshByCallbackStep ==
  ASSUME IInv, Running, RefreshByCallback
  PROVE  IInv'
<1>1. ASSUME NEW inv \in SUBSET Devices, Refresh(inv), loop' = [loop EXCEPT !.todo = @ \cap inv]
      PROVE  IInv'
  <2>1. /\ loop' \in Loop /\ loop'.todo = loop.todo \cap inv
        /\ loop'.pc = loop.pc /\ loop'.all = loop.all /\ loop'.dev = loop.dev
        /\ loop'.kind = loop.kind /\ loop'.report = loop.report
    BY Zenon, <1>1 DEF IInv, LoopTypes, Loop
  <2> QED BY Zenon, <1>1, <2>1, RefreshStep
<1>2. ASSUME loop' = [Idle EXCEPT !.pc = "crashed"],
             UNCHANGED <<managed, devVars, node, nodeRedcon, rebirth, count>>
      PROVE  IInv'
  BY Zenon, <1>2, CrashStep
<1> QED BY Zenon, <1>1, <1>2 DEF RefreshByCallback

-----------------------------------------------------------------------------
(* publishDeviceState.                                                     *)

\* Between two rounds of the loop: no device is visited or due.
LEMMA BetweenRounds ==
  ASSUME IInv, Running, loop.dev = "none", loop.todo = {}, loop' \in Loop, loop'.todo = {},
         loop'.pc \in {"idle", "online", "check"}, loop'.dev = "none",
         UNCHANGED <<managed, devVars, nodeRedcon, rebirth>>
  PROVE  IInv'
<1>1. DeviceTypes' /\ LoopTypes' /\ LoopInv'
  BY Zenon DEF IInv, DeviceTypes, LoopTypes, LoopInv, AtDevice, devVars
<1>2. ASSUME NEW e \in Devices PROVE DevInv(e)'
  <2>1. DevInv(e) /\ Same(e) /\ Elsewhere(e)
    BY Zenon, BoundsAssumption DEF IInv, Same, Elsewhere, Running, devVars
  <2> QED BY Zenon, <2>1, FrameElsewhere
<1> QED BY Zenon, <1>1, <1>2 DEF IInv

\* The loop between its rounds.
LEMMA IdleFacts ==
  /\ Idle \in Loop /\ Idle.pc = "idle" /\ Idle.dev = "none" /\ Idle.todo = {}
  /\ Idle.kind = "none"
BY Zenon DEF Idle, Loop, LoopPC, Kinds

\* A round starts.
LEMMA TickStep ==
  ASSUME IInv, Running, Tick
  PROVE  IInv'
<1> DEFINE q == IF node.rec.pending THEN "online" ELSE "check"
           i == [Idle EXCEPT !.pc = q]
<1>1. /\ loop.pc = "idle" /\ UNCHANGED <<managed, devVars, nodeRedcon, rebirth>>
      /\ loop' = [i EXCEPT !.redcon = nodeRedcon]
  BY Zenon DEF Tick
<1>2. q \in {"online", "check"} /\ nodeRedcon \in {1, 4}
  BY Zenon DEF IInv, LoopTypes
<1> HIDE DEF q
<1>3. i \in Loop /\ i.pc = q /\ i.dev = "none" /\ i.todo = {}
  BY Zenon, <1>2, IdleFacts DEF Loop, LoopPC
<1> HIDE DEF i
<1>4. loop' \in Loop /\ loop'.pc = q /\ loop'.dev = "none" /\ loop'.todo = {}
  BY Zenon, <1>1, <1>2, <1>3 DEF Loop
<1>5. loop.dev = "none" /\ loop.todo = {}
  BY Zenon, <1>1 DEF IInv, LoopInv, AtDevice
<1> QED BY Zenon, <1>1, <1>2, <1>4, <1>5, BetweenRounds

\* A round is over when no device is left.
LEMMA EndDevicesStep ==
  ASSUME IInv, Running, EndDevices
  PROVE  IInv'
<1>1. /\ loop' = Idle /\ loop.todo = {} /\ UNCHANGED <<managed, devVars, nodeRedcon, rebirth>>
      /\ loop.dev = "none"
  BY Zenon DEF EndDevices, IInv, LoopInv, AtDevice
<1> QED BY Zenon, <1>1, IdleFacts, BetweenRounds

\* A publish that succeeds was delivered, and only over a connection that is up.
LEMMA OutcomesFacts ==
  ASSUME NEW link, NEW out \in Outcomes(link)
  PROVE  /\ out.ok \in BOOLEAN /\ out.delivered \in BOOLEAN
         /\ out.ok => out.delivered
         /\ out.delivered => link = "up"
<1> DEFINE Out(o, w) == [ok |-> o, delivered |-> w]
<1>1. \A o, w \in BOOLEAN : Out(o, w).ok = o /\ Out(o, w).delivered = w
  OBVIOUS
<1>2. \/ link = "up" /\ (out = Out(TRUE, TRUE) \/ out = Out(FALSE, TRUE))
      \/ out = Out(FALSE, FALSE)
  BY Zenon DEF Outcomes
<1> HIDE DEF Out
<1> QED BY Zenon, <1>1, <1>2

\* After the NBIRTH every device is due again: nothing is claimed of fresh until
\* the next round starts.
LEMMA NodeOnlineStep ==
  ASSUME IInv, Running, NodeOnline
  PROVE  IInv'
<1>1. PICK out \in Outcomes(node.link) :
        /\ rebirth' = (rebirth \/ out.ok)
        /\ loop' = IF out.ok THEN [loop EXCEPT !.pc = "check"] ELSE Idle
        /\ fresh' = IF out.ok THEN [d \in Devices |-> FALSE] ELSE fresh
  BY Zenon DEF NodeOnline
<1>2. loop.pc = "online" /\ UNCHANGED <<managed, want, pub, mqtt, reconnect, will, seen, nodeRedcon>>
  BY Zenon DEF NodeOnline
<1>3. out.ok \in BOOLEAN /\ rebirth \in BOOLEAN
  BY Zenon, OutcomesFacts DEF IInv, LoopTypes
<1>4. loop \in Loop /\ loop.dev = "none" /\ loop.todo = {}
  BY Zenon, <1>2 DEF IInv, LoopTypes, LoopInv, AtDevice
<1>5. CASE ~out.ok
  <2>1. loop' = Idle /\ rebirth' = rebirth /\ fresh' = fresh
    BY Zenon, <1>1, <1>3, <1>5
  <2> QED BY Zenon, <1>2, <1>4, <2>1, IdleFacts, BetweenRounds DEF devVars
<1>6. CASE out.ok
  <2>1. /\ loop' = [loop EXCEPT !.pc = "check"] /\ rebirth' = TRUE
        /\ fresh' = [d \in Devices |-> FALSE]
    BY Zenon, <1>1, <1>3, <1>6
  <2>2. loop' \in Loop /\ loop'.pc = "check" /\ loop'.dev = "none" /\ loop'.todo = {}
    BY Zenon, <1>4, <2>1 DEF Loop, LoopPC
  <2>3. DeviceTypes' /\ LoopTypes' /\ LoopInv'
    BY Zenon, <1>2, <2>1, <2>2 DEF IInv, DeviceTypes, LoopTypes, LoopInv, AtDevice
  <2>4. ASSUME NEW e \in Devices PROVE DevInv(e)'
    <3>1. DevInv(e) /\ e # "none"
      BY Zenon, BoundsAssumption DEF IInv
    <3> QED BY Zenon, <1>2, <1>4, <2>1, <2>2, <3>1
      DEF DevInv, SessionInv, BusyInv, FreshInv, SeenOf, DeadOf, BuriedOf, Settled, Running, Signalled
  <2> QED BY Zenon, <2>3, <2>4 DEF IInv
<1> QED BY Zenon, <1>3, <1>5, <1>6

\* The round ends with a node that is only commandable, or every device is due.
LEMMA CheckRedconStep ==
  ASSUME IInv, Running, CheckRedcon
  PROVE  IInv'
<1>1. loop.pc = "check" /\ UNCHANGED <<managed, devVars, nodeRedcon>>
  BY Zenon DEF CheckRedcon
<1>2. loop \in Loop /\ loop.dev = "none" /\ loop.todo = {} /\ rebirth \in BOOLEAN
      /\ managed \in SUBSET Devices
  BY Zenon, <1>1 DEF IInv, LoopTypes, LoopInv, AtDevice
<1>3. CASE nodeRedcon = 4
  <2>1. loop' = Idle /\ rebirth' = rebirth
    BY Zenon, <1>3 DEF CheckRedcon
  <2> QED BY Zenon, <1>1, <1>2, <2>1, IdleFacts, BetweenRounds
<1>4. CASE nodeRedcon # 4
  <2> DEFINE l == [loop EXCEPT !.pc = "next"]
             m == [l EXCEPT !.todo = managed]
  <2>1. loop' = [m EXCEPT !.all = rebirth] /\ rebirth' = FALSE
    BY Zenon, <1>4 DEF CheckRedcon
  <2>2. l \in Loop /\ l.pc = "next" /\ l.dev = "none"
    BY Zenon, <1>2 DEF Loop, LoopPC
  <2> HIDE DEF l
  <2>3. m \in Loop /\ m.pc = "next" /\ m.dev = "none" /\ m.todo = managed
    BY Zenon, <1>2, <2>2 DEF Loop
  <2> HIDE DEF m
  <2>4. /\ loop' \in Loop /\ loop'.pc = "next" /\ loop'.dev = "none"
        /\ loop'.todo = managed /\ loop'.all = rebirth
    BY Zenon, <1>2, <2>1, <2>3 DEF Loop
  <2>5. DeviceTypes' /\ LoopTypes' /\ LoopInv'
    BY Zenon, <1>1, <2>1, <2>4 DEF IInv, DeviceTypes, LoopTypes, LoopInv, AtDevice, devVars
  <2>6. ASSUME NEW e \in Devices PROVE DevInv(e)'
    <3>1. DevInv(e) /\ e # "none"
      BY Zenon, BoundsAssumption DEF IInv
    <3>2. (SessionInv(e) /\ BusyInv(e) /\ SeenOf(e) /\ DeadOf(e) /\ BuriedOf(e))'
      BY Zenon, <1>1, <1>2, <2>4, <3>1
        DEF DevInv, SessionInv, BusyInv, SeenOf, DeadOf, BuriedOf, Settled, Running, Signalled, devVars
    <3>3. FreshInv(e)'
      BY Zenon, <1>1, <1>2, <2>1, <2>4, <3>1 DEF DevInv, FreshInv, Running, devVars
    <3> QED BY Zenon, <3>2, <3>3 DEF DevInv
  <2> QED BY Zenon, <2>5, <2>6 DEF IInv
<1> QED BY Zenon, <1>3, <1>4

\* A step of the loop at one device, or to it, or away from it.
LEMMA VisitStep ==
  ASSUME IInv, Running, NEW d \in Devices, DeviceTypes', loop' \in Loop, LoopInv', DevInv(d)',
         managed' = managed, rebirth' = rebirth, nodeRedcon' = nodeRedcon,
         Running', loop.dev \in {d, "none"}, loop'.dev \in {d, "none"}, loop'.all = loop.all,
         loop.todo \ {d} = loop'.todo \ {d},
         \A e \in Devices \ {d} : Same(e)
  PROVE  IInv'
<1>1. LoopTypes'
  BY Zenon DEF IInv, LoopTypes
<1>2. ASSUME NEW e \in Devices PROVE DevInv(e)'
  <2>1. CASE e = d
    BY Zenon, <2>1
  <2>2. CASE e # d
    <3>1. DevInv(e) /\ Same(e) /\ Elsewhere(e)
      BY <2>2, BoundsAssumption DEF IInv, Elsewhere
    <3> QED BY Zenon, <3>1, FrameElsewhere
  <2> QED BY Zenon, <2>1, <2>2
<1> QED BY Zenon, <1>1, <1>2 DEF IInv

\* DecidePublication: what each answer says of the publication it was asked about.
LEMMA KindFacts ==
  ASSUME NEW p \in Publication, NEW v \in Reports \cup {"off"}
  PROVE  /\ Kind(p, v) \in Kinds
         /\ Kind(p, v) = "none" => \/ v = "off" /\ ~p.born /\ p.unavailable
                                   \/ v # "off" /\ p.born /\ p.last = v
         /\ Kind(p, v) = "death" => v = "off"
         /\ Kind(p, v) \in {"birth", "data"} => v # "off"
         /\ Kind(p, v) = "data" => p.born
BY Zenon DEF Kind, Kinds

\* What is noted of a device once its report was published.
LEMMA DecidedFacts ==
  ASSUME NEW v \in Reports \cup {"off"}
  PROVE  /\ Decided(v) \in Publication
         /\ Decided(v).born = (v # "off") /\ Decided(v).unavailable = (v = "off")
         /\ v # "off" => Decided(v).last = v
<1>1. CASE v = "off"
  BY Zenon, <1>1 DEF Decided, Publication
<1>2. CASE v # "off"
  BY Zenon, <1>2 DEF Decided, Publication
<1> QED BY Zenon, <1>1, <1>2

\* Nothing is noted of a device that was not born.
LEMMA UnpublishedFacts ==
  /\ Unpublished \in Publication /\ Unpublished.born = FALSE /\ Unpublished.unavailable = FALSE
BY Zenon DEF Unpublished, Publication

\* Away from a device that counts as nothing: all that is left is its session.
LEMMA Forgotten ==
  ASSUME NEW d \in Devices, DevInv(d), LoopInv', loop'.dev # d, ~pub'[d].born, ~pub'[d].unavailable,
         SessionInv(d)'
  PROVE  DevInv(d)'
BY Zenon DEF DevInv, BusyInv, FreshInv, SeenOf, DeadOf, BuriedOf

\* The device as the decision finds it: settled, and if the decision starts it
\* over, its session exists.
LEMMA DecideFacts ==
  ASSUME IInv, Running, NEW d \in Devices, loop.pc = "next", d \in loop.todo,
         NEW p, p = IF Due(d) THEN Unpublished ELSE pub[d]
  PROVE  /\ p \in Publication /\ want[d] \in Reports \cup {"off"}
         /\ loop.dev = "none" /\ d \in managed /\ Settled(d) /\ DevInv(d)
         /\ p.born => p = pub[d] /\ mqtt[d] # "nil"
                      /\ ~loop.all /\ ~reconnect[d].pending
         /\ p.unavailable => p = pub[d]
<1>1. pub[d] \in Publication /\ want[d] \in Reports \cup {"off"}
  BY Zenon DEF IInv, DeviceTypes
<1>2. loop.dev = "none" /\ d \in managed /\ DevInv(d)
  BY Zenon DEF IInv, LoopInv, AtDevice
<1>3. Settled(d)
  BY Zenon, <1>2, BoundsAssumption DEF Settled
<1>4. CASE Due(d)
  BY Zenon, <1>1, <1>2, <1>3, <1>4, UnpublishedFacts
<1>5. CASE ~Due(d)
  <2>1. p = pub[d]
    BY Zenon, <1>5
  <2>2. p.born => mqtt[d] # "nil"
    BY Zenon, <1>2, <1>3, <2>1 DEF DevInv, SeenOf
  <2>3. mqtt[d] # "nil" => ~loop.all /\ ~reconnect[d].pending
    BY Zenon, <1>5 DEF Due
  <2> QED BY Zenon, <1>1, <1>2, <1>3, <2>1, <2>2, <2>3
<1> QED BY Zenon, <1>4, <1>5

\* The decision either finds that the broker has it all, or forgets the device,
\* or leaves the loop at the device with what it still has to say.
LEMMA DecideDeviceStep ==
  ASSUME IInv, Running, NEW d \in Devices, DecideDevice(d)
  PROVE  IInv'
<1> DEFINE p == IF Due(d) THEN Unpublished ELSE pub[d]
           k == Kind(p, want[d])
           dropped == k = "data" /\ mqtt[d] = "nil"
           t == loop.todo \ {d}
           r == [reconnect[d] EXCEPT !.pending = FALSE]
           w == IF dropped THEN Unpublished ELSE Decided(want[d])
<1>1. /\ loop.pc = "next" /\ d \in loop.todo
      /\ UNCHANGED <<managed, want, mqtt, will, seen, fresh, nodeRedcon, rebirth>>
  BY Zenon DEF DecideDevice
<1>2. reconnect' = [reconnect EXCEPT ![d] = r]
  BY Zenon DEF DecideDevice
<1>3. pub' = [pub EXCEPT ![d] = w]
  BY Zenon DEF DecideDevice
<1>4. k = "none" \/ dropped => loop' = [loop EXCEPT !.todo = t]
  BY Zenon DEF DecideDevice
<1>5. ~(k = "none" \/ dropped) =>
        loop' = [loop EXCEPT !.todo = t, !.dev = d, !.kind = k,
                   !.pc = IF k = "data" THEN "publish" ELSE "connect",
                   !.report = IF k = "death" THEN "none" ELSE want[d]]
  BY Zenon DEF DecideDevice
<1>6. /\ p \in Publication /\ want[d] \in Reports \cup {"off"}
      /\ loop.dev = "none" /\ d \in managed /\ Settled(d) /\ DevInv(d)
      /\ p.born => p = pub[d] /\ mqtt[d] # "nil" /\ ~loop.all /\ ~reconnect[d].pending
      /\ p.unavailable => p = pub[d]
  BY Zenon, <1>1, DecideFacts
<1> HIDE DEF p
<1>7. /\ k \in Kinds
      /\ k = "none" => \/ want[d] = "off" /\ ~p.born /\ p.unavailable
                       \/ want[d] # "off" /\ p.born /\ p.last = want[d]
      /\ k = "death" => want[d] = "off"
      /\ k \in {"birth", "data"} => want[d] # "off"
      /\ k = "data" => p.born
  BY Zenon, <1>6, KindFacts
<1> HIDE DEF k
<1>8. /\ w \in Publication
      /\ dropped => ~w.born /\ ~w.unavailable
      /\ ~dropped => /\ w.born = (want[d] # "off") /\ w.unavailable = (want[d] = "off")
                     /\ want[d] # "off" => w.last = want[d]
  BY Zenon, <1>6, UnpublishedFacts, DecidedFacts
<1> HIDE DEF w
<1>9. r \in Session /\ ~r.pending /\ r.connected = reconnect[d].connected
      /\ r.callbacks = reconnect[d].callbacks
  BY Zenon DEF IInv, DeviceTypes, Session
<1> HIDE DEF r
<1>10. DeviceTypes' /\ pub'[d] = w /\ reconnect'[d] = r
  BY Zenon, <1>1, <1>2, <1>3, <1>8, <1>9 DEF IInv, DeviceTypes
<1>11. ASSUME NEW e \in Devices \ {d} PROVE Same(e)
  BY Zenon, <1>1, <1>2, <1>3 DEF IInv, DeviceTypes, Same
<1>12. loop \in Loop /\ t \in SUBSET Devices /\ t \subseteq managed /\ t \ {d} = loop.todo \ {d}
  BY Zenon, <1>1 DEF IInv, LoopTypes, LoopInv, Loop
<1> HIDE DEF t
<1>13. SessionInv(d)'
  <2>1. w.born => w.last \in Reports
    BY Zenon, <1>6, <1>8
  <2> QED BY Zenon, <1>1, <1>6, <1>9, <1>10, <2>1 DEF DevInv, SessionInv
<1>14. CASE k = "none" \/ dropped
  <2>1. /\ loop' \in Loop /\ loop'.todo = t /\ loop'.pc = "next" /\ loop'.dev = "none"
        /\ loop'.all = loop.all
    BY Zenon, <1>1, <1>4, <1>6, <1>12, <1>14 DEF Loop
  <2>2. LoopInv' /\ Running'
    BY Zenon, <1>1, <1>12, <2>1 DEF LoopInv, AtDevice, Running
  <2>3. DevInv(d)'
    <3>1. CASE dropped
      BY Zenon, <1>6, <1>8, <1>10, <1>13, <2>1, <2>2, <3>1, BoundsAssumption, Forgotten
    <3>2. CASE ~dropped /\ k = "none"
      <4>1. (w.born <=> p.born) /\ (w.unavailable => p.unavailable) /\ (w.born => w.last = p.last)
        BY Zenon, <1>7, <1>8, <3>2
      <4>2. (BusyInv(d) /\ FreshInv(d) /\ BuriedOf(d))'
        BY Zenon, <1>1, <1>6, <1>10, <2>1, <4>1, BoundsAssumption
          DEF DevInv, BusyInv, FreshInv, BuriedOf, Settled
      <4>3. DeadOf(d)'
        BY Zenon, <1>1, <1>6, <1>10, <4>1 DEF DevInv, DeadOf
      <4>4. SeenOf(d)'
        BY Zenon, <1>1, <1>6, <1>9, <1>10, <4>1 DEF DevInv, SeenOf, Signalled
      <4> QED BY Zenon, <1>13, <4>2, <4>3, <4>4 DEF DevInv
    <3> QED BY Zenon, <1>14, <3>1, <3>2
  <2> QED BY Zenon, <1>1, <1>6, <1>10, <1>11, <1>12, <2>1, <2>2, <2>3, VisitStep
<1>15. CASE ~(k = "none" \/ dropped)
  <2> DEFINE c == IF k = "data" THEN "publish" ELSE "connect"
             m == IF k = "death" THEN "none" ELSE want[d]
  <2>1. c \in {"publish", "connect"} /\ m \in Reports \cup {"none"}
    BY Zenon, <1>6, <1>7, <1>15 DEF Kinds
  <2>2. /\ want[d] # "off" => k \in {"birth", "data"} /\ m = want[d]
        /\ want[d] = "off" => k = "death"
    BY Zenon, <1>7, <1>15 DEF Kinds
  <2>3. loop' = [loop EXCEPT !.todo = t, !.dev = d, !.kind = k, !.pc = c, !.report = m]
    BY Zenon, <1>5, <1>15
  <2> HIDE DEF c, m
  <2>4. /\ loop' \in Loop /\ loop'.todo = t /\ loop'.pc = c /\ loop'.dev = d /\ loop'.kind = k
        /\ loop'.report = m /\ loop'.all = loop.all
    BY Zenon, <1>7, <1>12, <2>1, <2>3 DEF Loop, LoopPC
  <2>5. LoopInv' /\ Running'
    BY Zenon, <1>1, <1>12, <2>1, <2>4, BoundsAssumption DEF LoopInv, AtDevice, Running
  <2>6. BusyInv(d)'
    BY Zenon, <1>8, <1>10, <1>15, <2>1, <2>2, <2>4 DEF BusyInv
  <2>7. FreshInv(d)'
    BY Zenon, <1>1, <1>6, <1>7, <1>8, <1>10, <1>15, <2>2, <2>4, BoundsAssumption
      DEF DevInv, FreshInv, Settled
  <2>8. (SeenOf(d) /\ DeadOf(d) /\ BuriedOf(d))'
    BY Zenon, <2>1, <2>4 DEF SeenOf, DeadOf, BuriedOf, Settled
  <2>9. DevInv(d)'
    BY Zenon, <1>13, <2>6, <2>7, <2>8 DEF DevInv
  <2> QED BY Zenon, <1>1, <1>6, <1>10, <1>11, <1>12, <2>4, <2>5, <2>9, VisitStep
<1> QED BY Zenon, <1>14, <1>15

\* The loop when it is done with a device.
LEMMA NextDeviceFacts ==
  ASSUME loop \in Loop
  PROVE  /\ NextDevice \in Loop /\ NextDevice.pc = "next" /\ NextDevice.dev = "none"
         /\ NextDevice.todo = loop.todo /\ NextDevice.all = loop.all
BY Zenon DEF NextDevice, Loop, LoopPC, Kinds

\* The device the loop is at.
LEMMA BusyFacts ==
  ASSUME IInv, loop.pc \in AtDevice
  PROVE  /\ loop.dev \in Devices /\ DevInv(loop.dev) /\ loop \in Loop
         /\ loop.todo \subseteq managed /\ (loop.pc = "disconnect" => loop.kind = "death")
<1>1. loop \in Loop /\ loop.dev # "none"
  BY Zenon DEF IInv, LoopTypes, LoopInv
<1>2. loop.dev \in Devices
  BY Zenon, <1>1 DEF Loop
<1> QED BY Zenon, <1>1, <1>2 DEF IInv, LoopInv, AtDevice

\* The session of the device is there, or is opened with its will.
LEMMA EnsureSessionStep ==
  ASSUME IInv, Running, EnsureSession
  PROVE  IInv'
<1>1. /\ loop.pc = "connect"
      /\ UNCHANGED <<managed, want, will, seen, fresh, nodeRedcon, rebirth>>
  BY Zenon DEF EnsureSession
<1>2. PICK d \in Devices :
        d = loop.dev /\ DevInv(d) /\ loop \in Loop /\ loop.todo \subseteq managed
  BY Zenon, <1>1, BusyFacts DEF AtDevice
<1>3. ASSUME ~pub'[d].born \/ pub'[d] = pub[d], ~pub'[d].unavailable \/ pub'[d] = pub[d],
             SessionInv(d)', loop' = [loop EXCEPT !.pc = "publish"],
             DeviceTypes', \A e \in Devices \ {d} : Same(e)
      PROVE  IInv'
  <2>1. /\ loop' \in Loop /\ loop'.pc = "publish" /\ loop'.dev = d /\ loop'.kind = loop.kind
        /\ loop'.report = loop.report /\ loop'.todo = loop.todo /\ loop'.all = loop.all
    BY Zenon, <1>2, <1>3 DEF Loop, LoopPC
  <2>2. LoopInv' /\ Running'
    BY Zenon, <1>1, <1>2, <2>1, BoundsAssumption DEF LoopInv, AtDevice, Running
  <2>3. (BusyInv(d) /\ FreshInv(d))'
    BY Zenon, <1>1, <1>2, <1>3, <2>1 DEF DevInv, BusyInv, FreshInv, Running
  <2>4. (SeenOf(d) /\ DeadOf(d) /\ BuriedOf(d))'
    BY Zenon, <2>1 DEF SeenOf, DeadOf, BuriedOf, Settled
  <2>5. DevInv(d)'
    BY Zenon, <1>3, <2>3, <2>4 DEF DevInv
  <2> QED BY Zenon, <1>1, <1>2, <1>3, <2>1, <2>2, <2>5, VisitStep
<1>4. ASSUME mqtt[d] # "nil", loop' = [loop EXCEPT !.pc = "publish"],
             UNCHANGED <<pub, mqtt, reconnect>>
      PROVE  IInv'
  <2>1. DeviceTypes' /\ \A e \in Devices \ {d} : Same(e)
    BY Zenon, <1>1, <1>4 DEF IInv, DeviceTypes, Same
  <2>2. SessionInv(d)'
    BY Zenon, <1>1, <1>2, <1>4 DEF DevInv, SessionInv
  <2> QED BY Zenon, <1>3, <1>4, <2>1, <2>2
<1>5. ASSUME mqtt[d] = "nil", ~will[d], mqtt' = [mqtt EXCEPT ![d] = "up"],
             reconnect' = [reconnect EXCEPT ![d] = Connected],
             loop' = [loop EXCEPT !.pc = "publish"], pub' = pub
      PROVE  IInv'
  <2>1. Connected \in Session /\ Connected.callbacks = 1
    BY Zenon DEF Connected, Quiet, Session
  <2>2. /\ DeviceTypes' /\ \A e \in Devices \ {d} : Same(e)
        /\ mqtt'[d] = "up" /\ reconnect'[d] = Connected
    BY Zenon, <1>1, <1>2, <1>5, <2>1 DEF IInv, DeviceTypes, Same
  <2>3. SessionInv(d)'
    BY <1>1, <1>2, <1>5, <2>1, <2>2 DEF DevInv, SessionInv
  <2> QED BY Zenon, <1>3, <1>5, <2>2, <2>3
<1>6. ASSUME pub' = [pub EXCEPT ![d] = Unpublished], loop' = NextDevice,
             UNCHANGED <<mqtt, reconnect>>
      PROVE  IInv'
  <2>1. /\ DeviceTypes' /\ \A e \in Devices \ {d} : Same(e)
        /\ ~pub'[d].born /\ ~pub'[d].unavailable
    BY Zenon, <1>1, <1>2, <1>6, UnpublishedFacts DEF IInv, DeviceTypes, Same
  <2>2. LoopInv' /\ Running'
    BY Zenon, <1>1, <1>2, <1>6, NextDeviceFacts DEF LoopInv, AtDevice, Running
  <2>3. SessionInv(d)'
    BY Zenon, <1>1, <1>2, <1>6, <2>1 DEF DevInv, SessionInv
  <2>4. DevInv(d)'
    BY Zenon, <1>2, <1>6, <2>1, <2>2, <2>3, NextDeviceFacts, BoundsAssumption, Forgotten
  <2> QED BY Zenon, <1>1, <1>2, <1>6, <2>1, <2>2, <2>4, NextDeviceFacts, VisitStep
<1> QED BY Zenon, <1>2, <1>4, <1>5, <1>6 DEF EnsureSession

\* A publication that succeeded told the broker what the device counts as; one
\* that failed makes the device count as nothing.
LEMMA PublishDeviceStep ==
  ASSUME IInv, Running, PublishDevice
  PROVE  IInv'
<1>1. /\ loop.pc = "publish"
      /\ UNCHANGED <<managed, want, mqtt, reconnect, will, nodeRedcon, rebirth>>
  BY Zenon DEF PublishDevice
<1>2. PICK d \in Devices :
        d = loop.dev /\ DevInv(d) /\ loop \in Loop /\ loop.todo \subseteq managed
  BY Zenon, <1>1, BusyFacts DEF AtDevice
<1>3. PICK out \in Outcomes(mqtt[d]) :
        /\ AfterPublish(d, out.ok)
        /\ seen' = [seen EXCEPT ![d] = IF ~out.delivered THEN seen[d]
                                       ELSE IF loop.kind = "death" THEN "dead" ELSE loop.report]
        /\ fresh' = [fresh EXCEPT ![d] = fresh[d] \/ (out.delivered /\ loop.kind = "birth")]
        /\ loop' = IF out.ok /\ loop.kind = "death" THEN [loop EXCEPT !.pc = "disconnect"]
                                                    ELSE NextDevice
  BY Zenon, <1>2 DEF PublishDevice
<1>4. out.ok \in BOOLEAN /\ out.delivered \in BOOLEAN
      /\ (out.ok => out.delivered) /\ (out.delivered => mqtt[d] = "up")
  BY OutcomesFacts
<1> DEFINE s == IF ~out.delivered THEN seen[d]
                ELSE IF loop.kind = "death" THEN "dead" ELSE loop.report
           f == fresh[d] \/ (out.delivered /\ loop.kind = "birth")
<1>5. /\ s \in Reports \cup {"none", "dead", "mixed", "stray"} /\ f \in BOOLEAN
      /\ mqtt[d] = "down" => s = seen[d]
      /\ out.ok => s = IF loop.kind = "death" THEN "dead" ELSE loop.report
      /\ fresh[d] \/ (out.ok /\ loop.kind = "birth") => f
  <2>1. seen[d] \in Reports \cup {"none", "dead", "mixed", "stray"}
    BY Zenon DEF IInv, DeviceTypes
  <2>2. loop.report \in Reports \cup {"none"}
    BY Zenon, <1>2 DEF Loop
  <2>3. mqtt[d] = "down" => ~out.delivered
    BY Zenon, <1>4
  <2> QED BY Zenon, <1>4, <2>1, <2>2, <2>3
<1>6. seen' = [seen EXCEPT ![d] = s] /\ fresh' = [fresh EXCEPT ![d] = f]
  BY Zenon, <1>3
<1> HIDE DEF s, f
<1>7. /\ \A e \in Devices \ {d} : Same(e)
      /\ DeviceTypes' /\ seen'[d] = s /\ fresh'[d] = f
      /\ IF out.ok THEN pub' = pub ELSE ~pub'[d].born /\ ~pub'[d].unavailable
  <2>1. CASE out.ok
    <3>1. pub' = pub
      BY Zenon, <1>3, <2>1 DEF AfterPublish
    <3> QED BY Zenon, <1>1, <1>5, <1>6, <2>1, <3>1 DEF IInv, DeviceTypes, Same
  <2>2. CASE ~out.ok
    <3>1. pub' = [pub EXCEPT ![d] = Unpublished]
      BY Zenon, <1>3, <2>2 DEF AfterPublish
    <3> QED BY Zenon, <1>1, <1>5, <1>6, <2>2, <3>1, UnpublishedFacts DEF IInv, DeviceTypes, Same
  <2> QED BY Zenon, <1>4, <2>1, <2>2
<1>8. SessionInv(d)'
  BY Zenon, <1>1, <1>2, <1>5, <1>7 DEF DevInv, SessionInv
<1>9. CASE out.ok /\ loop.kind = "death"
  <2>1. loop' = [loop EXCEPT !.pc = "disconnect"]
    BY Zenon, <1>3, <1>9
  <2>2. /\ loop' \in Loop /\ loop'.pc = "disconnect" /\ loop'.dev = d /\ loop'.kind = "death"
        /\ loop'.report = loop.report /\ loop'.todo = loop.todo /\ loop'.all = loop.all
    BY Zenon, <1>2, <1>9, <2>1 DEF Loop, LoopPC
  <2>3. LoopInv' /\ Running'
    BY Zenon, <1>1, <1>2, <2>2, BoundsAssumption DEF LoopInv, AtDevice, Running
  <2>4. BusyInv(d)'
    BY Zenon, <1>2, <1>5, <1>7, <1>9, <2>2 DEF DevInv, BusyInv
  <2>5. (FreshInv(d) /\ SeenOf(d) /\ DeadOf(d) /\ BuriedOf(d))'
    BY Zenon, <1>2, <1>7, <1>9, <2>2 DEF DevInv, BusyInv, FreshInv, SeenOf, DeadOf, BuriedOf, Settled
  <2>6. DevInv(d)'
    BY Zenon, <1>8, <2>4, <2>5 DEF DevInv
  <2> QED BY Zenon, <1>1, <1>2, <1>7, <2>2, <2>3, <2>6, VisitStep
<1>10. CASE ~(out.ok /\ loop.kind = "death")
  <2>1. /\ loop' \in Loop /\ loop'.pc = "next" /\ loop'.dev = "none"
        /\ loop'.todo = loop.todo /\ loop'.all = loop.all
    BY Zenon, <1>2, <1>3, <1>10, NextDeviceFacts
  <2>2. LoopInv' /\ Running'
    BY Zenon, <1>1, <1>2, <2>1 DEF LoopInv, AtDevice, Running
  <2>3. DevInv(d)'
    <3>1. CASE ~out.ok
      BY Zenon, <1>2, <1>7, <1>8, <2>1, <2>2, <3>1, BoundsAssumption, Forgotten
    <3>2. CASE out.ok /\ loop.kind # "death"
      <4>1. /\ s = loop.report /\ pub' = pub /\ ~pub[d].unavailable /\ mqtt[d] = "up"
            /\ pub[d].born => loop.kind \in {"birth", "data"} /\ loop.report = pub[d].last
        BY Zenon, <1>2, <1>4, <1>5, <1>7, <3>2 DEF DevInv, BusyInv
      <4>2. FreshInv(d)'
        BY Zenon, <1>1, <1>2, <1>5, <1>7, <2>1, <3>2, <4>1 DEF DevInv, FreshInv, Running
      <4>3. (BusyInv(d) /\ SeenOf(d) /\ DeadOf(d) /\ BuriedOf(d))'
        BY Zenon, <1>1, <1>7, <2>1, <4>1, BoundsAssumption DEF BusyInv, SeenOf, DeadOf, BuriedOf
      <4> QED BY Zenon, <1>8, <4>2, <4>3 DEF DevInv
    <3> QED BY Zenon, <1>4, <1>10, <3>1, <3>2
  <2> QED BY Zenon, <1>1, <1>2, <1>7, <2>1, <2>2, <2>3, VisitStep
<1> QED BY Zenon, <1>9, <1>10

\* The session goes only after the DDEATH was acknowledged.
LEMMA DisconnectDeviceStep ==
  ASSUME IInv, Running, DisconnectDevice
  PROVE  IInv'
<1>1. /\ loop.pc = "disconnect" /\ loop' = NextDevice
      /\ UNCHANGED <<managed, want, pub, will, seen, fresh, nodeRedcon, rebirth>>
  BY Zenon DEF DisconnectDevice
<1>2. PICK d \in Devices :
        /\ d = loop.dev /\ DevInv(d) /\ loop \in Loop /\ loop.todo \subseteq managed
        /\ loop.kind = "death"
  BY Zenon, <1>1, BusyFacts DEF AtDevice
<1>3. mqtt' = [mqtt EXCEPT ![d] = "nil"] /\ reconnect' = [reconnect EXCEPT ![d] = Quiet]
  BY Zenon, <1>2 DEF DisconnectDevice
<1>4. DeviceTypes' /\ mqtt'[d] = "nil" /\ \A e \in Devices \ {d} : Same(e)
  BY Zenon, <1>1, <1>3 DEF IInv, DeviceTypes, Session, Quiet, Same
<1>5. /\ loop' \in Loop /\ loop'.pc = "next" /\ loop'.dev = "none"
      /\ loop'.todo = loop.todo /\ loop'.all = loop.all
  BY Zenon, <1>1, <1>2, NextDeviceFacts
<1>6. LoopInv' /\ Running'
  BY Zenon, <1>1, <1>2, <1>5 DEF LoopInv, AtDevice, Running
<1>7. ~pub[d].born /\ seen[d] = "dead"
  BY Zenon, <1>1, <1>2 DEF DevInv, BusyInv
<1>8. DevInv(d)'
  BY Zenon, <1>1, <1>2, <1>4, <1>5, <1>7, BoundsAssumption
    DEF DevInv, SessionInv, BusyInv, FreshInv, SeenOf, DeadOf, BuriedOf
<1> QED BY Zenon, <1>1, <1>2, <1>4, <1>5, <1>6, <1>8, VisitStep

\* Every device that counts as born has a session: its DDEATH is sent, or failed,
\* or is left to the will of a session that is down.
LEMMA GracefulShutdownStep ==
  ASSUME IInv, Running, GracefulShutdown
  PROVE  IInv'
<1>1. PICK failed \in SUBSET {d \in Devices : mqtt[d] = "up"} :
        /\ seen' = Buried(failed)
        /\ loop' = [Idle EXCEPT !.pc = "stopped", !.todo = failed]
  BY Zenon DEF GracefulShutdown
<1>2. /\ loop.pc = "idle"
      /\ mqtt' = [d \in Devices |-> "nil"] /\ reconnect' = [d \in Devices |-> Quiet]
      /\ UNCHANGED <<managed, want, pub, will, fresh, nodeRedcon, rebirth>>
  BY Zenon DEF GracefulShutdown
<1>3. DeviceTypes'
  <2>1. seen' \in [Devices -> Reports \cup {"none", "dead", "mixed", "stray"}]
    BY Zenon, <1>1 DEF Buried, IInv, DeviceTypes
  <2> QED BY Zenon, <1>2, <2>1 DEF IInv, DeviceTypes, Session, Quiet
<1>4. loop' \in Loop /\ loop'.pc = "stopped" /\ loop'.dev = "none" /\ loop'.todo = failed
  BY Zenon, <1>1 DEF Idle, Loop, LoopPC, Kinds
<1>5. LoopTypes' /\ LoopInv'
  BY Zenon, <1>2, <1>4 DEF IInv, LoopTypes, LoopInv, AtDevice
<1>6. ASSUME NEW e \in Devices PROVE DevInv(e)'
  <2>1. DevInv(e) /\ e # "none" /\ loop.dev = "none"
    BY Zenon, <1>2, BoundsAssumption DEF IInv, LoopInv, AtDevice
  <2>2. mqtt[e] \in {"nil", "up", "down", "closed"}
    BY Zenon DEF IInv, DeviceTypes
  <2>3. /\ mqtt[e] = "up" /\ e \notin failed => seen'[e] = "dead"
        /\ mqtt[e] # "up" => seen'[e] = seen[e]
    BY Zenon, <1>1 DEF Buried
  <2>4. BuriedOf(e)'
    <3> SUFFICES ASSUME e \in managed \ failed, pub[e].born
                 PROVE  will[e] \/ seen'[e] = "dead"
      BY Zenon, <1>2, <1>4 DEF BuriedOf
    <3>1. mqtt[e] \in {"up", "down"}
      BY Zenon, <2>1, <2>2 DEF DevInv, SessionInv, SeenOf, Settled
    <3> QED BY Zenon, <2>1, <2>3, <3>1 DEF DevInv, SessionInv
  <2>5. (SessionInv(e) /\ BusyInv(e) /\ FreshInv(e) /\ SeenOf(e) /\ DeadOf(e))'
    BY Zenon, <1>2, <1>4, <2>1
      DEF DevInv, SessionInv, BusyInv, FreshInv, SeenOf, DeadOf, Settled, Running
  <2> QED BY Zenon, <2>4, <2>5 DEF DevInv
<1> QED BY Zenon, <1>3, <1>5, <1>6 DEF IInv

-----------------------------------------------------------------------------
(* The theorems.                                                           *)

\* The manager starts without sessions.
LEMMA InitIInv == Init => IInv
<1> SUFFICES ASSUME Init PROVE IInv
  OBVIOUS
<1>1. DeviceTypes
  BY Zenon, UnpublishedFacts DEF Init, DeviceTypes, Session, Quiet
<1>2. LoopTypes /\ LoopInv
  BY Zenon, IdleFacts DEF Init, LoopTypes, LoopInv, AtDevice
<1>3. ASSUME NEW e \in Devices PROVE DevInv(e)
  BY Zenon, IdleFacts, UnpublishedFacts, BoundsAssumption
    DEF Init, DevInv, SessionInv, BusyInv, FreshInv, SeenOf, DeadOf, BuriedOf
<1> QED BY Zenon, <1>1, <1>2, <1>3 DEF IInv

\* Every step of a round.
LEMMA PublishDeviceStateStep ==
  ASSUME IInv, Running, PublishDeviceState
  PROVE  IInv'
<1>1. ASSUME PublishNil PROVE IInv'
  <2>1. loop' = [Idle EXCEPT !.pc = "crashed"] /\ UNCHANGED <<managed, devVars, nodeRedcon, rebirth>>
    BY Zenon, <1>1 DEF PublishNil
  <2> QED BY Zenon, <2>1, CrashStep
<1> QED BY Zenon, <1>1, TickStep, NodeOnlineStep, CheckRedconStep, DecideDeviceStep, EndDevicesStep,
           EnsureSessionStep, PublishDeviceStep, DisconnectDeviceStep DEF PublishDeviceState

\* Every step of a command to the node.
LEMMA HandleNodeCommandStep ==
  ASSUME IInv, Running, HandleNodeCommand
  PROVE  IInv'
<1>1. nodeRedcon \in {1, 4}
  BY Zenon DEF IInv, LoopTypes
<1>2. ASSUME ReceiveNcmd \/ EnterCommandable \/ EnterActive \/ NodeBirth PROVE IInv'
  <2>1. UNCHANGED <<managed, devVars, rebirth, loop>> /\ nodeRedcon' \in {nodeRedcon, 1, 4}
    BY Zenon, <1>2 DEF ReceiveNcmd, EnterCommandable, EnterActive, NodeBirth
  <2> QED BY Zenon, <1>1, <2>1, NoDevice
<1> QED BY Zenon, <1>2, TeardownStep, RefreshByCallbackStep DEF HandleNodeCommand

\* Every step of the manager, the broker or the network preserves the invariant.
LEMMA NextIInv == IInv /\ [Next]_vars => IInv'
<1> SUFFICES ASSUME IInv, [Next]_vars PROVE IInv'
  OBVIOUS
<1>1. nodeRedcon \in {1, 4} /\ "off" \in Reports \cup {"off"}
  BY Zenon DEF IInv, LoopTypes
<1>2. ASSUME UNCHANGED vars PROVE IInv'
  BY Zenon, <1>1, <1>2, NoDevice DEF vars
<1>3. ASSUME NodeLoseConnection \/ NodeRecover PROVE IInv'
  <2>1. UNCHANGED <<managed, devVars, rebirth, loop, nodeRedcon>>
    BY Zenon, <1>3 DEF NodeLoseConnection, NodeRecover
  <2> QED BY Zenon, <1>1, <2>1, NoDevice
<1>4. ASSUME NEW d \in Devices, WillFires(d) PROVE IInv'
  BY Zenon, <1>4, WillFiresStep
<1>5. ASSUME Running, NEW d \in Devices,
             LoseConnection(d) \/ Reconnect(d) \/ Callback(d) \/ Expire(d) \/ CommandResult(d)
      PROVE  IInv'
  BY Zenon, <1>1, <1>5, LoseConnectionStep, ReconnectStep, CallbackStep, WantStep, CommandResultStep
<1>6. ASSUME NEW d \in Devices, NEW v \in Reports \cup {"off"}, ObserveState(d, v) PROVE IInv'
  BY Zenon, <1>6, WantStep
<1> QED BY Zenon, <1>2, <1>3, <1>4, <1>5, <1>6, RefreshInventoryStep, PublishDeviceStateStep,
           GracefulShutdownStep, HandleNodeCommandStep DEF Next

\* IInv holds in every reachable state of the manager, for any devices.
THEOREM Inductive == Spec => []IInv
BY InitIInv, NextIInv, PTL DEF Spec

\* Suppression is sound: a device that counts as born has a session and, but for
\* an announced reconnect, the broker's last word is what it counts as.
THEOREM SeenIsPublishedAlways == Spec => []SeenIsPublished
<1>1. IInv => SeenIsPublished
  BY Zenon DEF IInv, DevInv, SeenOf, SeenIsPublished
<1> QED BY <1>1, Inductive, PTL

\* A device that was declared unavailable is dead at the broker and has no
\* session left that could contradict it.
THEOREM DeadIsClosedAlways == Spec => []DeadIsClosed
<1>1. IInv => DeadIsClosed
  BY Zenon DEF IInv, DevInv, DeadOf, DeadIsClosed
<1> QED BY <1>1, Inductive, PTL

\* Once the loop is through, every device that counts as born was born after the
\* NBIRTH with which publishNodeOnline announced the node's last connection.
THEOREM RebornAfterReconnectAlways == Spec => []RebornAfterReconnect
<1>1. IInv => RebornAfterReconnect
  <2> SUFFICES ASSUME IInv, loop.pc = "idle", ~rebirth, NEW d \in managed, pub[d].born
               PROVE  fresh[d]
    BY Zenon DEF RebornAfterReconnect
  <2>1. d \in Devices /\ loop.todo = {} /\ loop.dev = "none"
    BY Zenon DEF IInv, LoopTypes, LoopInv, AtDevice
  <2>2. FreshInv(d)
    BY Zenon, <2>1 DEF IInv, DevInv
  <2> QED BY Zenon, <2>1, <2>2, BoundsAssumption DEF FreshInv, Running
<1> QED BY <1>1, Inductive, PTL

\* gracefulShutdown leaves no device alive that counted as born, unless its
\* DDEATH failed.
THEOREM ShutdownBuriesAlways == Spec => []ShutdownBuries
<1>1. IInv => ShutdownBuries
  BY Zenon DEF IInv, DevInv, BuriedOf, ShutdownBuries, LoopTypes
<1> QED BY <1>1, Inductive, PTL
===============================================================================
