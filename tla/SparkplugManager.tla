-------------------------- MODULE SparkplugManager --------------------------
(***************************************************************************)
(* The Sparkplug manager of a standalone rig                               *)
(* (rig/cmd/txing-sparkplug-manager/main.go): the main loop, which handles *)
(* IPC messages, inventory refreshes and the publication tick, the MQTT    *)
(* callbacks, which run beside it (connection callbacks and NCMD), and     *)
(* what the broker was last told about the node and its devices.           *)
(*                                                                         *)
(* DeviceRuntimeState is reduced to want[d], the report its snapshot calls *)
(* for, and the publication state pub[d].                                  *)
(***************************************************************************)
EXTENDS Naturals, FiniteSets

CONSTANTS
  Devices,     \* things that can be in the rig's inventory
  Reports,     \* what a DBIRTH or DDATA can say
  MaxFaults,   \* bound: lost connections and failed publications
  MaxNcmd,     \* bound: NCMDs received
  MaxResults   \* bound: command results relayed

ASSUME BoundsAssumption ==
  /\ Reports \cap {"off", "none", "dead", "mixed", "stray"} = {} /\ "none" \notin Devices
  /\ MaxFaults \in Nat /\ MaxNcmd \in Nat /\ MaxResults \in Nat

VARIABLES
  managed,     \* DOMAIN s.devices
  want,        \* evidence: the report the snapshot calls for, or "off"
  pub,         \* born, unavailablePublished and the last report of each device
  mqtt,        \* managed.mqtt: "nil", or the state of its connection
  reconnect,   \* managed.mqttReconnect, and the callbacks that did not run yet
  will,        \* the broker owes the DDEATH of a lost connection
  seen,        \* what the broker was last told of a device
  fresh,       \* history: told by a DBIRTH since publishNodeOnline last succeeded
  node,        \* the node session: connection, reconnect state, will, last word
  nodeRedcon,  \* s.nodeRedcon
  rebirth,     \* s.deviceRebirthPending
  loop,        \* the main loop: where publishDeviceState stands
  ncmd,        \* the node's message callback: where handleNodeCommand stands
  count        \* faults, NCMDs and results so far

procVars == <<managed, node, nodeRedcon, rebirth, loop, ncmd>>
devVars == <<want, pub, mqtt, reconnect, will, seen, fresh>>
vars == <<managed, devVars, node, nodeRedcon, rebirth, loop, ncmd, count>>

-----------------------------------------------------------------------------
Unpublished  == [born |-> FALSE, unavailable |-> FALSE, last |-> "none"]
Quiet        == [connected |-> FALSE, pending |-> FALSE, callbacks |-> 0]
Idle         == [pc |-> "idle", todo |-> {}, all |-> FALSE, dev |-> "none",
                 kind |-> "none", report |-> "none", redcon |-> 1]
NoCommand    == [pc |-> "idle", todo |-> {}]
Connected    == [Quiet EXCEPT !.callbacks = 1]

Callbacks    == 0..(MaxFaults + 1)
ReconnectState == [connected : BOOLEAN, pending : BOOLEAN, callbacks : Callbacks]
Kinds        == {"none", "birth", "data", "death"}
LoopPC       == {"idle", "online", "check", "next", "connect", "publish", "disconnect",
                 "crashed", "stopped"}
NcmdPC       == {"idle", "teardown", "birth4", "subscribe", "birth1", "refused", "refresh"}

TypeOK ==
  /\ managed \subseteq Devices
  /\ want \in [Devices -> Reports \cup {"off"}]
  /\ pub \in [Devices -> [born : BOOLEAN, unavailable : BOOLEAN, last : Reports \cup {"none"}]]
  /\ mqtt \in [Devices -> {"nil", "up", "down", "closed"}]
  /\ reconnect \in [Devices -> ReconnectState]
  /\ will \in [Devices -> BOOLEAN]
  /\ seen \in [Devices -> Reports \cup {"none", "dead", "mixed", "stray"}]
  /\ fresh \in [Devices -> BOOLEAN]
  /\ node \in [link : {"up", "down"}, rec : ReconnectState, will : BOOLEAN, seen : {1, 4, 5}]
  /\ nodeRedcon \in {1, 4} /\ rebirth \in BOOLEAN
  /\ loop \in [pc : LoopPC, todo : SUBSET Devices, all : BOOLEAN, dev : Devices \cup {"none"},
               kind : Kinds, report : Reports \cup {"none"}, redcon : {1, 4}]
  /\ ncmd \in [pc : NcmdPC, todo : SUBSET Devices]
  /\ count \in [faults : 0..MaxFaults, ncmds : 0..MaxNcmd, results : 0..MaxResults]

\* connectNodeMQTT and the first refreshInventory have succeeded.
Init ==
  /\ managed = Devices
  /\ want = [d \in Devices |-> "off"] /\ pub = [d \in Devices |-> Unpublished]
  /\ mqtt = [d \in Devices |-> "nil"] /\ reconnect = [d \in Devices |-> Quiet]
  /\ will = [d \in Devices |-> FALSE]
  /\ seen = [d \in Devices |-> "none"] /\ fresh = [d \in Devices |-> FALSE]
  /\ node = [link |-> "up", rec |-> Connected, will |-> FALSE, seen |-> 1]
  /\ nodeRedcon = 1 /\ rebirth = TRUE
  /\ loop = Idle /\ ncmd = NoCommand
  /\ count = [faults |-> 0, ncmds |-> 0, results |-> 0]

-----------------------------------------------------------------------------
(* MQTT (external): a QoS 1 publication on a connected session succeeds,   *)
(* or fails with or without having been delivered.                         *)

Outcomes(link) ==
  IF link = "up"
  THEN {[ok |-> TRUE, delivered |-> TRUE], [ok |-> FALSE, delivered |-> TRUE],
        [ok |-> FALSE, delivered |-> FALSE]}
  ELSE {[ok |-> FALSE, delivered |-> FALSE]}

\* Only a failure on a connected session uses up the bound.
Charge(link, ok) ==
  /\ link = "up" /\ ~ok => count.faults < MaxFaults
  /\ count' = IF link = "up" /\ ~ok THEN [count EXCEPT !.faults = @ + 1] ELSE count

\* Variant: no connection is announced as a reconnect.
OnConnectionNever(r) == [r EXCEPT !.callbacks = @ - 1, !.connected = TRUE]

\* onConnection: the first connection is no reconnect.
OnConnection(r) ==
  [r EXCEPT !.callbacks = @ - 1, !.connected = TRUE, !.pending = @ \/ r.connected]

LoseConnection(d) ==
  /\ mqtt[d] = "up" /\ count.faults < MaxFaults
  /\ mqtt' = [mqtt EXCEPT ![d] = "down"]
  /\ will' = [will EXCEPT ![d] = TRUE]
  /\ count' = [count EXCEPT !.faults = @ + 1]
  /\ UNCHANGED <<procVars, want, pub, reconnect, seen, fresh>>

WillFires(d) ==
  /\ will[d]
  /\ will' = [will EXCEPT ![d] = FALSE]
  /\ seen' = [seen EXCEPT ![d] = "dead"]
  /\ UNCHANGED <<procVars, want, pub, mqtt, reconnect, fresh, count>>

\* The broker ends the old session, and sends its will, before it accepts the
\* same client id again.
Reconnect(d) ==
  /\ mqtt[d] = "down" /\ ~will[d]
  /\ mqtt' = [mqtt EXCEPT ![d] = "up"]
  /\ reconnect' = [reconnect EXCEPT ![d].callbacks = @ + 1]
  /\ UNCHANGED <<procVars, want, pub, will, seen, fresh, count>>

Callback(d) ==
  /\ reconnect[d].callbacks > 0
  /\ reconnect' = [reconnect EXCEPT ![d] = OnConnection(@)]
  /\ UNCHANGED <<procVars, want, pub, mqtt, will, seen, fresh, count>>

NodeLoseConnection ==
  /\ node.link = "up" /\ count.faults < MaxFaults
  /\ node' = [node EXCEPT !.link = "down", !.will = TRUE]
  /\ count' = [count EXCEPT !.faults = @ + 1]
  /\ UNCHANGED <<managed, devVars, nodeRedcon, rebirth, loop, ncmd>>

NodeRecover ==
  /\ \/ node.will /\ node' = [node EXCEPT !.will = FALSE, !.seen = 5]
     \/ /\ node.link = "down" /\ ~node.will
        /\ node' = [node EXCEPT !.link = "up", !.rec.callbacks = @ + 1]
     \/ node.rec.callbacks > 0 /\ node' = [node EXCEPT !.rec = OnConnection(@)]
  /\ UNCHANGED <<managed, devVars, nodeRedcon, rebirth, loop, ncmd, count>>

-----------------------------------------------------------------------------
(* Evidence and inventory.                                                 *)

\* handleIPCMessage, capability state.
ObserveState(d, v) ==
  /\ loop.pc = "idle" /\ nodeRedcon = 1 /\ d \in managed
  /\ want' = [want EXCEPT ![d] = v]
  /\ UNCHANGED <<procVars, pub, mqtt, reconnect, will, seen, fresh, count>>

\* StateTTLMS passes without a new state.
Expire(d) ==
  /\ want[d] # "off"
  /\ want' = [want EXCEPT ![d] = "off"]
  /\ UNCHANGED <<procVars, pub, mqtt, reconnect, will, seen, fresh, count>>

\* handleIPCMessage, command result: a DDATA with the snapshot's REDCON on the
\* session of the device, if there is one; its failure is ignored.  Different
\* reports may or may not differ in their REDCON.
CommandResult(d) ==
  /\ loop.pc = "idle" /\ nodeRedcon = 1 /\ d \in managed /\ mqtt[d] # "nil"
  /\ count.results < MaxResults
  /\ \E told \in {seen[d]} \cup
         (IF mqtt[d] = "down" \/ seen[d] = want[d] THEN {}
          ELSE IF seen[d] \in {"none", "dead", "stray"} THEN {"stray"} ELSE {"mixed"}) :
       seen' = [seen EXCEPT ![d] = told]
  /\ count' = [count EXCEPT !.results = @ + 1]
  /\ UNCHANGED <<procVars, want, pub, mqtt, reconnect, will, fresh>>

\* refreshInventory with the things of inv loaded: new devices start without
\* evidence, removed ones lose their session without a DDEATH.  The loop may
\* still hold a removed device; its session is then closed, but not nil.
Refresh(inv) ==
  /\ managed' = inv
  /\ want' = [d \in Devices |-> IF d \in managed \cap inv THEN want[d] ELSE "off"]
  /\ pub' = [d \in Devices |-> IF d \in managed \cap inv THEN pub[d] ELSE Unpublished]
  /\ mqtt' = [d \in Devices |->
       IF d \in managed \cap inv THEN mqtt[d]
       ELSE IF d \in managed /\ d = loop.dev /\ mqtt[d] # "nil" THEN "closed" ELSE "nil"]
  /\ reconnect' = [d \in Devices |-> IF d \in managed \cap inv THEN reconnect[d] ELSE Quiet]
  /\ UNCHANGED <<will, seen, fresh, node, nodeRedcon, rebirth, count>>

RefreshInventory ==
  /\ loop.pc = "idle" /\ nodeRedcon = 1
  /\ \E inv \in SUBSET Devices : inv # managed /\ Refresh(inv)
  /\ UNCHANGED <<loop, ncmd>>

-----------------------------------------------------------------------------
(* publishDeviceState.                                                     *)

\* The ticker; a pending node reconnect is answered first, with the REDCON
\* read here.
Tick ==
  /\ loop.pc = "idle"
  /\ node' = [node EXCEPT !.rec.pending = FALSE]
  /\ loop' = [Idle EXCEPT !.pc = IF node.rec.pending THEN "online" ELSE "check",
                          !.redcon = nodeRedcon]
  /\ UNCHANGED <<managed, devVars, nodeRedcon, rebirth, ncmd, count>>

\* publishNodeOnline: subscriptions and NBIRTH, then every device is due.
NodeOnline ==
  /\ loop.pc = "online"
  /\ \E out \in Outcomes(node.link) :
       /\ Charge(node.link, out.ok)
       /\ node' = [node EXCEPT !.seen = IF out.delivered THEN loop.redcon ELSE @,
                               !.rec.pending = @ \/ ~out.ok]
       /\ rebirth' = (rebirth \/ out.ok)
       /\ loop' = IF out.ok THEN [loop EXCEPT !.pc = "check"] ELSE Idle
       /\ fresh' = IF out.ok THEN [d \in Devices |-> FALSE] ELSE fresh
  /\ UNCHANGED <<managed, want, pub, mqtt, reconnect, will, seen, nodeRedcon, ncmd>>

\* Variant: a device that is born is visited again only after a reconnect.
CheckRedconUnborn ==
  /\ loop.pc = "check"
  /\ IF nodeRedcon = 4 THEN loop' = Idle /\ UNCHANGED rebirth
     ELSE /\ loop' = [loop EXCEPT !.pc = "next", !.all = rebirth,
                        !.todo = {d \in managed : rebirth \/ reconnect[d].pending \/ ~pub[d].born}]
          /\ rebirth' = FALSE
  /\ UNCHANGED <<managed, devVars, node, nodeRedcon, ncmd, count>>

CheckRedcon ==
  /\ loop.pc = "check"
  /\ IF nodeRedcon = 4 THEN loop' = Idle /\ UNCHANGED rebirth
     ELSE /\ loop' = [loop EXCEPT !.pc = "next", !.todo = managed, !.all = rebirth]
          /\ rebirth' = FALSE
  /\ UNCHANGED <<managed, devVars, node, nodeRedcon, ncmd, count>>

\* DecidePublication, see DeviceRuntimeState: the kind and what it leaves.
Kind(p, v) ==
  IF v = "off" THEN (IF p.born \/ ~p.unavailable THEN "death" ELSE "none")
  ELSE IF ~p.born THEN "birth" ELSE IF p.last # v THEN "data" ELSE "none"

Decided(v) ==
  IF v = "off" THEN [born |-> FALSE, unavailable |-> TRUE, last |-> "none"]
  ELSE [born |-> TRUE, unavailable |-> FALSE, last |-> v]

NextDevice == [loop EXCEPT !.pc = "next", !.dev = "none", !.kind = "none", !.report = "none"]

\* Variant: the node's reconnect resets no device.
DueOnlyReconnected(d) == mqtt[d] # "nil" /\ reconnect[d].pending

\* Publication starts over after a reconnect of the session or of the node.
Due(d) == mqtt[d] # "nil" /\ (loop.all \/ reconnect[d].pending)

\* One device of the range over s.devices, up to the first blocking call.
DecideDevice(d) ==
  LET p    == IF Due(d) THEN Unpublished ELSE pub[d]
      kind == Kind(p, want[d])
  IN  /\ loop.pc = "next" /\ d \in loop.todo
      /\ reconnect' = [reconnect EXCEPT ![d].pending = FALSE]
      /\ pub' = [pub EXCEPT ![d] =
           IF kind = "data" /\ mqtt[d] = "nil" THEN Unpublished ELSE Decided(want[d])]
      /\ loop' =
           IF kind = "none" \/ (kind = "data" /\ mqtt[d] = "nil")
           THEN [loop EXCEPT !.todo = @ \ {d}]
           ELSE [loop EXCEPT !.todo = @ \ {d}, !.dev = d, !.kind = kind,
                   !.pc = IF kind = "data" THEN "publish" ELSE "connect",
                   !.report = IF kind = "death" THEN "none" ELSE want[d]]
      /\ UNCHANGED <<managed, want, mqtt, will, seen, fresh, node, nodeRedcon, rebirth, ncmd, count>>

EndDevices ==
  /\ loop.pc = "next" /\ loop.todo = {}
  /\ loop' = Idle
  /\ UNCHANGED <<managed, devVars, node, nodeRedcon, rebirth, ncmd, count>>

\* ensureDeviceMQTT; connecting under the same client id flushes an owed will.
EnsureSession ==
  LET d == loop.dev IN
  /\ loop.pc = "connect"
  /\ \/ /\ mqtt[d] # "nil"
        /\ loop' = [loop EXCEPT !.pc = "publish"]
        /\ UNCHANGED <<pub, mqtt, reconnect, count>>
     \/ /\ mqtt[d] = "nil" /\ ~will[d]
        /\ mqtt' = [mqtt EXCEPT ![d] = "up"]
        /\ reconnect' = [reconnect EXCEPT ![d] = Connected]
        /\ loop' = [loop EXCEPT !.pc = "publish"]
        /\ UNCHANGED <<pub, count>>
     \/ /\ mqtt[d] = "nil" /\ count.faults < MaxFaults
        /\ count' = [count EXCEPT !.faults = @ + 1]
        /\ pub' = [pub EXCEPT ![d] = Unpublished]
        /\ loop' = NextDevice
        /\ UNCHANGED <<mqtt, reconnect>>
  /\ UNCHANGED <<managed, want, will, seen, fresh, node, nodeRedcon, rebirth, ncmd>>

\* ResetPublication after a failed publication.
AfterPublish(d, ok) == pub' = IF ok THEN pub ELSE [pub EXCEPT ![d] = Unpublished]

\* publishDeviceReport and publishDeviceDeath on the session of the device.
PublishDevice ==
  LET d == loop.dev IN
  /\ loop.pc = "publish" /\ mqtt[d] # "nil"
  /\ \E out \in Outcomes(mqtt[d]) :
       /\ Charge(mqtt[d], out.ok)
       /\ AfterPublish(d, out.ok)
       /\ seen' = [seen EXCEPT ![d] = IF ~out.delivered THEN @
                                      ELSE IF loop.kind = "death" THEN "dead" ELSE loop.report]
       /\ fresh' = [fresh EXCEPT ![d] = @ \/ (out.delivered /\ loop.kind = "birth")]
       /\ loop' = IF out.ok /\ loop.kind = "death" THEN [loop EXCEPT !.pc = "disconnect"]
                                                   ELSE NextDevice
  /\ UNCHANGED <<managed, want, mqtt, reconnect, will, node, nodeRedcon, rebirth, ncmd>>

\* The session was taken away between the check and the call.
PublishNil ==
  /\ loop.pc = "publish" /\ mqtt[loop.dev] = "nil"
  /\ loop' = [Idle EXCEPT !.pc = "crashed"]
  /\ UNCHANGED <<managed, devVars, node, nodeRedcon, rebirth, ncmd, count>>

\* Variant: the session of a dead device stays.
DisconnectDeviceNever ==
  /\ loop.pc = "disconnect"
  /\ loop' = NextDevice
  /\ UNCHANGED <<managed, devVars, node, nodeRedcon, rebirth, ncmd, count>>

\* disconnectDeviceMQTT after a DDEATH.
DisconnectDevice ==
  LET d == loop.dev IN
  /\ loop.pc = "disconnect"
  /\ mqtt' = [mqtt EXCEPT ![d] = "nil"]
  /\ reconnect' = [reconnect EXCEPT ![d] = Quiet]
  /\ loop' = NextDevice
  /\ UNCHANGED <<managed, want, pub, will, seen, fresh, node, nodeRedcon, rebirth, ncmd, count>>

PublishDeviceState ==
  \/ Tick \/ NodeOnline \/ CheckRedcon \/ (\E d \in Devices : DecideDevice(d)) \/ EndDevices
  \/ EnsureSession \/ PublishDevice \/ PublishNil \/ DisconnectDevice

\* Variant: only the node says goodbye.
BuriedNone(failed) == seen

Buried(failed) ==
  [d \in Devices |-> IF mqtt[d] = "up" /\ d \notin failed THEN "dead" ELSE seen[d]]

\* gracefulShutdown: a DDEATH on every session, whose failure is ignored, then
\* the node's NDEATH.  A lost session leaves its DDEATH to its will.
GracefulShutdown ==
  /\ loop.pc = "idle"
  /\ \E failed \in SUBSET {d \in Devices : mqtt[d] = "up"} :
       /\ count.faults + Cardinality(failed) <= MaxFaults
       /\ count' = [count EXCEPT !.faults = @ + Cardinality(failed)]
       /\ seen' = Buried(failed)
       /\ loop' = [Idle EXCEPT !.pc = "stopped", !.todo = failed]
  /\ mqtt' = [d \in Devices |-> "nil"] /\ reconnect' = [d \in Devices |-> Quiet]
  /\ node' = [node EXCEPT !.seen = IF node.link = "up" THEN 5 ELSE @]
  /\ UNCHANGED <<managed, want, pub, will, fresh, nodeRedcon, rebirth, ncmd>>

-----------------------------------------------------------------------------
(* handleNodeCommand, on the goroutine of the MQTT client.                 *)

ReceiveNcmd ==
  /\ ncmd.pc = "idle" /\ node.link = "up" /\ count.ncmds < MaxNcmd
  /\ loop.pc \notin {"crashed", "stopped"}
  /\ \/ ncmd' = [pc |-> "teardown", todo |-> managed]
     \/ ncmd' = [pc |-> "subscribe", todo |-> {}]
     \/ ncmd' = [pc |-> "refused", todo |-> {}]
  /\ count' = [count EXCEPT !.ncmds = @ + 1]
  /\ UNCHANGED <<managed, devVars, node, nodeRedcon, rebirth, loop>>

\* teardownActiveNodeWork: every session is closed, without a DDEATH.
Teardown(d) ==
  /\ ncmd.pc = "teardown" /\ d \in ncmd.todo
  /\ mqtt' = [mqtt EXCEPT ![d] = "nil"]
  /\ reconnect' = [reconnect EXCEPT ![d] = Quiet]
  /\ pub' = [pub EXCEPT ![d] = Unpublished]
  /\ ncmd' = [ncmd EXCEPT !.todo = @ \ {d}]
  /\ UNCHANGED <<managed, want, will, seen, fresh, node, nodeRedcon, rebirth, loop, count>>

EnterCommandable ==
  /\ ncmd.pc = "teardown" /\ ncmd.todo = {}
  /\ nodeRedcon' = 4
  /\ ncmd' = [ncmd EXCEPT !.pc = "birth4"]
  /\ UNCHANGED <<managed, devVars, node, rebirth, loop, count>>

\* subscribeActiveNodeWork succeeds, or the NCMD is refused.
EnterActive ==
  /\ ncmd.pc = "subscribe"
  /\ \/ node.link = "up" /\ nodeRedcon' = 1 /\ ncmd' = [ncmd EXCEPT !.pc = "birth1"]
        /\ UNCHANGED count
     \/ Charge(node.link, FALSE) /\ ncmd' = [ncmd EXCEPT !.pc = "refused"] /\ UNCHANGED nodeRedcon
  /\ UNCHANGED <<managed, devVars, node, rebirth, loop>>

\* The NBIRTH that answers an NCMD, with the current REDCON when it is refused;
\* its failure is ignored.
NodeBirth ==
  /\ ncmd.pc \in {"birth4", "birth1", "refused"}
  /\ \E out \in Outcomes(node.link) :
       /\ Charge(node.link, out.ok)
       /\ node' = [node EXCEPT !.seen = IF ~out.delivered THEN @
                                        ELSE IF ncmd.pc = "birth4" THEN 4
                                        ELSE IF ncmd.pc = "birth1" THEN 1 ELSE nodeRedcon]
  /\ ncmd' = IF ncmd.pc = "birth1" THEN [ncmd EXCEPT !.pc = "refresh"] ELSE NoCommand
  /\ UNCHANGED <<managed, devVars, nodeRedcon, rebirth, loop>>

\* refreshInventory from the callback: the map it writes is the one the loop
\* ranges over without the lock.
RefreshByCallback ==
  /\ ncmd.pc = "refresh" /\ ncmd' = NoCommand
  /\ \/ \E inv \in SUBSET Devices :
          /\ Refresh(inv)
          /\ loop' = [loop EXCEPT !.todo = @ \cap inv]
     \/ /\ loop.pc \in {"next", "connect", "publish", "disconnect"}
        /\ loop' = [Idle EXCEPT !.pc = "crashed"]
        /\ UNCHANGED <<managed, devVars, node, nodeRedcon, rebirth, count>>

HandleNodeCommand ==
  \/ ReceiveNcmd \/ (\E d \in Devices : Teardown(d)) \/ EnterCommandable \/ EnterActive
  \/ NodeBirth \/ RefreshByCallback

Running == loop.pc \notin {"crashed", "stopped"}

Next ==
  \/ \E d \in Devices : WillFires(d)
  \/ /\ Running
     /\ \/ \E d \in Devices : LoseConnection(d) \/ Reconnect(d) \/ Callback(d) \/ Expire(d)
                                \/ CommandResult(d)
        \/ \E d \in Devices, v \in Reports \cup {"off"} : ObserveState(d, v)
        \/ NodeLoseConnection \/ NodeRecover \/ RefreshInventory \/ PublishDeviceState \/ GracefulShutdown
        \/ HandleNodeCommand

Spec == Init /\ [][Next]_vars

\* The ticker and the callbacks always run; the client library reconnects for
\* as long as the session exists; the broker sends the wills it owes.
FairSpec ==
  /\ Spec
  /\ WF_vars(Running /\ PublishDeviceState)
  /\ WF_vars(Running /\ NodeRecover)
  /\ \A d \in Devices : /\ WF_vars(WillFires(d))
                        /\ WF_vars(Running /\ Reconnect(d))
                        /\ WF_vars(Running /\ Callback(d))

-----------------------------------------------------------------------------
(* Properties.                                                             *)

\* A reconnect of the session the loop was told of, or will be.
Signalled(r) == r.pending \/ r.callbacks + (IF r.connected THEN 1 ELSE 0) > 1

Settled(d) == d \in managed /\ Running /\ loop.dev # d

\* Suppression is sound across failures, reconnects and NCMDs: a device that
\* counts as born has a session, and the broker's last word is what the manager
\* believes it published, but for the REDCON of a command result, unless the
\* loop is about to be told of a reconnect.
SeenIsPublished ==
  \A d \in Devices :
    Settled(d) /\ pub[d].born =>
      /\ mqtt[d] # "nil"
      /\ mqtt[d] = "up" /\ ~Signalled(reconnect[d]) =>
           seen[d] \in {pub[d].last, "mixed"}

\* "deliberately unavailable devices stay disconnected": after the DDEATH the
\* broker's last word is the death and no session is left to contradict it.
DeadIsClosed ==
  \A d \in Devices :
    Settled(d) /\ pub[d].unavailable => mqtt[d] = "nil" /\ seen[d] = "dead"

\* "A node reconnect restores its subscriptions and NBIRTH, then refreshes
\* existing device sessions with DBIRTH": once the loop is through, every device
\* that counts as born was born after the NBIRTH of the node's last connection.
\* (The NBIRTH that answers an NCMD, NodeBirth, is followed by no DBIRTH.)
RebornAfterReconnect ==
  loop.pc = "idle" /\ ~rebirth =>
    \A d \in managed : pub[d].born => fresh[d]

\* gracefulShutdown leaves no device alive that counted as born, unless its
\* DDEATH failed.
ShutdownBuries ==
  loop.pc = "stopped" =>
    \A d \in managed \ loop.todo : pub[d].born => will[d] \/ seen[d] = "dead"

\* Whatever was lost, failed or torn down on the way: when the rig stays at
\* REDCON 1 and the evidence of a device as it is, the broker ends up with
\* exactly that (but for the REDCON a command result carries on its own).
Converges ==
  \A d \in Devices, v \in Reports \cup {"off"} :
    <>[](Running /\ nodeRedcon = 1 /\ count.results = 0 /\ d \in managed /\ want[d] = v) =>
      <>[](seen[d] = IF v = "off" THEN "dead" ELSE v)

\* "MQTT callbacks only signal the publication loop" (main.go): the loop never
\* finds the session it is about to use gone.
SessionNotPulled == loop.pc = "publish" => mqtt[loop.dev] # "nil"

=============================================================================
