# A TLA+ verification project for txing

txing runs small field devices. This directory holds TLA+ models of the parts of
it whose correctness depends on the order of events, the model-checking runs
over them, and machine-checked proofs of the safety properties of most of them.

Paths in this document are relative to the repository. `PROJECT.json` lists
every component, run, property, hazard and theorem, and maps each definition to
the source lines it translates.

## 1. The system

A device has a *watch layer* (a microcontroller, reached over BLE or Thread, or
a pair of Lambdas) and usually an *action layer* (a board on Wi-Fi). What a
device can do now is summed up by its REDCON level: 4 is asleep, 3 awake, 2
board and control up, 1 video up. The parts, what they keep, and the module that
models them:

| Part | State | Talks to | Module |
| --- | --- | --- | --- |
| Thread firmware (`devices/common/mcu/xiao_nrf54lm20a`) | REDCON, link mode, registration, delayed work | rig, over CoAP | `ThreadDevice` |
| Thread service (`rig/cmd/txing-thread-connectivity`, `rig/internal/thread`) | work queues, worker pool | MCU; manager, through IPC | `ThreadScheduler` (its scheduler) |
| BLE service (`rig/cmd/txing-ble-connectivity`) | a session per device | MCU; manager, through IPC | `BleSession` |
| Sparkplug manager (`rig/cmd/txing-sparkplug-manager`, `rig/internal/manager`) | evidence per device, what it published, MQTT sessions | services; AWS IoT, as a Sparkplug node | `DeviceRuntimeState`, `SparkplugManager` |
| Cloud MCU (`devices/cloud-mcu`) | power shadow, ECS tasks, tick queue, schedule | AWS IoT, SQS, ECS | `CloudMcu` |
| Agent controller (`agent/src/reconcile.cpp` and others) | the `agent` shadow | MicroVM service, shadows | `AgentController` |
| Agent runtime (`agent/src/microvm.cpp`, `core.cpp`) | own authority; control session | shadows; the board | `AgentController`; `AgentSession` |
| Witness (`witness`) | the `sparkplug` shadow of each device; watch over MicroVMs | Sparkplug messages; MicroVM service | `AgentWatch` (the watch) |
| Board daemon (`devices/common/board/daemon`) | MAVLink and MCP control leases, watchdogs | agent and Office, hardware worker, flight controller | `MavlinkControl`, `McpControl` |
| KVS worker (`devices/common/board/kvs_master`) | WebRTC sessions, MAVLink epoch of each | board daemon | `MavlinkControl` (its MAVLink side) |
| Hardware worker (`devices/common/board/hardware_worker`) | motion and its deadline | board daemon, motors | `McpControl` |
| IPC broker, Mac daemon, Office and device panels, administration, releases | see section 6 | | none |

What makes it hard: adapters report late, twice and out of order; MQTT
connections drop and come back while callbacks run beside the main loop; Lambda
invocations overlap, fail half-way and are retried; MicroVMs, leases and motions
outlive those they were started for; nobody shares a lock across processes, so
authority rests on conditional writes, epochs, verification and time.

## 2. Modules

The `MC_` modules define constants, symmetry sets and starting points for TLC
and nothing else. Definitions introduced by a comment "Variant:" are
deliberately wrong forms of the next definition. The specifications do not use
them; each shows that some property notices the mistake.

Every component has a type invariant. The runs do not repeat it: in four modules
it is the theorem `TypeCorrect`; the others hold in every state that TLC reaches
on the instances of the runs.

### ThreadScheduler (`rig/internal/thread/scheduler.go`)

Every section the code runs under the scheduler's mutex is one action: `Start`,
`RequestMaintenance`, `SubmitCommand`, `Close`, the exits of `maintain`
(`DiscoverFails`, `DiscoverSucceeds`, `EnqueuePolls`), the branches of
`nextWork` (`TakeCommand`, `TakePoll`, `WaitForWork`, `WorkerExits`), the two
sections around a poll's context (`SetActivePollCancel`,
`ClearActivePollCancel`) and `complete`. A network call is the time a worker
spends at one program counter. Waiting on the condition variable is a program
counter, too, so that a missing `Broadcast` shows as a worker that sleeps
although there is work.

### DeviceRuntimeState (`rig/internal/manager/manager.go`)

What the manager knows of one device. `ObserveState` has one action per path of
the code (ignored, invalidating, outdated, stored). `Snapshot` is a pure
operator: the fresh states, the dependency gates between capabilities, the
best REDCON level of the manifest, the agent capability. `DecidePublication`
derives DBIRTH, DDATA, DDEATH or nothing. Adapters stamp their states with times
of their own; a state can be delivered at any later time and any number of
times, so reordering needs no channel. Capabilities are abstract names; `control`
stands for `mcp` or `mavlink`.

### SparkplugManager (`rig/cmd/txing-sparkplug-manager/main.go`, `rig/internal/mqttx/mqttx.go`)

The main loop and the MQTT callbacks as two processes, and what the broker was
last told. `publishDeviceState` is cut where another goroutine can interfere:
the REDCON check, the decision for a device, the session, the publication, the
end of the round. `handleNodeCommand` is cut likewise. The evidence
of a device is reduced to the report its snapshot calls for (`want`), which
`DeviceRuntimeState` treats in full. Connection losses, failed publications and
late callbacks are separate actions; a publication that fails may or may not
have reached the broker. A nil session that is used ends the process, as it
does in Go.

### AgentController and AgentWatch (`agent/src`, `witness/internal/witness/agent_watch.go`)

One device, any number of overlapping controller invocations, every MicroVM with
its runtime. An invocation is a program counter with the data it read; every
call to a service is a step, and at every step the invocation may end (`Crash`),
which stands for a call that throws, for conflicts that exhaust their attempts
and for the Lambda's time-out. A shadow write succeeds exactly if the shadow is
still what was read. The environment changes the declared capability and
projects the device's messages late, again and out of order. A runtime verifies
itself, loses its authority without a verification, is refused, suspended or
killed. With the automation disabled an invocation drains: `drain_disabled`
terminates what the inventory shows and fences afterwards ("Termination comes
first", `reconcile.cpp:214`), so it is the exception `KillsFencedOnly` states;
`drain_known_assignments` fences first. `AgentWatch` composes this with the witness's watch: selection, second
read, termination, and failure of each.

Abstractions to know of: a verification of the runtime reads projection,
registry and shadow at one instant (the code reads one after the other); a
conflicting write ends the pass, and the retry is the next pass; the wall clock
does not run backwards; endpoints and tokens are the number of their MicroVM.

### MavlinkControl, AgentSession, McpControl, BoardRuntime and ControlLease

`MavlinkControl` is the daemon's MAVLink lease (`mavlink.go`) with the bridge to
the KVS worker (`mavlink_bridge.go`, `kvs_session_real.cpp`) and the queue of
safe requests (`mavlink_flight_client.go`). Control calls and frames of one peer
reach the daemon independently; closing a peer is an event of its own that can
get lost. The watchdogs run when the daemon's ticker does, so a request may come
between an expiry and the tick that would notice it.

`AgentSession` extends it with the agent's control session (`core.cpp`): acquire,
renew, time-out, loss, release, and `send()`, which reads the authorized
generation on the operator's thread before the frame is sent on another. Its
data channels keep their order; messages are under way until handled, and what
is under way when a channel closes is lost.

`McpControl` is the MCP lease (`runtime.go`) with the calls to the hardware
worker and the worker itself (`motor.cpp`): deadline, forced and skipped writes,
the error path, exit and restart. A call can fail before or after it took
effect, and a velocity the daemon gave up on can be applied later.

`BoardRuntime` composes the three: a daemon serves MAVLink or MCP control, as its
configuration says, and is shut down or crashes, while the agent and the worker
go on. Each lease is an instance of `ControlLease`, the abstract specification:
at most one client has control, and a grant has an epoch never used before. All of
this is one life of the daemon: a daemon that is started again counts its epochs
from 0, and is not modelled.

### BleSession (`rig/cmd/txing-ble-connectivity/session.go`, `main.go`)

The session of one device and the session it replaces. One goroutine runs the
handlers one after the other; an action is a handler, cut where it waits for the
device. The device changes by itself, advertises while it is not connected,
notifies, and loses its link; a write is not answered and arrives later or never.
Ages are flags that time clears; how long a reconnect is put off is left open. A
stopped session may connect and publish until it has ended: neither looks at its
context, and `select` may pick another ready case first.

### ThreadDevice (`devices/common/mcu/xiao_nrf54lm20a/src/thread_device.c`)

The firmware's two threads: OpenThread, which runs CoAP handlers and callbacks
under its mutex, and the system work queue with its three delayed items. Both
are cooperative, so they alternate only where one blocks: when OpenThread is
idle or samples the battery for an answer, and when the work queue waits for the
mutex. A delay is the freedom of a queued item to run at any time. An item that is
cancelled while its handler waits stays in Zephyr's cancelling state until the
handler returns, and cannot be scheduled until then (`canceling`, `Schedule`).

### CloudMcu (`devices/cloud-mcu/lambda/internal/cloudmcu/cloudmcu.go`)

One device of one cloud rig. The rig Lambda (schedule, NCMD) queues ticks; the
MCU Lambda (tick, DCMD) reads the power shadow, makes the ECS tasks agree with
it, reports and writes the whole shadow back. An action is the part of an
invocation up to its next call; invocations overlap and fail at every call. ECS
(external) lists a task some time after it started, and a task told to stop is
gone from the list at once and active for a while. A command is its REDCON; what
reports say is left out. `StopTask` of a
task that has ended succeeds or, when ECS has forgotten the task, is refused, which
ends the invocation.

## 3. Runs

| Run | Shows |
| --- | --- |
| `scheduler` | Three devices, two workers, two overlapping maintenance requests, two commands: `Serialized`, `CommandCapacity`, `NoLostWakeup`, `CommandOrder`; under fairness `CommandsRun`, `MaintenanceEnds`, `CloseTerminates` |
| `device` | A BLE device with two transports and a board: `EvidenceOrder`, `BoardEvidenceCurrent`, `LadderCoherent`, `SuppressionSound` |
| `manager` | NCMDs, a fault and a command result beside the loop: `SeenIsPublished`, `DeadIsClosed`, `RebornAfterReconnect`, `ShutdownBuries`; under fairness `Converges`: evidence that stays as it is reaches the broker |
| `manager_pulled` | Violated: the callback clears the session that the loop is about to use |
| `agent` | One invocation at a time, two activations, two MicroVMs: `ExclusiveAuthority`, `ShadowWellFormed`, `ActivationsEarned`, `KnownVmRetained` |
| `agent_race` | Two invocations at a time: `KillsFencedOnly`, `StopIsFinal` |
| `agent_watch` | With the watch: `WatchSparesHealthy`; under fairness `VmsStop`, with nothing assumed of controllers and runtimes |
| `board` | The agent and the Office at the MAVLink lease, two sessions and the hardware worker at the MCP lease: `OwnerIsPeer`, `FrameUnderLease`, `MotionUnderLease`; both leases implement `ControlLease` (`LeasesExclusive`); under fairness `UnusedLeaseEnds`, `LostLeaseNoticed`, `MotionEnds` |
| `board_expiry` | Violated: a lease that runs out is cleared by the next request, and no safe state is requested for it |
| `ble` | A session, the one before it and the device: `SuccessIsConfirmed`; under fairness `PublishedFollowsDevice`, `SilenceIsPublished` |
| `firmware` | Both threads of the firmware: `PendingIsQueued`; under fairness `RecoveryGoesOn`, `FallsAsleep` |
| `cloud` | Overlapping, failing Lambda invocations, under fairness: `SleepStopsTasks`, `OneTaskLeft`, `RigComesToRest` |

The two violated properties quote a comment and a document that the code does not
meet; `PROJECT.json` gives the lines under `findings`. Neither is assumed by, or
part of, a passing run.

Deadlock is checked in `ble` and `firmware`, which never stop. The other models
have bounds at which they stop (commands, faults, epochs, ticks), and ends that
are legitimate: `Close`, a shutdown, a crash, a disabled schedule.

### Bounds

- *Scheduler*: two workers are the smallest pool `NewScheduler` allows, where
  the reserved worker matters most; three devices let one device be polled, one
  wait in the queue and one have a command; two maintainers make one request
  overlap another's cycle. Two commands make an order; `MaintenanceEnds` is thus
  about commands that come to an end, and says nothing of a stream of them.
- *Device evidence*: three instants with a TTL of one give fresh, just fresh and
  stale; two transports make "every sleep on record" more than "the last". The run
  has the BLE kind of device; the loss of a Thread link is in the theorems, which
  hold for every link.
- *Manager*: one device, because devices interact only through the loop's order
  and the node's state, and the race of interest is between the loop and the
  callback; two reports tell a change from a repetition; NCMD 4 followed by
  another NCMD needs two. One fault keeps the run short; with two, which allows a
  fault during the recovery from the first, the properties hold as well
  (2.9 million states).
- *Agent*: two MicroVMs and two runs are needed for a stale runtime beside a
  current one, two activations for a superseded run; the clock reaches the end
  of a budget and of an authority window of one tick each. In `agent_race` the
  second invocation takes the place of the second activation and of the second
  MicroVM; late answers to a launch that a second MicroVM of a new run overtook
  are met by one invocation in `agent`, and by any number in the theorems. In `agent_watch`
  launches end before the clock does, so that a grace period can always elapse, and
  there is one activation; the theorem on `WatchSparesHealthy` has any number.
- *Board*: two peers, of which one is the agent's, and two grants give a takeover
  and a grant after an expiry; three MCP grants give one more than that; two
  faults let a Stop fail after a velocity was given up on. Two starting points
  share the run: the agent may acquire once and meets the Office, or is alone and
  may acquire twice, which a command enqueued under an earlier grant needs. Queues
  hold one message; an empty, a full and an overtaken queue then all occur.
- *BLE*: one notification in the queue and one that finds it full; two attempts
  of a write.
- *Firmware*: the module has no constants; this is the whole model.
- *Cloud*: two ticks handled at once and one more in the queue. Commands to the
  device, commands to the rig, failures and the tasks at a time are bounded by a
  budget, and the run is the union of four: a device command and a failure with
  two tasks; two failures with two tasks; a failure, and a rig command, each with
  three tasks, one that the shadow names and one that each invocation starts. A
  device command, and two failures, with three tasks were checked beside it.

### Fairness

- *Scheduler*: weak fairness of worker and maintenance steps and of the return
  of `Close`. Goroutines are scheduled; discovery, GET and PUT have time-outs.
- *Manager*: weak fairness of the loop (a ticker), the recovery of the node
  session, reconnection (the client library retries every two seconds while a
  session exists), the callbacks (goroutines) and wills (the broker's duty).
  The faults are bounded, so they end.
- *Agent watch*: weak fairness of the clock and of the completion of a
  termination by the service; strong fairness of the watch's steps, because the
  scheduled sweep runs every minute and sees every MicroVM, and a single check
  may fail but not each one for ever.
- *Board*: weak fairness of the clock, the daemon's ticker, renewal and time-out
  in the agent's loop, the worker's deadline check, and its restart by the
  supervisor. Nothing is assumed of clients, channels and streams.
- *BLE*: weak fairness of the tickers and of handlers that have begun: connects,
  reads and the waits of a command have time-outs.
- *Firmware*: weak fairness of what is under way. Strong fairness of leaving
  OpenThread, of its pending notification and of starting a queued item, because
  these are enabled only now and then, between other events; and of the sleepy
  transition, which is repeated every few seconds.
- *Cloud*: weak fairness of the schedule while it is enabled, of the queue, of the
  steps of an invocation, and of ECS listing and ending tasks. Failures are
  bounded.

## 4. Proofs

The proof modules hold for every value of the constants that satisfies the named
assumptions in the modules that declare them. Each has an inductive invariant,
proved from `Init`, preserved by one lemma per action or group of actions, and
strong enough for the properties. TLC checked each invariant before it was
proved.

| Module | Proves |
| --- | --- |
| `ThreadSchedulerProofs` | types, `Serialized`, `CommandCapacity`, `NoLostWakeup`, `CoalescedMaintenance`, `CommandOrder` |
| `DeviceRuntimeStateProofs` | types, `EvidenceOrder`, `BoardEvidenceCurrent`, `LadderCoherent`, `SuppressionSound`, `SleepClears`, `LossInvalidates`, `AgentFollowsAuthority` |
| `SparkplugManagerProofs` | `SeenIsPublished`, `DeadIsClosed`, `RebornAfterReconnect`, `ShutdownBuries` |
| `AgentControllerProofs` | types, `ExclusiveAuthority`, `KnownVmRetained`, `StopIsFinal` |
| `AgentWatchProofs` | `ShadowWellFormed`, `ActivationsEarned`, `KillsFencedOnly`, `WatchSparesHealthy` |
| `BoardRuntimeProofs` | `OwnerIsPeer`, `MotionUnderLease`, `LeasesExclusive`, `FrameUnderLease` |
| `BleSessionProofs` | `SuccessIsConfirmed` |
| `ThreadDeviceProofs` | types, `PendingIsQueued` |

*Scheduler* (from `PoolAssumption`: finite sets, at least two workers). None of
the properties is inductive alone. That `runningPolls` never drops below zero
needs it to be the number of workers in a poll; that a cycle's `pending` ends at
exactly zero needs it to be the number of the cycle's queued and running polls,
which needs one cycle at a time and one poll per device.

*Device evidence* (from `InventoryAssumption` and `LadderAssumption`, which hold
for the manifests in `devices/`, those of the two types named in section 5 aside;
also for a Thread device). `EvidenceOrder` is the core. `ShapeInv` says which
adapter can hold which kind of state, without which a transport could pass for a
board. `PubInv` ties the flags of `DecidePublication` to the last message, which
is what makes suppression sound.

*Manager* (from `BoundsAssumption`). The properties speak of devices the loop is
not at, so `BusyInv` says what the loop is about to tell the broker while it is at
one: a device that counts as born is being told its last report, one that counts
as unavailable is being declared dead. `SessionInv` relates a session to the
broker: a session that is up owes no will, and one that is down owes it or has
sent it; that is what a suppressed publication rests on after a loss.
`FreshInv` carries a rebirth through the round: a device not yet born again is
still to be visited. The invariant is a conjunction over devices, and most steps
touch one (`OneDevice`).

*Agent controller* (from `BoundsAssumption`, any number of invocations at once).
A verified runtime is the one the shadow names (`VmInv`). So the shadow must not
change its mind while that runtime may work. Hence `CtlInv`, about what each
invocation is about to write: a pass that is to save keeps a known MicroVM or
fences it, and one that believes a MicroVM terminated is right about it. A
conditional write then carries the fact from the time of the read to the time of
the write.

*Identities and the watch.* Nobody holds a lock between deciding on a termination
and calling for it, neither a controller nor the watch. `TokensInv` says why it is
right nevertheless: run identities are issued once, a MicroVM is of the one run it
was requested for, the shadow names a MicroVM only for that run, and an invocation
about to terminate one knows its run to be ended, that is, stopping or gone. Every
step satisfies `Evolves`: what ended stays ended, and what was overdue stays
overdue, because only an edge of activity moves the deadline, and an edge ends the
run. `FormInv` is about the form of the shadow and of what the passes are about to
write; `ActivationsEarned` needs that a later message has at least the rises of an
earlier one, and one more after an edge (`RisesGrow`, which takes the
first active message after an inactive one for the rise in between).

*Board.* Every step of the daemon, the peers, the agent or the clock moves the
lease of `MAVLinkControlState` in one of three ways (`Moves`): it is renewed or
left, it ends, or it is granted to a peer under the next epoch. The refinement of
`ControlLease` and `OwnerIsPeer` follow from that. For MCP the invariant adds that
a velocity the daemon gave up on, which the worker may still apply, counts as a
failed call and does not outlive the worker; with it `MotionUnderLease` is
inductive.

*Frames.* `FrameUnderLease` needs the epoch followed from `send()` to the daemon's
loop (`FrameInv`). While the agent believes in its control (`Holding`), everything
in its data channel was sent under that epoch and the worker, if it still serves
the channel, has it as its own; a command read under the same generation was read
under the same epoch. Agent and worker come to agree because an activation is the
last thing in the channel until its answer is back (`Activating`), and they go on
agreeing when the agent gives up because what it then sends is no frame
(`Framed`): it is answered, and may change the worker's epoch, only after the last
frame has left the channel. A renewal that is accepted gives the worker the epoch
it was sent under, since an active lease has the epoch that was granted last. So every frame in the stream is stamped
with the epoch it was asked for under (`Stamped`), and the daemon accepts that of
the active lease only.

*BLE session.* `SuccessIsConfirmed` needs that from the write on the history has
where the device is now (`HistoryCurrent`), since the read that confirms is of the
device as it is. What the session's fields hold plays no part; that a notification
left over by the guard is a REDCON is induction over the queue, which is why the
session's types are not proved.

*Firmware.* `PendingIsQueued` is inductive given the types.

Only model-checked:

- all liveness (`CommandsRun`, `MaintenanceEnds`, `CloseTerminates`, `Converges`,
  `VmsStop`, `UnusedLeaseEnds`, `LostLeaseNoticed`, `MotionEnds`,
  `PublishedFollowsDevice`, `SilenceIsPublished`, `RecoveryGoesOn`, `FallsAsleep`,
  `SleepStopsTasks`, `OneTaskLeft`, `RigComesToRest`), which needs fairness and is outside the prover;
- the type invariants of `SparkplugManager`, `BoardRuntime`, `BleSession` and
  `CloudMcu`: the proofs use the part of them they need, without the bounds.

## 5. Known limits, and where code and documents differ

Left out of the modules:

- `DeviceRuntimeState`: the inventory entry of a device is fixed, no metric
  rules (no manifest has any), metric values left out. The capabilities
  `weather` and `sqs` of two device types without a board are not among `Caps`.
- `SparkplugManager`: starts after `connectNodeMQTT`; the relay of DCMDs and
  shadow updates, board-state subscriptions and encoding are left out.
- `AgentController`: one device; the queue of devices and the paging of an
  invocation are left out.
- The board: what the flight controller is sent and answers, telemetry, retained
  status and capability publications, the supervision of the video worker.
- `BleSession`: connection slots and the pausing of the scan, which the sessions
  of several devices share; the mode without a radio; a `stop()` that comes before
  the session's goroutine has stored its cancel function (`session.go:156`).
- `ThreadDevice`: the diagnostic profiles, battery and sensor samples.
- `CloudMcu`: the contents of reports, and with them the DCMD that is refused
  while the device is awake and is answered with REDCON 4.

The models reach the following states. Where a property excepts one of them, its
comment says so. The hazards in `PROJECT.json` give the details; only the two
findings have a run of their own.

- A command submitted between the claim of a poll and the registration of its
  cancel does not cancel the poll (`scheduler.go:180`).
- An old board state overrides REDCON 4 evidence that the adapter has replaced
  since (`manager.go:128`, `docs/sparkplug-lifecycle.md:325`). A later
  `sparkplug=false` sample replaces a still-fresh `sparkplug=true` one
  (`manager.go:134`, line 191 there).
- After NCMD 4 the loop opens a device session that it decided on before
  (`main.go:792`, line 360 there). At REDCON 4 the loop returns at line 572, so
  the session stays open until the node is told REDCON 1 again.
- The NBIRTH that answers an NCMD is followed by no DBIRTH (`main.go:784`, 809,
  816); `RebornAfterReconnect` is about the NBIRTH of a new connection alone.
- The watch may terminate an unclaimed MicroVM that a run comes to claim between
  its second read and the call (`agent_watch.go:348`).
- A Hold-and-disarm request finds the flight client's queue full of neutral
  requests and is dropped (`mavlink_flight_client.go:75`).
- In the error state the motor worker has no deadline left and does not try
  again (`motor.cpp:409`); `MotionEnds` excepts exactly that.
- A change of the MCP transport leaves the lease and the motion as they are
  until the motion's deadline (`VideoEvent`).
- A BLE connection made after the device was published as offline is lost without
  a second publication (`session.go:658`), and a stopped session may publish after
  its successor (`main.go:261`).
- The firmware's delayed sleep waits for the mutex while a REDCON 3 command is
  served, and then puts the woken device to sleep (`thread_device.c:651`); a mode
  that a command asks for and OpenThread refuses is not tried again.
- A recovery that is cancelled while its handler waits for the mutex, and is
  scheduled again before the handler returns, is refused by Zephyr;
  `recovery_pending` stays set, and no recovery is scheduled until a registration
  is accepted or REDCON 3 arrives (`thread_device.c:676`). `PendingIsQueued` and
  `RecoveryGoesOn` except it; without the exception the second is violated.
- The shadow of a cloud device that is told to sleep names a task that ECS has
  forgotten: every tick ends at the refused `StopTask` (`cloudmcu.go:1338`), the
  shadow keeps the name, and a task of a larger ARN runs on. `SleepStopsTasks`
  excepts it; without the exception it is violated.
- A cloud tick overwrites a DCMD stored while it ran (`cloudmcu.go:1155`); two
  overlapping ticks may stop each other's task (line 1287); an invocation of the
  schedule publishes NBIRTH redcon=1 after the NBIRTH redcon=4 of an NCMD
  (line 938).

## 6. Not modelled

- *Generated code, vendor libraries and tools.* Most of the repository's lines
  are generated MAVLink headers (`devices/common/board/mavlink/include`); next
  come the web application, device panels, administration scripts, templates and
  release tooling. They have no state machine of their own, or one that belongs
  to a browser or a person. The models cover the concurrent core, which is a small
  share of the lines. Codecs, topics, configuration, catalogs and registries are
  read-only look-ups. WebRTC, camera and radio I/O is inside vendor libraries.
- *Thread connectivity service.* The order of its work is `ThreadScheduler`; what a
  work item does (discovery, a CoAP exchange of two attempts, a retained state,
  suppressed shadow updates, a result) is not modelled. That a request delayed in
  the network may be applied after a later command is therefore not covered.
- *Mac daemon.* Commands, ticks and shutdown run one at a time in one loop. The
  worker's supervisor and the MQTT session meet it only in bounded channels.
- *Witness projection.* Invocations replace or merge metrics without a condition
  on the version, and no document promises an order. `AgentController` takes the
  projected values as changing, repeating and going back at any step.
- *IPC broker.* A retained value per topic and a queue per subscriber, without a
  promised order; the modules that consume its messages take them late, repeated
  and in any order.
- *Other firmware.* The Silicon Labs Thread firmware is a second implementation
  with profiles of its own. The BLE firmware is a level that `BleSession` writes
  and hears of late.
- *The Office.* To the board it is a client of which nothing is assumed, and as
  such it is in `MavlinkControl` and `McpControl`.
- *The whole watch layer in one model.* Service, session and firmware together
  need strong fairness of many actions at once, which is beyond the checker; the
  parts are checked against an environment that may do whatever the other part
  can.
