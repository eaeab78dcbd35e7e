------------------------------ MODULE McpControl ------------------------------
(***************************************************************************)
(* MCP control of a board (daemon/internal/daemon/runtime.go) and the      *)
(* hardware worker that drives the motors for it (hardware_worker/src).    *)
(* The daemon calls the worker with a deadline that is the end of the      *)
(* lease; a call can fail, and a velocity the daemon has given up on can   *)
(* still be applied.  Times are countdowns.                                *)
(***************************************************************************)
EXTENDS Naturals

CONSTANTS
  MqttSessions, DataSessions,  \* MCP sessions over MQTT and over WebRTC
  NoOne,
  ActiveTTL,                   \* activeTTL
  MotorTimeout,                \* watchdog_timeout_ms of the worker
  MaxGrants, MaxFaults         \* bounds: leases, failures of calls and writes

ASSUME McpAssumption ==
  /\ NoOne \notin MqttSessions \cup DataSessions
  /\ {ActiveTTL, MotorTimeout} \subseteq Nat \ {0} /\ {MaxGrants, MaxFaults} \subseteq Nat

VARIABLES
  mcp,      \* McpServer: active and nextEpoch
  video,    \* video.Ready: MCP is served over WebRTC only
  motor,    \* MotorController, and whether the motors really turn
  late,     \* an ApplyVelocity that the daemon has given up on
  failed,   \* history: a call failed since the motors last stood still
  faults    \* failures so far

mcpVars == <<mcp, video, motor, late, failed, faults>>

McpSessions == MqttSessions \cup DataSessions
Grants   == 0..MaxGrants
NoActive == [session |-> NoOne, epoch |-> 0, left |-> 0]
Never    == ActiveTTL + MotorTimeout  \* no deadline
NoTwist  == [epoch |-> 0, left |-> 0]

\* by: history, the epoch under which the present motion was commanded.
Motor ==
  [state : {"ready", "error", "down"}, turning : BOOLEAN, deadline : 0..Never, by : Grants]
Standing == [state |-> "ready", turning |-> FALSE, deadline |-> Never, by |-> 0]

McpTypeOK ==
  /\ mcp \in [active : [session : McpSessions \cup {NoOne}, epoch : Grants, left : 0..ActiveTTL],
              nextEpoch : Grants]
  /\ video \in BOOLEAN /\ failed \in BOOLEAN /\ faults \in 0..MaxFaults
  /\ motor \in Motor
  /\ late \in [epoch : Grants, left : 0..ActiveTTL]

McpInit ==
  /\ mcp = [active |-> NoActive, nextEpoch |-> 0]
  /\ video = FALSE /\ failed = FALSE /\ faults = 0
  /\ motor = Standing /\ late = NoTwist

-----------------------------------------------------------------------------
(* MotorController.  A write that fails is followed by attempts to write    *)
(* zero; the deadline is gone in any case.                                  *)

Broken(m, speed) ==
  {[m EXCEPT !.state = "error", !.deadline = Never, !.turning = t] : t \in {FALSE, m.turning \/ speed}}

\* ApplySpeeds: the outcomes of writing a speed, zero or not.  The speed that the
\* motors have is not written again unless forced.
Write(m, speed, force) ==
  IF ~force /\ ~speed /\ ~m.turning THEN {m}
  ELSE {[m EXCEPT !.turning = speed]} \cup (IF faults < MaxFaults THEN Broken(m, speed) ELSE {})

Lower(a, b) == IF a < b THEN a ELSE b

StopMotor(m, force) == Write([m EXCEPT !.deadline = Never], FALSE, force)

ApplyVelocity(m, epoch, left, speed) ==
  IF m.state # "ready" THEN {m}
  ELSE IF left = 0 THEN StopMotor(m, TRUE)
  ELSE Write([m EXCEPT !.deadline = Lower(left, MotorTimeout), !.by = epoch], speed, FALSE)

-----------------------------------------------------------------------------
(* Calls of the daemon to the worker.                                       *)

Fault == faults < MaxFaults /\ faults' = faults + 1

\* The outcome of a call is one of next; a failed write counts as a fault.
Done(next) ==
  /\ motor' \in next
  /\ IF motor'.state = "error" /\ (motor.state # "error" \/ motor'.turning)
     THEN Fault ELSE UNCHANGED faults
  /\ failed' = (failed /\ (motor'.turning \/ late' # NoTwist))

\* Errors of Stop are ignored.
CallStop ==
  /\ UNCHANGED late
  /\ \/ motor.state # "down" /\ Done(StopMotor(motor, TRUE))
     \/ motor.state = "down" /\ failed' = TRUE /\ UNCHANGED <<motor, faults>>
     \/ motor.state # "down" /\ Fault /\ failed' = TRUE /\ UNCHANGED motor

NoCallMade == UNCHANGED <<motor, late, failed, faults>>

CallApplyVelocity(epoch, left, speed) ==
  \/ /\ motor.state # "down" /\ UNCHANGED late
     /\ Done(ApplyVelocity(motor, epoch, left, speed))
  \/ /\ motor.state # "down" /\ Fault
     /\ failed' = TRUE /\ late' = [epoch |-> epoch, left |-> left] /\ UNCHANGED motor
  \/ motor.state = "down" /\ NoCallMade

-----------------------------------------------------------------------------
(* McpServer and the events of the daemon's loop.                           *)

RanOut == mcp.active # NoActive /\ mcp.active.left = 0

NoControl == [mcp EXCEPT !.active = NoActive]

Current == IF RanOut THEN NoControl ELSE mcp

InControl(s, e) == Current.active.session = s /\ Current.active.epoch = e

\* handleMCPPublish refuses MQTT requests while video is ready.
Served(s) == s \in DataSessions \/ ~video

\* Variant: a takeover lets the motion of the session before it go on.
ActivateNoStop(s, takeover) ==
  /\ Served(s) /\ mcp.nextEpoch < MaxGrants
  /\ Current.active.session # s /\ (Current.active = NoActive \/ takeover)
  /\ mcp' = [active |-> [session |-> s, epoch |-> mcp.nextEpoch + 1, left |-> ActiveTTL],
             nextEpoch |-> mcp.nextEpoch + 1]
  /\ IF RanOut THEN CallStop ELSE NoCallMade
  /\ UNCHANGED video

\* A session that has control already keeps its lease as it is.
Activate(s, takeover) ==
  /\ Served(s) /\ mcp.nextEpoch < MaxGrants
  /\ Current.active.session # s /\ (Current.active = NoActive \/ takeover)
  /\ mcp' = [active |-> [session |-> s, epoch |-> mcp.nextEpoch + 1, left |-> ActiveTTL],
             nextEpoch |-> mcp.nextEpoch + 1]
  /\ IF mcp.active # NoActive THEN CallStop ELSE NoCallMade
  /\ UNCHANGED video

RenewActive(s, e) ==
  /\ Served(s) /\ InControl(s, e)
  /\ mcp' = [mcp EXCEPT !.active.left = ActiveTTL]
  /\ NoCallMade /\ UNCHANGED video

ReleaseActive(s, e) ==
  /\ Served(s) /\ InControl(s, e)
  /\ mcp' = NoControl /\ CallStop /\ UNCHANGED video

\* renew, release, publish and stop of a session without control: a lease that
\* ran out is gone, and nobody is told.
Refused(s, e) ==
  /\ Served(s) /\ ~InControl(s, e)
  /\ mcp' = Current /\ NoCallMade /\ UNCHANGED video

PublishTwist(s, e, speed) ==
  /\ Served(s) /\ InControl(s, e)
  /\ CallApplyVelocity(e, mcp.active.left, speed)
  /\ UNCHANGED <<mcp, video>>

CmdVelStop(s, e) ==
  /\ Served(s) /\ InControl(s, e)
  /\ CallStop /\ UNCHANGED <<mcp, video>>

\* From the video worker or over IPC; the event may never come.
CloseSession(s) ==
  /\ s \in DataSessions /\ mcp.active.session = s
  /\ mcp' = NoControl /\ CallStop /\ UNCHANGED video

MqttDisconnected == mcp' = NoControl /\ CallStop /\ UNCHANGED video

\* A change of the transport is announced; control stays as it is.
VideoEvent == video' = ~video /\ UNCHANGED <<mcp, motor, late, failed, faults>>

TickActive == RanOut /\ mcp' = NoControl /\ CallStop /\ UNCHANGED video

-----------------------------------------------------------------------------
(* The hardware worker on its own.                                          *)

MotorTick ==
  /\ motor.state # "down" /\ motor.deadline = 0
  /\ UNCHANGED late /\ Done(StopMotor(motor, FALSE)) /\ UNCHANGED <<mcp, video>>

\* The worker gets to a call that the daemon has given up on.
LateVelocity ==
  /\ late # NoTwist /\ motor.state # "down" /\ late' = NoTwist
  /\ Done(ApplyVelocity(motor, late.epoch, late.left, TRUE)) /\ UNCHANGED <<mcp, video>>

\* Killed, or closed: only Close stops the motors first.
WorkerExits ==
  /\ motor.state # "down" /\ Fault
  /\ \E t \in {FALSE, motor.turning} :
       motor' = [motor EXCEPT !.state = "down", !.deadline = Never, !.turning = t]
  /\ late' = NoTwist /\ UNCHANGED <<mcp, video, failed>>

\* Variant: the driver takes the outputs as it finds them.
WorkerStartsUnwritten ==
  /\ motor.state = "down" /\ motor' = [Standing EXCEPT !.turning = motor.turning]
  /\ failed' = FALSE
  /\ UNCHANGED <<mcp, video, late, faults>>

\* The driver writes zero before the worker serves.
WorkerStarts ==
  /\ motor.state = "down" /\ motor' = Standing /\ failed' = FALSE
  /\ UNCHANGED <<mcp, video, late, faults>>

Sooner(n) == IF n \in {0, Never} THEN n ELSE n - 1

McpAdvance ==
  /\ mcp.active.left > 0 \/ motor.deadline \notin {0, Never} \/ late.left > 0
  /\ mcp' = [mcp EXCEPT !.active.left = Sooner(@)]
  /\ motor' = [motor EXCEPT !.deadline = Sooner(@)]
  /\ late' = [late EXCEPT !.left = Sooner(@)]
  /\ UNCHANGED <<video, failed, faults>>

McpStep ==
  \/ \E s \in McpSessions :
       \/ \E takeover \in BOOLEAN : Activate(s, takeover)
       \/ \E e \in Grants :
            \/ RenewActive(s, e) \/ ReleaseActive(s, e) \/ Refused(s, e) \/ CmdVelStop(s, e)
            \/ \E speed \in BOOLEAN : PublishTwist(s, e, speed)
       \/ CloseSession(s)
  \/ MqttDisconnected \/ VideoEvent \/ TickActive

WorkerStep == MotorTick \/ LateVelocity \/ WorkerExits \/ WorkerStarts
===============================================================================
