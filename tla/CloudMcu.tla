------------------------------ MODULE CloudMcu ------------------------------
(***************************************************************************)
(* The watch layer of a cloud device                                       *)
(* (devices/cloud-mcu/lambda/internal/cloudmcu/cloudmcu.go): an ECS task   *)
(* stands for the power of the board.  Two Lambdas run it.  The rig Lambda *)
(* is invoked by a schedule and by NCMDs and puts ticks in a queue; the    *)
(* MCU Lambda is invoked by ticks and DCMDs, reads the power shadow, makes *)
(* the tasks agree with it, publishes and writes the whole shadow back.    *)
(*                                                                         *)
(* Invocations overlap: nothing limits the concurrency of the Lambdas and  *)
(* the shadow is written without a version.  An action is the part of an   *)
(* invocation up to its next call that reads or changes shared state, and  *)
(* an invocation can fail at every call.  A command is its REDCON: its     *)
(* sequence number is only copied.  What a report says is left out, and    *)
(* with it the commands that only report that they failed.  One device of  *)
(* one rig: the others have state of their own.                            *)
(***************************************************************************)
EXTENDS Naturals, FiniteSets

CONSTANTS
  Ticks,        \* invocations of the MCU Lambda that may handle a tick at once
  Tasks,        \* ECS tasks, as numbers in the order of their ARNs
  MaxQueue,     \* ticks in the queue; more are as good as one
  Budgets       \* how many DCMDs, NCMDs and failures a behaviour may have, and
                \* the largest ARN of its tasks

NoTask == 0
Rigs == {"timer", "ncmd"}   \* the invocations of the rig Lambda, by their event

ASSUME CloudMcuAssumption ==
  /\ Tasks \subseteq Nat \ {NoTask} /\ IsFiniteSet(Tasks)
  /\ MaxQueue \in Nat \ {0}
  /\ Budgets \subseteq [dcmds : Nat, ncmds : Nat, failures : Nat, task : Tasks]

VARIABLES
  shadow,    \* the power shadow (ecsTaskStatus left out)
  tasks,     \* none, or ended; started, and not yet in the list of tasks; listed;
             \* stopping
  tick,      \* tick invocations: next call, power state read and made, tasks
             \* still to stop, task launched
  dcmd,      \* the DCMD invocation: next call, power state read, target
  rig,       \* the schedule; REDCON of the last NBIRTH and of the last NCMD (0:
             \* none yet, or the schedule's calls failed); next calls
  queue,     \* ticks in the SQS queue
  left       \* commands and failures left

vars == <<shadow, tasks, tick, dcmd, rig, queue, left>>

PowerState ==
  [desired : {3, 4}, powered : BOOLEAN, task : Tasks \cup {NoTask},
   pending : {0, 3, 4}, born : BOOLEAN]

TypeOK ==
  /\ shadow \in PowerState
  /\ tasks \in [Tasks -> {"none", "started", "listed", "stopping"}]
  /\ tick \in [Ticks -> [at : {"idle", "list", "run", "relist", "stop", "publish", "save"},
                         was : PowerState, now : PowerState,
                         stop : SUBSET Tasks, launched : Tasks \cup {NoTask}]]
  /\ dcmd \in [at : {"idle", "write", "send"}, power : PowerState, to : {3, 4}]
  /\ rig \in [enabled : BOOLEAN, node : {0, 1, 4}, to : {0, 1, 4},
              at : [Rigs -> {"idle", "schedule", "nbirth", "birth", "send"}]]
  /\ queue \in 0..MaxQueue
  /\ left \in [dcmds : Nat, ncmds : Nat, failures : Nat, task : Tasks]

\* powerStateFromShadow without a shadow.
NoShadow == [desired |-> 4, powered |-> FALSE, task |-> NoTask, pending |-> 0, born |-> FALSE]

IdleTick == [at |-> "idle", was |-> NoShadow, now |-> NoShadow, stop |-> {}, launched |-> NoTask]
IdleDcmd == [at |-> "idle", power |-> NoShadow, to |-> 4]

First(S) == CHOOSE t \in S : \A u \in S : t <= u

\* A new device, or one that has been awake for a while.
Init ==
  /\ \/ shadow = NoShadow /\ tasks = [t \in Tasks |-> "none"]
     \/ /\ shadow = [desired |-> 3, powered |-> TRUE, task |-> First(Tasks), pending |-> 0,
                     born |-> TRUE]
        /\ tasks = [t \in Tasks |-> IF t = First(Tasks) THEN "listed" ELSE "none"]
  /\ tick = [i \in Ticks |-> IdleTick] /\ dcmd = IdleDcmd
  /\ rig = [enabled |-> TRUE, node |-> IF shadow.born THEN 1 ELSE 0, to |-> 0,
            at |-> [r \in Rigs |-> "idle"]]
  /\ queue = 0 /\ left \in Budgets

Queued(n) == IF queue + n > MaxQueue THEN MaxQueue ELSE queue + n

-----------------------------------------------------------------------------
(* ECS.                                                                    *)

Listed == {t \in Tasks : tasks[t] = "listed"}
Running == {t \in Tasks : tasks[t] \in {"started", "listed"}}
Active == {t \in Tasks : tasks[t] # "none"}

\* An ARN nobody holds stands for a new one; left.task bounds how many are held.
Fresh ==
  {t \in Tasks : t <= left.task}
    \ (Active \cup {shadow.task, dcmd.power.task}
       \cup UNION {{tick[i].was.task, tick[i].now.task, tick[i].launched} : i \in Ticks}
       \cup UNION {tick[i].stop : i \in Ticks})

TaskListed(t) ==
  /\ tasks[t] = "started" /\ tasks' = [tasks EXCEPT ![t] = "listed"]
  /\ UNCHANGED <<shadow, tick, dcmd, rig, queue, left>>

TaskStops(t) ==
  /\ tasks[t] = "stopping" /\ tasks' = [tasks EXCEPT ![t] = "none"]
  /\ UNCHANGED <<shadow, tick, dcmd, rig, queue, left>>

\* A task exits by itself.
TaskExits(t) ==
  /\ t \in Running /\ left.failures > 0
  /\ tasks' = [tasks EXCEPT ![t] = "stopping"]
  /\ left' = [left EXCEPT !.failures = @ - 1]
  /\ UNCHANGED <<shadow, tick, dcmd, rig, queue>>

-----------------------------------------------------------------------------
(* Runtime.HandleTick.                                                     *)

TickReads(i) ==
  /\ queue > 0 /\ tick[i].at = "idle"
  /\ queue' = queue - 1
  /\ tick' = [tick EXCEPT ![i] = [IdleTick EXCEPT !.at = "list", !.was = shadow, !.now = shadow]]
  /\ UNCHANGED <<shadow, tasks, dcmd, rig, left>>

\* activeDeviceTasks: a task that was told to stop is not listed any more, and
\* still active to who asks for it.
ActiveDeviceTasks(tracked) == Listed \cup (Active \cap {tracked})

\* Variant: the duplicates are left alone.
KeepSingleOnly(i, preferred, active) ==
  LET keep == IF preferred \in active THEN preferred ELSE First(active)
  IN [tick[i] EXCEPT !.at = "publish", !.launched = NoTask,
        !.now.powered = TRUE, !.now.task = keep]

\* keepSingleActiveTask: the duplicates are stopped, the state is that of the
\* task kept.
KeepSingle(i, preferred, active) ==
  LET keep == IF preferred \in active THEN preferred ELSE First(active)
  IN [tick[i] EXCEPT !.at = IF active = {keep} THEN "publish" ELSE "stop",
        !.stop = active \ {keep}, !.launched = NoTask,
        !.now.powered = TRUE, !.now.task = keep]

EnsureTaskRunning(i) ==
  /\ tick[i].at = "list" /\ tick[i].now.desired = 3
  /\ LET tracked == tick[i].now.task
         active == ActiveDeviceTasks(tracked)
     IN tick' = [tick EXCEPT ![i] = IF active = {} THEN [@ EXCEPT !.at = "run"]
                                    ELSE KeepSingle(i, tracked, active)]
  /\ UNCHANGED <<shadow, tasks, dcmd, rig, queue, left>>

RunTask(i) ==
  /\ tick[i].at = "run" /\ Fresh # {}
  /\ tasks' = [tasks EXCEPT ![First(Fresh)] = "started"]
  /\ tick' = [tick EXCEPT ![i].at = "relist", ![i].launched = First(Fresh)]
  /\ UNCHANGED <<shadow, dcmd, rig, queue, left>>

\* Where the model has no ARN left, ECS has no room for the task.
RunTaskFails(i) ==
  /\ tick[i].at = "run" /\ Fresh = {} /\ tick' = [tick EXCEPT ![i] = IdleTick]
  /\ UNCHANGED <<shadow, tasks, dcmd, rig, queue, left>>

\* The task runs and the invocation does not hear of it.
RunTaskLost(i) ==
  /\ tick[i].at = "run" /\ left.failures > 0 /\ Fresh # {}
  /\ tasks' = [tasks EXCEPT ![First(Fresh)] = "started"]
  /\ tick' = [tick EXCEPT ![i] = IdleTick]
  /\ queue' \in {queue, Queued(1)}
  /\ left' = [left EXCEPT !.failures = @ - 1]
  /\ UNCHANGED <<shadow, dcmd, rig>>

\* The task launched counts as active whatever became of it since.
TaskLaunched(i) ==
  /\ tick[i].at = "relist"
  /\ LET launched == tick[i].launched
         tracked == tick[i].now.task
         active == ActiveDeviceTasks(launched) \cup {launched}
     IN tick' = [tick EXCEPT ![i] =
                   KeepSingle(i, IF tracked \in active THEN tracked ELSE launched, active)]
  /\ UNCHANGED <<shadow, tasks, dcmd, rig, queue, left>>

\* Variant: only the task the shadow names.
EnsureTrackedStopped(i) ==
  /\ tick[i].at = "list" /\ tick[i].now.desired = 4
  /\ LET stop == {tick[i].now.task} \ {NoTask}
     IN tick' = [tick EXCEPT ![i] =
                   [@ EXCEPT !.at = IF stop = {} THEN "publish" ELSE "stop", !.stop = stop,
                      !.now.powered = FALSE, !.now.task = NoTask]]
  /\ UNCHANGED <<shadow, tasks, dcmd, rig, queue, left>>

EnsureTaskStopped(i) ==
  /\ tick[i].at = "list" /\ tick[i].now.desired = 4
  /\ LET stop == Listed \cup ({tick[i].now.task} \ {NoTask})
     IN tick' = [tick EXCEPT ![i] =
                   [@ EXCEPT !.at = IF stop = {} THEN "publish" ELSE "stop", !.stop = stop,
                      !.now.powered = FALSE, !.now.task = NoTask]]
  /\ UNCHANGED <<shadow, tasks, dcmd, rig, queue, left>>

\* One StopTask after the other, in the order of the ARNs.  It does nothing to a
\* task that has ended and that ECS still knows.
StopTask(i) ==
  /\ tick[i].at = "stop"
  /\ LET t == First(tick[i].stop)
     IN /\ tasks' = [tasks EXCEPT ![t] = IF t \in Active THEN "stopping" ELSE @]
        /\ tick' = [tick EXCEPT ![i].stop = @ \ {t},
                      ![i].at = IF tick[i].stop = {t} THEN "publish" ELSE "stop"]
  /\ UNCHANGED <<shadow, dcmd, rig, queue, left>>

\* ECS has forgotten the task: the error ends the invocation, before the tasks
\* that come after it and before the shadow.  (TickFails has the queue deliver
\* the tick again.)
StopTaskRefused(i) ==
  /\ tick[i].at = "stop" /\ First(tick[i].stop) \notin Active
  /\ tick' = [tick EXCEPT ![i] = IdleTick]
  /\ UNCHANGED <<shadow, tasks, dcmd, rig, queue, left>>

Redcon(power) == IF power.powered THEN 3 ELSE 4

\* A report if it is the first, if it answers a command or if the REDCON is
\* another one; then the shadow is written if anything changed (the status of a
\* running task may have).
PublishReport(i) ==
  /\ tick[i].at = "publish"
  /\ LET was == tick[i].was
         now == tick[i].now
         done == now.pending = Redcon(now)
         publish == ~was.born \/ done \/ Redcon(was) # Redcon(now)
         next == [now EXCEPT !.pending = IF done THEN 0 ELSE @, !.born = @ \/ publish]
     IN \/ /\ next # was \/ now.powered
           /\ tick' = [tick EXCEPT ![i] = [IdleTick EXCEPT !.at = "save", !.now = next]]
        \/ next = was /\ tick' = [tick EXCEPT ![i] = IdleTick]
  /\ UNCHANGED <<shadow, tasks, dcmd, rig, queue, left>>

UpdatePowerShadow(i) ==
  /\ tick[i].at = "save"
  /\ shadow' = tick[i].now /\ tick' = [tick EXCEPT ![i] = IdleTick]
  /\ UNCHANGED <<tasks, dcmd, rig, queue, left>>

\* A call fails or the invocation times out: the queue delivers the tick again,
\* until it gives up.
TickFails(i) ==
  /\ tick[i].at # "idle" /\ left.failures > 0
  /\ tick' = [tick EXCEPT ![i] = IdleTick] /\ queue' \in {queue, Queued(1)}
  /\ left' = [left EXCEPT !.failures = @ - 1]
  /\ UNCHANGED <<shadow, tasks, dcmd, rig>>

-----------------------------------------------------------------------------
(* Runtime.HandleDCMD.                                                     *)

DcmdReads(redcon) ==
  /\ dcmd.at = "idle" /\ left.dcmds > 0
  /\ dcmd' = [at |-> "write", power |-> shadow, to |-> redcon]
  /\ left' = [left EXCEPT !.dcmds = @ - 1]
  /\ UNCHANGED <<shadow, tasks, tick, rig, queue>>

DcmdWrites ==
  /\ dcmd.at = "write"
  /\ shadow' = [dcmd.power EXCEPT !.desired = dcmd.to, !.pending = dcmd.to]
  /\ dcmd' = [IdleDcmd EXCEPT !.at = "send"]
  /\ UNCHANGED <<tasks, tick, rig, queue, left>>

DcmdSendsTick ==
  /\ dcmd.at = "send" /\ queue' = Queued(1) /\ dcmd' = IdleDcmd
  /\ UNCHANGED <<shadow, tasks, tick, rig, left>>

DcmdFails ==
  /\ dcmd.at # "idle" /\ dcmd' = IdleDcmd
  /\ UNCHANGED <<shadow, tasks, tick, rig, queue, left>>

-----------------------------------------------------------------------------
(* RigScheduler and RigController.                                         *)

ScheduleStarts ==
  /\ rig.enabled /\ rig.at["timer"] = "idle"
  /\ rig' = [rig EXCEPT !.at["timer"] = "birth"]
  /\ UNCHANGED <<shadow, tasks, tick, dcmd, queue, left>>

ScheduleBirth(r) ==
  /\ rig.at[r] = "birth" /\ rig' = [rig EXCEPT !.node = 1, !.at[r] = "send"]
  /\ UNCHANGED <<shadow, tasks, tick, dcmd, queue, left>>

\* tickOffsetsForPowerState: one tick for a sleeping device, ten for one awake.
ScheduleSends(r) ==
  /\ rig.at[r] = "send" /\ rig' = [rig EXCEPT !.at[r] = "idle"]
  /\ queue' = Queued(IF shadow.desired = 3 THEN 10 ELSE 1)
  /\ UNCHANGED <<shadow, tasks, tick, dcmd, left>>

Ncmd(redcon) ==
  /\ rig.at["ncmd"] = "idle" /\ left.ncmds > 0
  /\ rig' = [rig EXCEPT !.to = redcon, !.at["ncmd"] = "schedule"]
  /\ left' = [left EXCEPT !.ncmds = @ - 1]
  /\ UNCHANGED <<shadow, tasks, tick, dcmd, queue>>

\* Variant: REDCON 4 only announces itself.
NcmdLeavesSchedule ==
  /\ rig.at["ncmd"] = "schedule"
  /\ rig' = [rig EXCEPT !.at["ncmd"] = "nbirth"]
  /\ UNCHANGED <<shadow, tasks, tick, dcmd, queue, left>>

\* REDCON 4 disables the schedule, REDCON 1 enables it: the schedule is read and
\* written back.
NcmdSetsSchedule ==
  /\ rig.at["ncmd"] = "schedule"
  /\ rig' = [rig EXCEPT !.enabled = (rig.to = 1), !.at["ncmd"] = "nbirth"]
  /\ UNCHANGED <<shadow, tasks, tick, dcmd, queue, left>>

\* Reading or writing the schedule fails, or it is written and the answer is lost.
NcmdScheduleFails ==
  /\ rig.at["ncmd"] = "schedule"
  /\ \E enabled \in {rig.enabled, rig.to = 1} :
       rig' = [rig EXCEPT !.enabled = enabled, !.to = 0, !.at["ncmd"] = "idle"]
  /\ UNCHANGED <<shadow, tasks, tick, dcmd, queue, left>>

\* After its NBIRTH, REDCON 1 does what the schedule does.
NcmdBirth ==
  /\ rig.at["ncmd"] = "nbirth"
  /\ rig' = [rig EXCEPT !.node = rig.to, !.at["ncmd"] = IF rig.to = 1 THEN "birth" ELSE "idle"]
  /\ UNCHANGED <<shadow, tasks, tick, dcmd, queue, left>>

\* Only the failures of the schedule need a bound of their own.
RigFails(r) ==
  /\ rig.at[r] \notin {"idle", "schedule"} /\ rig' = [rig EXCEPT !.at[r] = "idle"]
  /\ \/ r = "ncmd" /\ left' = left
     \/ left.failures > 0 /\ left' = [left EXCEPT !.failures = @ - 1]
  /\ UNCHANGED <<shadow, tasks, tick, dcmd, queue>>

-----------------------------------------------------------------------------
TickStep(i) ==
  \/ EnsureTaskRunning(i) \/ RunTask(i) \/ RunTaskFails(i) \/ TaskLaunched(i)
  \/ EnsureTaskStopped(i) \/ StopTask(i) \/ StopTaskRefused(i) \/ PublishReport(i) \/ UpdatePowerShadow(i)

Next ==
  \/ \E t \in Tasks : TaskListed(t) \/ TaskStops(t) \/ TaskExits(t)
  \/ \E i \in Ticks : TickReads(i) \/ TickStep(i) \/ RunTaskLost(i) \/ TickFails(i)
  \/ \E redcon \in {3, 4} : DcmdReads(redcon)
  \/ DcmdWrites \/ DcmdSendsTick \/ DcmdFails
  \/ \E redcon \in {1, 4} : Ncmd(redcon)
  \/ ScheduleStarts \/ NcmdSetsSchedule \/ NcmdScheduleFails \/ NcmdBirth
  \/ \E r \in Rigs : ScheduleBirth(r) \/ ScheduleSends(r) \/ RigFails(r)

Spec == Init /\ [][Next]_vars

\* The scheduler invokes the rig Lambda while it is enabled; the queue delivers
\* its ticks; an invocation goes on to its end; ECS lists what it started and
\* ends what it stops.
FairSpec ==
  /\ Spec
  /\ WF_vars(ScheduleStarts) /\ WF_vars(NcmdSetsSchedule) /\ WF_vars(NcmdBirth)
  /\ \A r \in Rigs : WF_vars(ScheduleBirth(r)) /\ WF_vars(ScheduleSends(r))
  /\ WF_vars(DcmdWrites) /\ WF_vars(DcmdSendsTick)
  /\ WF_vars(\E i \in Ticks : TickReads(i))
  /\ \A i \in Ticks : WF_vars(TickStep(i))
  /\ \A t \in Tasks : WF_vars(TaskListed(t)) /\ WF_vars(TaskStops(t))

-----------------------------------------------------------------------------
(* Properties.                                                             *)

Busy == {i \in Ticks : tick[i].at # "idle"}

\* No task outlives the wish for it: while the shadow asks for REDCON 4 and the
\* schedule runs, every task of the device ends, those included that an
\* overlapping or a failed invocation launched and no shadow ever named.  Unless
\* the shadow goes on naming a task that has ended: when ECS has forgotten it,
\* StopTask is refused in every tick, which ends there.
SleepStopsTasks ==
  <>[](shadow.desired = 4 /\ rig.enabled /\ shadow.task \in Active \cup {NoTask})
    => <>[](Running = {})

\* "every REDCON 3 tick lists active tasks with that value and stops duplicates
\* so only one active task is associated with a device": once ticks no longer
\* overlap, a device that stays at REDCON 3 is left with one task, and that is
\* the one its shadow names.
OneTaskLeft ==
  <>[](shadow.desired = 3 /\ rig.enabled /\ Cardinality(Busy) <= 1)
    => <>[](Running = {shadow.task})

\* "NCMD.redcon=4 disables the recurring schedule": once it has, the rig Lambda,
\* the queue and the MCU Lambda all come to rest, whatever was under way.
RigComesToRest ==
  <>[](rig.to = 4) => <>[](queue = 0 /\ Busy = {} /\ rig.at["timer"] = "idle")
=============================================================================
