--------------------------- MODULE ThreadScheduler ---------------------------
(***************************************************************************)
(* The work scheduler of the rig's Thread adapter                          *)
(* (rig/internal/thread/scheduler.go).  A fixed pool of workers shares one *)
(* mutex and one condition variable; it runs REDCON commands and the state *)
(* GETs ("polls") of a maintenance cycle.  Every section the code runs     *)
(* under the mutex is one action; the network calls between two sections   *)
(* are the time a worker spends in a program counter value.                *)
(***************************************************************************)
EXTENDS Naturals, FiniteSets

CONSTANTS
  Things,       \* devices the adapter operates
  Workers,      \* worker goroutines, NewScheduler raises the pool to two
  Maintainers,  \* slots for maintain() goroutines; a slot names its cycle
  MaxCommands   \* bound: commands submitted in one behaviour

ASSUME PoolAssumption ==
  /\ IsFiniteSet(Things) /\ IsFiniteSet(Workers)
  /\ Cardinality(Workers) >= 2
  /\ MaxCommands \in Nat

VARIABLES
  started,            \* s.ctx # nil
  closed,             \* s.closed
  ctxDone,            \* s.ctx.Err() # nil
  closer,             \* the goroutine inside Close
  active,             \* keys of s.active
  commands,           \* s.commands; an id is the position of the append
  polls,              \* s.polls
  runningPolls,       \* s.runningPolls
  activePollCancel,   \* keys of s.activePollCancel
  maintenanceActive,  \* s.maintenanceActive
  pending,            \* cycle.pending of every slot's cycle
  maint,              \* program counter of every maintain goroutine
  pc,                 \* program counter of every worker
  work,               \* the scheduledWork a worker holds
  cancelled,          \* workers whose poll context is cancelled
  nextId,             \* commands submitted so far
  begun               \* history: the commands handed to a worker

pollVars  == <<polls, runningPolls, activePollCancel, cancelled>>
maintVars == <<maintenanceActive, pending, maint>>
lifeVars  == <<started, closed, ctxDone, closer>>
cmdVars   == <<commands, nextId, begun>>
vars == <<lifeVars, active, cmdVars, pollVars, maintVars, pc, work>>

Command == [thing : Things, id : 0..MaxCommands]
PollJob == [thing : Things, cycle : Maintainers]
NoWork  == [thing |-> "none"]

\* Worker states in which a device is claimed, and those that hold a poll.
BusyPC == {"command", "claimed", "polling", "polled"}
PollPC == {"claimed", "polling", "polled"}

Busy    == {w \in Workers : pc[w] \in BusyPC}
Polling == {w \in Workers : pc[w] \in PollPC}

PCs     == BusyPC \cup {"off", "idle", "waiting", "exited"}
Work    == Command \cup PollJob \cup {NoWork}

LifeType ==
  /\ started \in BOOLEAN /\ closed \in BOOLEAN /\ ctxDone \in BOOLEAN
  /\ closer \in {"open", "waiting", "returned"}

QueueType ==
  /\ active \subseteq Things /\ activePollCancel \subseteq Things
  /\ commands \subseteq Command /\ begun \subseteq Command
  /\ polls \subseteq PollJob
  /\ nextId \in 0..MaxCommands

CycleType ==
  /\ maintenanceActive \in BOOLEAN
  /\ pending \in [Maintainers -> Nat]
  /\ maint \in [Maintainers -> {"idle", "discover", "enqueue"}]

PoolType ==
  /\ runningPolls \in Nat
  /\ pc \in [Workers -> PCs]
  /\ work \in [Workers -> Work]
  /\ \A w \in Workers : /\ pc[w] = "command" => work[w] \in Command
                        /\ pc[w] \in PollPC  => work[w] \in PollJob
  /\ cancelled \subseteq Workers

TypeOK == LifeType /\ QueueType /\ CycleType /\ PoolType

Init ==
  /\ started = FALSE /\ closed = FALSE /\ ctxDone = FALSE /\ closer = "open"
  /\ active = {} /\ commands = {} /\ polls = {}
  /\ runningPolls = 0 /\ activePollCancel = {}
  /\ maintenanceActive = FALSE
  /\ pending = [m \in Maintainers |-> 0]
  /\ maint = [m \in Maintainers |-> "idle"]
  /\ pc = [w \in Workers |-> "off"]
  /\ work = [w \in Workers |-> NoWork]
  /\ cancelled = {} /\ nextId = 0 /\ begun = {}

\* Variant: a section that changes the queues without waking the waiters.
NoBroadcast(p) == p

\* cond.Broadcast: every goroutine in cond.Wait re-examines the queues.
Broadcast(p) == [w \in Workers |-> IF p[w] = "waiting" THEN "idle" ELSE p[w]]

-----------------------------------------------------------------------------
(* Callers: the adapter's main loop and its shutdown.                      *)

Start ==
  /\ ~started
  /\ started' = TRUE
  /\ pc' = [w \in Workers |-> "idle"]
  /\ UNCHANGED <<closed, ctxDone, closer, active, cmdVars, pollVars, maintVars, work>>

\* The context given to Start is cancelled by the process's signal handler.
ParentCancelled ==
  /\ started /\ ~ctxDone
  /\ ctxDone' = TRUE
  /\ cancelled' = cancelled \cup {w \in Workers : pc[w] = "polling"}
  /\ UNCHANGED <<started, closed, closer, active, cmdVars, polls, runningPolls,
                 activePollCancel, maintVars, pc, work>>

\* A slot is reusable once its goroutine returned and its cycle is used up.
RequestMaintenance(m) ==
  /\ started /\ ~closed /\ ~maintenanceActive
  /\ maint[m] = "idle" /\ pending[m] = 0
  /\ maintenanceActive' = TRUE
  /\ maint' = [maint EXCEPT ![m] = "discover"]
  /\ UNCHANGED <<lifeVars, active, cmdVars, pollVars, pending, pc, work>>

\* Cancelling the registered poll of t: the map holds that poll's cancel.
CancelPollsOf(ts) ==
  {w \in Workers : pc[w] = "polling" /\ work[w].thing \in ts \cap activePollCancel}

SubmitCommand(t) ==
  /\ started /\ ~closed /\ nextId < MaxCommands
  /\ cancelled' = cancelled \cup CancelPollsOf({t})
  /\ commands' = commands \cup {[thing |-> t, id |-> nextId]}
  /\ nextId' = nextId + 1
  /\ pc' = Broadcast(pc)
  /\ UNCHANGED <<lifeVars, active, begun, polls, runningPolls, activePollCancel,
                 maintVars, work>>

Close ==
  /\ ~closed
  /\ closed' = TRUE
  /\ ctxDone' = started
  /\ closer' = "waiting"
  /\ cancelled' = cancelled \cup {w \in Workers : pc[w] = "polling"}
  /\ pc' = Broadcast(pc)
  /\ UNCHANGED <<started, active, cmdVars, polls, runningPolls, activePollCancel,
                 maintVars, work>>

\* wg.Wait returns: no worker and no maintain goroutine is left.
CloseReturns ==
  /\ closer = "waiting"
  /\ \A w \in Workers : pc[w] \in {"off", "exited"}
  /\ \A m \in Maintainers : maint[m] = "idle"
  /\ closer' = "returned"
  /\ UNCHANGED <<started, closed, ctxDone, active, cmdVars, pollVars, maintVars, pc, work>>

-----------------------------------------------------------------------------
(* maintain(): one discovery, then one poll per discovered device.         *)

\* finishMaintenanceCycle on a discovery error or a cancelled context.
DiscoverFails(m) ==
  /\ maint[m] = "discover"
  /\ maint' = [maint EXCEPT ![m] = "idle"]
  /\ maintenanceActive' = FALSE
  /\ UNCHANGED <<lifeVars, active, cmdVars, pollVars, pending, pc, work>>

DiscoverSucceeds(m) ==
  /\ maint[m] = "discover" /\ ~ctxDone
  /\ maint' = [maint EXCEPT ![m] = "enqueue"]
  /\ UNCHANGED <<lifeVars, active, cmdVars, pollVars, maintenanceActive, pending, pc, work>>

\* One scheduledWork per discovered device, sharing the cycle.
PollsFor(m, ts) == {[thing |-> t, cycle |-> m] : t \in ts}

\* ts is what EndpointThingNames returned.  Map iteration order is random, so
\* the queue of a cycle is a set: any order of taking its members is the order
\* of some enqueue.
EnqueuePolls(m, ts) ==
  /\ maint[m] = "enqueue"
  /\ maint' = [maint EXCEPT ![m] = "idle"]
  /\ \/ /\ closed \/ ts = {}
        /\ maintenanceActive' = FALSE
        /\ UNCHANGED <<polls, pending, pc>>
     \/ /\ ~closed /\ ts # {}
        /\ pending' = [pending EXCEPT ![m] = Cardinality(ts)]
        /\ polls' = polls \cup PollsFor(m, ts)
        /\ pc' = Broadcast(pc)
        /\ UNCHANGED maintenanceActive
  /\ UNCHANGED <<lifeVars, active, cmdVars, runningPolls, activePollCancel, cancelled, work>>

-----------------------------------------------------------------------------
(* worker(): nextWork, run, complete.                                      *)

\* Variant: a worker takes work of a device another worker holds.
AnyJob(queue) == queue

Available(queue) == {j \in queue : j.thing \notin active}

\* Variant: any free command instead of the oldest one.
AnyCommand == Available(commands)

\* firstAvailable over the commands: the oldest one whose device is free.
FirstCommands ==
  {c \in Available(commands) : \A d \in Available(commands) : c.id <= d.id}

\* Variant: polls may occupy the whole pool.
PollSlotFreeOffByOne == runningPolls < Cardinality(Workers)

\* Variant: two workers are kept free of polls.
PollSlotFreeReservesTwo == runningPolls + 2 < Cardinality(Workers)

PollSlotFree == runningPolls + 1 < Cardinality(Workers)

\* Variant: a command waits for the queued polls.
TakeCommandAfterPolls(w) ==
  /\ pc[w] = "idle" /\ ~closed /\ Available(polls) = {}
  /\ \E c \in FirstCommands :
       /\ commands' = commands \ {c}
       /\ begun' = begun \cup {c}
       /\ active' = active \cup {c.thing}
       /\ work' = [work EXCEPT ![w] = c]
       /\ pc' = [pc EXCEPT ![w] = "command"]
  /\ UNCHANGED <<lifeVars, nextId, pollVars, maintVars>>

TakeCommand(w) ==
  /\ pc[w] = "idle" /\ ~closed
  /\ \E c \in FirstCommands :
       /\ commands' = commands \ {c}
       /\ begun' = begun \cup {c}
       /\ active' = active \cup {c.thing}
       /\ work' = [work EXCEPT ![w] = c]
       /\ pc' = [pc EXCEPT ![w] = "command"]
  /\ UNCHANGED <<lifeVars, nextId, pollVars, maintVars>>

TakePoll(w) ==
  /\ pc[w] = "idle" /\ ~closed
  /\ Available(commands) = {} /\ PollSlotFree
  /\ \E p \in Available(polls) :
       /\ polls' = polls \ {p}
       /\ active' = active \cup {p.thing}
       /\ work' = [work EXCEPT ![w] = p]
       /\ pc' = [pc EXCEPT ![w] = "claimed"]
  /\ runningPolls' = runningPolls + 1
  /\ UNCHANGED <<lifeVars, cmdVars, activePollCancel, cancelled, maintVars>>

NothingToDo ==
  /\ Available(commands) = {}
  /\ ~PollSlotFree \/ Available(polls) = {}

\* cond.Wait: no work for this worker.
WaitForWork(w) ==
  /\ pc[w] = "idle" /\ ~closed /\ NothingToDo
  /\ pc' = [pc EXCEPT ![w] = "waiting"]
  /\ UNCHANGED <<lifeVars, active, cmdVars, pollVars, maintVars, work>>

\* Variant: a worker leaves only when the queues are empty.
WorkerExitsDrained(w) ==
  /\ pc[w] = "idle" /\ closed /\ commands = {} /\ polls = {}
  /\ pc' = [pc EXCEPT ![w] = "exited"]
  /\ UNCHANGED <<lifeVars, active, cmdVars, pollVars, maintVars, work>>

WorkerExits(w) ==
  /\ pc[w] = "idle" /\ closed
  /\ pc' = [pc EXCEPT ![w] = "exited"]
  /\ UNCHANGED <<lifeVars, active, cmdVars, pollVars, maintVars, work>>

\* The poll context is a child of s.ctx: born cancelled if s.ctx is done.
SetActivePollCancel(w) ==
  /\ pc[w] = "claimed"
  /\ activePollCancel' = activePollCancel \cup {work[w].thing}
  /\ cancelled' = IF ctxDone THEN cancelled \cup {w} ELSE cancelled
  /\ pc' = [pc EXCEPT ![w] = "polling"]
  /\ UNCHANGED <<lifeVars, active, cmdVars, polls, runningPolls, maintVars, work>>

\* runtime.Poll returned; its context is released and unregistered.
ClearActivePollCancel(w) ==
  /\ pc[w] = "polling"
  /\ activePollCancel' = activePollCancel \ {work[w].thing}
  /\ cancelled' = cancelled \ {w}
  /\ pc' = [pc EXCEPT ![w] = "polled"]
  /\ UNCHANGED <<lifeVars, active, cmdVars, polls, runningPolls, maintVars, work>>

CompleteCommand(w) ==
  /\ pc[w] = "command"
  /\ active' = active \ {work[w].thing}
  /\ work' = [work EXCEPT ![w] = NoWork]
  /\ pc' = Broadcast([pc EXCEPT ![w] = "idle"])
  /\ UNCHANGED <<lifeVars, cmdVars, pollVars, maintVars>>

CompletePoll(w) ==
  /\ pc[w] = "polled"
  /\ LET m == work[w].cycle IN
       /\ pending' = [pending EXCEPT ![m] = @ - 1]
       /\ maintenanceActive' = (maintenanceActive /\ pending[m] # 1)
  /\ runningPolls' = runningPolls - 1
  /\ active' = active \ {work[w].thing}
  /\ work' = [work EXCEPT ![w] = NoWork]
  /\ pc' = Broadcast([pc EXCEPT ![w] = "idle"])
  /\ UNCHANGED <<lifeVars, cmdVars, polls, activePollCancel, cancelled, maint>>

-----------------------------------------------------------------------------
WorkerStep(w) ==
  \/ TakeCommand(w) \/ TakePoll(w) \/ WaitForWork(w) \/ WorkerExits(w)
  \/ SetActivePollCancel(w) \/ ClearActivePollCancel(w)
  \/ CompleteCommand(w) \/ CompletePoll(w)

MaintainStep(m) ==
  \/ DiscoverFails(m) \/ DiscoverSucceeds(m)
  \/ \E ts \in SUBSET Things : EnqueuePolls(m, ts)

Next ==
  \/ Start \/ ParentCancelled \/ Close \/ CloseReturns
  \/ \E m \in Maintainers : RequestMaintenance(m)
  \/ \E t \in Things : SubmitCommand(t)
  \/ \E m \in Maintainers : MaintainStep(m)
  \/ \E w \in Workers : WorkerStep(w)

Spec == Init /\ [][Next]_vars

\* Goroutines are scheduled; discovery, GET and PUT end by a network timeout.
Fairness ==
  /\ \A w \in Workers : WF_vars(WorkerStep(w))
  /\ \A m \in Maintainers : WF_vars(MaintainStep(m))
  /\ WF_vars(CloseReturns)

FairSpec == Spec /\ Fairness

-----------------------------------------------------------------------------
(* Properties.                                                             *)

\* "serializes work for each device": two workers never hold work of one
\* device, and s.active names exactly the devices that are held.
Serialized ==
  /\ \A v, w \in Busy : v # w => work[v].thing # work[w].thing
  /\ active = {work[w].thing : w \in Busy}

\* "leaves one worker available for commands while maintenance GETs are in
\* flight": runningPolls counts the workers inside a poll and they are never
\* the whole pool.
CommandCapacity ==
  /\ runningPolls = Cardinality(Polling)
  /\ \E w \in Workers : w \notin Polling

\* No worker sleeps in cond.Wait while there is work it could take or a
\* shutdown to observe: every section of the scheduler that makes work
\* available wakes the pool.
NoLostWakeup ==
  \A w \in Workers : pc[w] = "waiting" => ~closed /\ NothingToDo

CycleBusy(m) == maint[m] # "idle" \/ pending[m] > 0

\* "coalesces discovery plus all resulting state GETs into one cycle":
\* maintenanceActive is up exactly while some goroutine or poll of a cycle is
\* unfinished, there is never a second cycle beside it, and so no device is
\* polled twice at a time.
CoalescedMaintenance ==
  /\ \A m, n \in Maintainers : CycleBusy(m) /\ CycleBusy(n) => m = n
  /\ maintenanceActive <=> \E m \in Maintainers : CycleBusy(m)
  /\ \A p \in polls : \A w \in Polling : work[w].thing # p.thing

\* A device's commands are handed to workers in submission order, each once.
CommandOrder ==
  \A b \in begun, c \in commands : b.thing = c.thing => b.id < c.id

\* A submitted command reaches a worker unless the scheduler is closed first.
CommandsRun == \A t \in Things :
  (\E c \in commands : c.thing = t) ~> (closed \/ ~\E c \in commands : c.thing = t)

\* A maintenance cycle ends, so that later ticks are not ignored for ever.
MaintenanceEnds == maintenanceActive ~> (~maintenanceActive \/ closed)

\* Close returns: no worker stays in cond.Wait or in a poll.
CloseTerminates == (closer = "waiting") ~> (closer = "returned")
=============================================================================
