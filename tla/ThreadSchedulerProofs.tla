------------------------ MODULE ThreadSchedulerProofs ------------------------
(***************************************************************************)
(* Proofs about the Thread scheduler for every set of devices, every pool  *)
(* of at least two workers and every number of commands.                   *)
(*                                                                         *)
(* The properties are not inductive one by one: that a counter stays a     *)
(* natural number needs the counter to agree with the workers' program     *)
(* counters, and that one device is polled once needs the whole cycle's    *)
(* bookkeeping.  IInv is their common strengthening.                       *)
(***************************************************************************)
EXTENDS ThreadScheduler, FiniteSetTheorems, TLAPS

\* Polls of cycle m still queued, and workers running one.
QueuedOf(m)  == {p \in polls : p.cycle = m}
RunningOf(m) == {w \in Polling : work[w].cycle = m}

\* runningPolls is exact and leaves a worker of the pool free.
PoolInv ==
  /\ runningPolls = Cardinality(Polling)
  /\ runningPolls < Cardinality(Workers)

\* A cycle's pending count is the number of its unfinished polls; there is one
\* cycle at a time, and its polls are of distinct devices.
CycleInv ==
  /\ IsFiniteSet(polls)
  /\ \A m \in Maintainers :
       /\ pending[m] = Cardinality(QueuedOf(m)) + Cardinality(RunningOf(m))
       /\ maint[m] # "idle" => pending[m] = 0
  /\ \A p, q \in polls : p.thing = q.thing => p = q
  /\ CoalescedMaintenance

\* Ids number the submissions, and a device's queue is behind its history.
OrderInv ==
  /\ \A c \in commands \cup begun : c.id < nextId
  /\ \A c, d \in commands : c.id = d.id => c = d
  /\ CommandOrder

\* Before Start there are no workers.
StartInv == ~started => \A w \in Workers : pc[w] = "off"

IInv ==
  /\ TypeOK /\ StartInv
  /\ Serialized /\ PoolInv /\ NoLostWakeup /\ CycleInv /\ OrderInv

USE DEF lifeVars, cmdVars, pollVars, maintVars, TypeOK

-----------------------------------------------------------------------------
(* Cardinalities.                                                          *)

\* The pool's subsets are finite, so are their cardinalities.
LEMMA WorkerSets ==
  ASSUME NEW S \in SUBSET Workers
  PROVE  /\ IsFiniteSet(S) /\ Cardinality(S) \in Nat
         /\ S # Workers => Cardinality(S) < Cardinality(Workers)
<1>1. IsFiniteSet(Workers) BY Zenon, PoolAssumption DEF PoolAssumption
<1>2. IsFiniteSet(S) /\ Cardinality(S) <= Cardinality(Workers) BY Zenon, <1>1, FS_Subset
<1>3. Cardinality(S) \in Nat /\ Cardinality(Workers) \in Nat BY Zenon, <1>1, <1>2, FS_CardinalityType
<1>4. Cardinality(Workers) = Cardinality(S) => Workers = S BY Zenon, <1>1, FS_Subset
<1> QED BY <1>2, <1>3, <1>4

\* A queue of polls restricted to a cycle is finite.
LEMMA QueueSets ==
  ASSUME IsFiniteSet(polls), NEW m
  PROVE  IsFiniteSet(QueuedOf(m)) /\ Cardinality(QueuedOf(m)) \in Nat
BY Zenon, FS_Subset, FS_CardinalityType DEF QueuedOf

\* One poll per device: enqueuing ts makes Cardinality(ts) jobs.
LEMMA JobsOf ==
  ASSUME NEW m, NEW ts \in SUBSET Things
  PROVE  /\ IsFiniteSet(PollsFor(m, ts))
         /\ Cardinality(PollsFor(m, ts)) = Cardinality(ts)
         /\ Cardinality(ts) \in Nat
         /\ ts # {} => Cardinality(ts) > 0
<1> DEFINE J == PollsFor(m, ts)
           f == [t \in ts |-> [thing |-> t, cycle |-> m]]
<1>1. IsFiniteSet(ts) BY Zenon, PoolAssumption, FS_Subset DEF PoolAssumption
<1>2. f \in Bijection(ts, J) BY Zenon DEF PollsFor, Bijection, Injection, Surjection, IsInjective
<1>3. ExistsBijection(ts, J) BY Zenon, <1>2 DEF ExistsBijection
<1>4. IsFiniteSet(J) /\ Cardinality(J) = Cardinality(ts) BY Zenon, <1>1, <1>3, FS_Bijection
<1>5. Cardinality(ts) \in Nat BY Zenon, <1>1, FS_CardinalityType
<1>6. Cardinality(ts) = 0 <=> ts = {} BY Zenon, <1>1, FS_EmptySet
<1> QED BY <1>4, <1>5, <1>6

\* The sum of two counts, and the sum after one of them went down.
LEMMA SumOfCounts ==
  ASSUME NEW q \in Nat, NEW r \in Nat
  PROVE  q + r \in Nat
OBVIOUS

\* One job less running is one job less in all.
LEMMA OneLess ==
  ASSUME NEW q \in Nat, NEW r \in Nat, NEW l \in Nat, l = r - 1
  PROVE  (q + r) - 1 = q + l
OBVIOUS

-----------------------------------------------------------------------------
\* The empty scheduler of NewScheduler satisfies the invariant.
LEMMA InitIInv == Init => IInv
<1> SUFFICES ASSUME Init PROVE IInv OBVIOUS
<1>1. Busy = {} /\ Polling = {} BY Zenon DEF Init, Busy, Polling, BusyPC, PollPC
<1>2. TypeOK
  <2>1. QueueType BY PoolAssumption DEF Init, QueueType, PoolAssumption
  <2>2. \A w \in Workers : pc[w] = "off" /\ pc[w] \in PCs /\ work[w] \in Work
    BY Zenon DEF Init, PCs, Work
  <2>3. PoolType BY Zenon, <2>2 DEF Init, PoolType, PollPC
  <2>4. LifeType /\ CycleType BY Zenon DEF Init, LifeType, CycleType
  <2> QED BY Zenon, <2>1, <2>3, <2>4
<1>3. StartInv /\ Serialized /\ NoLostWakeup /\ OrderInv
  BY Zenon, <1>1 DEF Init, StartInv, Serialized, NoLostWakeup, OrderInv, CommandOrder
<1>4. PoolInv BY <1>1, PoolAssumption, FS_EmptySet, WorkerSets DEF Init, PoolInv, PoolAssumption
<1>5. CycleInv
  <2>1. \A m \in Maintainers : QueuedOf(m) = {} /\ RunningOf(m) = {}
    BY Zenon, <1>1 DEF Init, QueuedOf, RunningOf
  <2> QED BY <2>1, <1>1, FS_EmptySet DEF Init, CycleInv, CoalescedMaintenance, CycleBusy
<1> QED BY Zenon, <1>2, <1>3, <1>4, <1>5 DEF IInv

\* Waking the pool changes no claimed device and wakes every waiter.
LEMMA BroadcastKeepsClaims ==
  ASSUME NEW p
  PROVE  \A w \in Workers :
           /\ Broadcast(p)[w] # "waiting"
           /\ p[w] # "waiting" => Broadcast(p)[w] = p[w]
           /\ \A s \in BusyPC : Broadcast(p)[w] = s <=> p[w] = s
BY Zenon DEF Broadcast, BusyPC

\* A broadcast keeps the types of the workers.
LEMMA BroadcastType ==
  ASSUME PoolType, pc' = Broadcast(pc), work' = work, runningPolls' = runningPolls,
         cancelled' \subseteq Workers
  PROVE  PoolType'
<1>1. pc' \in [Workers -> PCs] BY Zenon DEF PoolType, Broadcast, PCs
<1>2. \A w \in Workers : \A s \in BusyPC : pc'[w] = s <=> pc[w] = s
  BY Zenon, BroadcastKeepsClaims
<1> QED BY Zenon, <1>1, <1>2 DEF PoolType, BusyPC, PollPC

\* So does a worker that gives its work back.
LEMMA ReleaseType ==
  ASSUME PoolType, NEW w \in Workers, pc' = Broadcast([pc EXCEPT ![w] = "idle"]),
         work' = [work EXCEPT ![w] = NoWork], runningPolls' \in Nat,
         cancelled' \subseteq Workers
  PROVE  PoolType'
<1>1. pc' \in [Workers -> PCs] BY Zenon DEF PoolType, Broadcast, PCs
<1>2. \A v \in Workers : \A s \in BusyPC : pc'[v] = s => v # w /\ pc[v] = s
  BY Zenon DEF Broadcast, PoolType, BusyPC
<1>3. work' \in [Workers -> Work] BY Zenon DEF PoolType, Work
<1>4. \A v \in Workers : v # w => work'[v] = work[v] BY Zenon DEF PoolType
<1> QED BY Zenon, <1>1, <1>2, <1>3, <1>4 DEF PoolType, BusyPC, PollPC

-----------------------------------------------------------------------------
(* Frame lemmas: what a conjunct of IInv depends on.                       *)

\* The claims depend on the claimed devices only.
LEMMA SerializedFrame ==
  ASSUME Serialized, Busy' = Busy, active' = active, \A w \in Busy : work'[w] = work[w]
  PROVE  Serialized'
BY DEF Serialized

\* The pool count depends on the workers inside a poll only.
LEMMA PoolFrame ==
  ASSUME PoolInv, Polling' = Polling, runningPolls' = runningPolls
  PROVE  PoolInv'
BY Zenon DEF PoolInv

\* The cycle bookkeeping depends on the polls, queued and running.
LEMMA CycleFrame ==
  ASSUME CycleInv, Polling' = Polling, \A w \in Polling : work'[w] = work[w],
         UNCHANGED <<polls, maintVars>>
  PROVE  CycleInv'
<1>1. \A m \in Maintainers : QueuedOf(m)' = QueuedOf(m) /\ RunningOf(m)' = RunningOf(m)
  BY Zenon DEF QueuedOf, RunningOf
<1> QED BY Zenon, <1>1 DEF CycleInv, CoalescedMaintenance, CycleBusy

\* The command order depends on the queue and its history only.
LEMMA OrderFrame ==
  ASSUME OrderInv, UNCHANGED cmdVars
  PROVE  OrderInv'
BY Zenon DEF OrderInv, CommandOrder

\* A waiter is justified by the queues, the claims and the closed flag.
LEMMA WakeFrame ==
  ASSUME NoLostWakeup, \A w \in Workers : pc'[w] = "waiting" => pc[w] = "waiting",
         UNCHANGED <<closed, active, commands, polls, runningPolls>>
  PROVE  NoLostWakeup'
BY Zenon DEF NoLostWakeup, NothingToDo, PollSlotFree, Available

\* A section that broadcasts leaves no waiter, and keeps every claim.
LEMMA BroadcastFrame ==
  ASSUME NEW p, pc' = Broadcast(p)
  PROVE  /\ NoLostWakeup'
         /\ Busy' = {w \in Workers : p[w] \in BusyPC}
         /\ Polling' = {w \in Workers : p[w] \in PollPC}
BY Zenon, BroadcastKeepsClaims DEF NoLostWakeup, Busy, Polling, BusyPC, PollPC, Broadcast

-----------------------------------------------------------------------------
(* Operations of the scheduler's callers.                                  *)

\* Start creates idle workers that hold nothing.
LEMMA StartStep == IInv /\ Start => IInv'
<1> SUFFICES ASSUME IInv, Start PROVE IInv' OBVIOUS
<1> USE DEF IInv, Start
<1>1. \A w \in Workers : pc[w] = "off" /\ pc'[w] = "idle"
  BY Zenon DEF StartInv
<1>2. Busy = {} /\ Busy' = {} /\ Polling = {} /\ Polling' = {}
  BY Zenon, <1>1 DEF Busy, Polling, BusyPC, PollPC
<1>3. TypeOK'
  <2>1. PoolType' BY Zenon, <1>1 DEF PoolType, PCs, PollPC
  <2> QED BY Zenon, <2>1 DEF LifeType, QueueType, CycleType
<1>4. StartInv' BY Zenon DEF StartInv
<1>5. Serialized' BY Zenon, <1>2, SerializedFrame
<1>6. PoolInv' BY Zenon, <1>2, PoolFrame
<1>7. NoLostWakeup' BY Zenon, <1>1 DEF NoLostWakeup
<1>8. CycleInv' BY Zenon, <1>2, CycleFrame
<1>9. OrderInv' BY Zenon, OrderFrame
<1> QED BY Zenon, <1>3, <1>4, <1>5, <1>6, <1>7, <1>8, <1>9

\* Cancelling contexts and returning from Close disturb no bookkeeping.
LEMMA QuietStep ==
  ASSUME IInv, ParentCancelled \/ CloseReturns \/ UNCHANGED vars
  PROVE  IInv'
<1> USE DEF IInv, ParentCancelled, CloseReturns, vars
<1>1. UNCHANGED <<started, closed, active, cmdVars, polls, runningPolls, maintVars, pc, work>>
  OBVIOUS
<1>2. Busy' = Busy /\ Polling' = Polling
  BY Zenon, <1>1 DEF Busy, Polling
<1>3. TypeOK'
  <2>1. LifeType' BY Zenon DEF LifeType
  <2>2. QueueType' /\ CycleType' BY Zenon DEF QueueType, CycleType
  <2>3. PoolType' BY Zenon DEF PoolType
  <2> QED BY Zenon, <2>1, <2>2, <2>3
<1>4. StartInv' BY Zenon, <1>1 DEF StartInv
<1>5. Serialized' BY Zenon, <1>1, <1>2, SerializedFrame
<1>6. PoolInv' BY Zenon, <1>1, <1>2, PoolFrame
<1>7. NoLostWakeup' BY Zenon, <1>1, WakeFrame
<1>8. CycleInv' BY Zenon, <1>1, <1>2, CycleFrame
<1>9. OrderInv' BY Zenon, <1>1, OrderFrame
<1> QED BY Zenon, <1>3, <1>4, <1>5, <1>6, <1>7, <1>8, <1>9

\* Close wakes the pool.
LEMMA CloseStep == IInv /\ Close => IInv'
<1> SUFFICES ASSUME IInv, Close PROVE IInv' OBVIOUS
<1> USE DEF IInv, Close
<1>1. NoLostWakeup' /\ Busy' = Busy /\ Polling' = Polling
  BY Zenon, BroadcastFrame DEF Busy, Polling
<1>2. TypeOK'
  <2>1. cancelled' \subseteq Workers BY Zenon DEF PoolType
  <2>2. PoolType' BY Zenon, <2>1, BroadcastType
  <2> QED BY Zenon, <2>2 DEF LifeType, QueueType, CycleType
<1>3. StartInv' BY Zenon DEF StartInv, Broadcast
<1>4. Serialized' BY Zenon, <1>1, SerializedFrame
<1>5. PoolInv' BY Zenon, <1>1, PoolFrame
<1>6. CycleInv' BY Zenon, <1>1, CycleFrame
<1>7. OrderInv' BY Zenon, OrderFrame
<1> QED BY Zenon, <1>1, <1>2, <1>3, <1>4, <1>5, <1>6, <1>7

\* A tick opens a cycle only when none is open.
LEMMA RequestStep ==
  ASSUME IInv, NEW m \in Maintainers, RequestMaintenance(m)
  PROVE  IInv'
<1> USE DEF IInv, RequestMaintenance
<1>1. Busy' = Busy /\ Polling' = Polling BY Zenon DEF Busy, Polling
<1>2. TypeOK'
  <2>1. CycleType' BY Zenon DEF CycleType
  <2>2. LifeType' /\ QueueType' /\ PoolType' BY Zenon DEF LifeType, QueueType, PoolType
  <2> QED BY Zenon, <2>1, <2>2
<1>3. StartInv' BY Zenon DEF StartInv
<1>4. Serialized' BY Zenon, <1>1, SerializedFrame
<1>5. PoolInv' BY Zenon, <1>1, PoolFrame
<1>6. NoLostWakeup' BY Zenon, WakeFrame
<1>7. CycleInv'
  <2>1. \A n \in Maintainers : QueuedOf(n)' = QueuedOf(n) /\ RunningOf(n)' = RunningOf(n)
    BY Zenon, <1>1 DEF QueuedOf, RunningOf
  <2>2. \A n \in Maintainers : CycleBusy(n)' => n = m
    BY Zenon DEF CycleInv, CoalescedMaintenance, CycleBusy, CycleType
  <2>3. CycleBusy(m)' BY Zenon DEF CycleBusy, CycleType
  <2> QED BY Zenon, <1>1, <2>1, <2>2, <2>3 DEF CycleInv, CoalescedMaintenance, CycleType
<1>8. OrderInv' BY Zenon, OrderFrame
<1> QED BY Zenon, <1>2, <1>3, <1>4, <1>5, <1>6, <1>7, <1>8

\* A submission gets a fresh id, so it queues behind its device's history.
LEMMA SubmitStep ==
  ASSUME IInv, NEW t \in Things, SubmitCommand(t)
  PROVE  IInv'
<1> USE DEF IInv, SubmitCommand
<1>1. NoLostWakeup' /\ Busy' = Busy /\ Polling' = Polling
  BY Zenon, BroadcastFrame DEF Busy, Polling
<1>2. TypeOK'
  <2>1. QueueType' BY PoolAssumption DEF QueueType, Command, PoolAssumption
  <2>2. cancelled' \subseteq Workers BY Zenon DEF PoolType, CancelPollsOf
  <2>3. PoolType' BY Zenon, <2>2, BroadcastType
  <2> QED BY Zenon, <2>1, <2>3 DEF LifeType, CycleType
<1>3. StartInv' BY Zenon DEF StartInv, Broadcast
<1>4. Serialized' BY Zenon, <1>1, SerializedFrame
<1>5. PoolInv' BY Zenon, <1>1, PoolFrame
<1>6. CycleInv' BY Zenon, <1>1, CycleFrame
<1>7. OrderInv'
  BY PoolAssumption DEF OrderInv, CommandOrder, QueueType, Command, PoolAssumption
<1> QED BY Zenon, <1>1, <1>2, <1>3, <1>4, <1>5, <1>6, <1>7

-----------------------------------------------------------------------------
(* The maintain goroutine.                                                 *)

\* A failed discovery closes the cycle, which has no polls.
LEMMA DiscoverFailsStep ==
  ASSUME IInv, NEW m \in Maintainers, DiscoverFails(m)
  PROVE  IInv'
<1> USE DEF IInv, DiscoverFails
<1>1. Busy' = Busy /\ Polling' = Polling BY Zenon DEF Busy, Polling
<1>2. TypeOK'
  <2>1. CycleType' BY Zenon DEF CycleType
  <2>2. LifeType' /\ QueueType' /\ PoolType' BY Zenon DEF LifeType, QueueType, PoolType
  <2> QED BY Zenon, <2>1, <2>2
<1>3. StartInv' BY Zenon DEF StartInv
<1>4. Serialized' BY Zenon, <1>1, SerializedFrame
<1>5. PoolInv' BY Zenon, <1>1, PoolFrame
<1>6. NoLostWakeup' BY Zenon, WakeFrame
<1>7. CycleInv'
  <2>1. \A n \in Maintainers : QueuedOf(n)' = QueuedOf(n) /\ RunningOf(n)' = RunningOf(n)
    BY Zenon, <1>1 DEF QueuedOf, RunningOf
  <2>2. CycleBusy(m) /\ pending[m] = 0 BY Zenon DEF CycleInv, CycleBusy
  <2>3. \A n \in Maintainers : ~CycleBusy(n)'
    BY <2>2 DEF CycleInv, CoalescedMaintenance, CycleBusy, CycleType
  <2> QED BY Zenon, <1>1, <2>1, <2>3 DEF CycleInv, CoalescedMaintenance, CycleType
<1>8. OrderInv' BY Zenon, OrderFrame
<1> QED BY Zenon, <1>2, <1>3, <1>4, <1>5, <1>6, <1>7, <1>8

\* A successful discovery keeps the cycle open.
LEMMA DiscoverSucceedsStep ==
  ASSUME IInv, NEW m \in Maintainers, DiscoverSucceeds(m)
  PROVE  IInv'
<1> USE DEF IInv, DiscoverSucceeds
<1>1. Busy' = Busy /\ Polling' = Polling BY Zenon DEF Busy, Polling
<1>2. TypeOK'
  <2>1. CycleType' BY Zenon DEF CycleType
  <2>2. LifeType' /\ QueueType' /\ PoolType' BY Zenon DEF LifeType, QueueType, PoolType
  <2> QED BY Zenon, <2>1, <2>2
<1>3. StartInv' BY Zenon DEF StartInv
<1>4. Serialized' BY Zenon, <1>1, SerializedFrame
<1>5. PoolInv' BY Zenon, <1>1, PoolFrame
<1>6. NoLostWakeup' BY Zenon, WakeFrame
<1>7. CycleInv'
  <2>1. \A n \in Maintainers : QueuedOf(n)' = QueuedOf(n) /\ RunningOf(n)' = RunningOf(n)
    BY Zenon, <1>1 DEF QueuedOf, RunningOf
  <2>2. \A n \in Maintainers : CycleBusy(n)' <=> CycleBusy(n)
    BY Zenon DEF CycleBusy, CycleType
  <2> QED BY Zenon, <1>1, <2>1, <2>2 DEF CycleInv, CoalescedMaintenance, CycleType
<1>8. OrderInv' BY Zenon, OrderFrame
<1> QED BY Zenon, <1>2, <1>3, <1>4, <1>5, <1>6, <1>7, <1>8

\* A cycle that enqueues is alone: no poll is queued or running before it.
LEMMA EnqueueStep ==
  ASSUME IInv, NEW m \in Maintainers, NEW ts \in SUBSET Things, EnqueuePolls(m, ts)
  PROVE  IInv'
<1> USE DEF IInv, EnqueuePolls
<1>1. CycleBusy(m) /\ pending[m] = 0 /\ \A n \in Maintainers : CycleBusy(n) => n = m
  BY Zenon DEF CycleInv, CoalescedMaintenance, CycleBusy
<1>2. \A n \in Maintainers : pending[n] = 0
  BY <1>1 DEF CycleBusy, CycleType
<1>3. \A n \in Maintainers : QueuedOf(n) = {} /\ RunningOf(n) = {}
  <2> SUFFICES ASSUME NEW n \in Maintainers PROVE QueuedOf(n) = {} /\ RunningOf(n) = {}
    OBVIOUS
  <2>1. IsFiniteSet(QueuedOf(n)) /\ Cardinality(QueuedOf(n)) \in Nat
    BY Zenon, QueueSets DEF CycleInv
  <2>2. IsFiniteSet(RunningOf(n)) /\ Cardinality(RunningOf(n)) \in Nat
    BY Zenon, WorkerSets DEF RunningOf, Polling
  <2>3. 0 = Cardinality(QueuedOf(n)) + Cardinality(RunningOf(n))
    BY Zenon, <1>2 DEF CycleInv
  <2> QED BY <2>1, <2>2, <2>3, FS_EmptySet
<1>4. polls = {} /\ Polling = {}
  BY Zenon, <1>3 DEF QueuedOf, RunningOf, Polling, QueueType, PollJob, PoolType
<1>5. CASE closed \/ ts = {}
  <2>1. maintenanceActive' = FALSE /\ UNCHANGED <<polls, pending, pc>> BY Zenon, <1>5
  <2>2. Busy' = Busy /\ Polling' = Polling BY Zenon, <2>1 DEF Busy, Polling
  <2>3. TypeOK'
    <3>1. CycleType' BY Zenon, <2>1 DEF CycleType
    <3>2. LifeType' /\ QueueType' /\ PoolType' BY Zenon, <2>1 DEF LifeType, QueueType, PoolType
    <3> QED BY Zenon, <3>1, <3>2
  <2>4. StartInv' BY Zenon, <2>1 DEF StartInv
  <2>5. Serialized' BY Zenon, <2>2, SerializedFrame
  <2>6. PoolInv' BY Zenon, <2>2, PoolFrame
  <2>7. NoLostWakeup' BY SMTT(30), <2>1, WakeFrame
  <2>8. \A n \in Maintainers : QueuedOf(n)' = QueuedOf(n) /\ RunningOf(n)' = RunningOf(n)
    BY Zenon, <2>1, <2>2 DEF QueuedOf, RunningOf
  <2>9. \A n \in Maintainers : ~CycleBusy(n)'
    BY SMTT(60), <1>1, <1>2, <2>1 DEF CycleBusy, CycleType
  <2>10. CycleInv'
    BY <2>1, <2>2, <2>8, <2>9 DEF CycleInv, CoalescedMaintenance, CycleType
  <2>11. OrderInv' BY Zenon, OrderFrame
  <2> QED BY Zenon, <2>3, <2>4, <2>5, <2>6, <2>7, <2>10, <2>11
<1>6. CASE ~closed /\ ts # {}
  <2> DEFINE J == PollsFor(m, ts)
  <2>1. /\ pending' = [pending EXCEPT ![m] = Cardinality(ts)] /\ polls' = J
        /\ pc' = Broadcast(pc) /\ maintenanceActive' = maintenanceActive
    BY Zenon, <1>4, <1>6
  <2>2. NoLostWakeup' /\ Busy' = Busy /\ Polling' = Polling
    BY Zenon, <2>1, BroadcastFrame DEF Busy, Polling
  <2>3. IsFiniteSet(J) /\ Cardinality(J) = Cardinality(ts) /\ Cardinality(ts) \in Nat
        /\ Cardinality(ts) > 0
    BY Zenon, <1>6, JobsOf
  <2>4. TypeOK'
    <3>1. PoolType' BY Zenon, <2>1, BroadcastType DEF PoolType
    <3>2. QueueType' BY <2>1 DEF QueueType, PollsFor, PollJob
    <3>3. CycleType' BY Zenon, <2>1, <2>3 DEF CycleType
    <3> QED BY SMTT(30), <3>1, <3>2, <3>3 DEF LifeType
  <2>5. StartInv' BY Zenon, <2>1 DEF StartInv, Broadcast
  <2>6. Serialized' BY Zenon, <2>2, SerializedFrame
  <2>7. PoolInv' BY SMTT(30), <2>2, PoolFrame
  <2>8. CycleInv'
    <3>1. QueuedOf(m)' = J /\ \A n \in Maintainers : n # m => QueuedOf(n)' = {}
      BY <2>1 DEF QueuedOf, PollsFor
    <3>2. \A n \in Maintainers : RunningOf(n)' = {}
      BY Zenon, <1>4, <2>2 DEF RunningOf
    <3>3. \A n \in Maintainers : CycleBusy(n)' <=> n = m
      BY SMTT(60), <1>1, <1>2, <2>1, <2>3 DEF CycleBusy, CycleType
    <3>4. ASSUME NEW n \in Maintainers
          PROVE  /\ pending'[n] = Cardinality(QueuedOf(n)') + Cardinality(RunningOf(n)')
                 /\ maint'[n] # "idle" => pending'[n] = 0
      <4>1. maint'[n] = "idle"
        BY Zenon, <1>1 DEF CycleBusy, CycleType
      <4>2. Cardinality(RunningOf(n)') = 0
        BY SMTT(30), <3>2, FS_EmptySet
      <4> HIDE DEF J
      <4>3. CASE n = m
        <5>1. pending'[n] = Cardinality(ts) BY SMTT(30), <2>1, <4>3 DEF CycleType
        <5>2. Cardinality(QueuedOf(n)') = Cardinality(ts) BY Zenon, <2>3, <3>1, <4>3
        <5>3. Cardinality(ts) = Cardinality(ts) + 0 BY <2>3
        <5> QED BY Zenon, <4>1, <4>2, <5>1, <5>2, <5>3
      <4>4. CASE n # m
        <5>1. pending'[n] = 0 BY SMTT(30), <1>2, <2>1, <4>4 DEF CycleType
        <5>2. Cardinality(QueuedOf(n)') = 0 BY Zenon, <3>1, <4>4, FS_EmptySet
        <5> QED BY SMTT(30), <4>1, <4>2, <5>1, <5>2
      <4> QED BY Zenon, <4>3, <4>4
    <3>5. \A p, q \in polls' : p.thing = q.thing => p = q
      BY SMTT(60), <2>1 DEF PollsFor
    <3>6. maintenanceActive'
      BY Zenon, <1>1, <2>1 DEF CycleInv, CoalescedMaintenance, CycleBusy
    <3>7. CoalescedMaintenance'
      BY Zenon, <1>4, <2>2, <3>3, <3>6 DEF CoalescedMaintenance
    <3> QED BY SMTT(30), <2>1, <2>3, <3>4, <3>5, <3>7 DEF CycleInv
  <2>9. OrderInv' BY Zenon, OrderFrame
  <2> QED BY Zenon, <2>2, <2>4, <2>5, <2>6, <2>7, <2>8, <2>9
<1> QED BY SMTT(60), <1>5, <1>6

-----------------------------------------------------------------------------
(* The worker goroutines.                                                  *)

\* The oldest free command leaves the queue for the history.
LEMMA TakeCommandStep ==
  ASSUME IInv, NEW w \in Workers, TakeCommand(w)
  PROVE  IInv'
<1> USE DEF IInv
<1>1. PICK c \in FirstCommands :
        /\ commands' = commands \ {c} /\ begun' = begun \cup {c}
        /\ active' = active \cup {c.thing}
        /\ work' = [work EXCEPT ![w] = c] /\ pc' = [pc EXCEPT ![w] = "command"]
  BY Zenon DEF TakeCommand
<1>2. /\ c \in commands /\ c.thing \notin active
      /\ \A d \in commands : d.thing \notin active => c.id <= d.id
  BY Zenon DEF FirstCommands, Available
<1>3. /\ pc[w] = "idle" /\ ~closed
      /\ UNCHANGED <<lifeVars, nextId, pollVars, maintVars>>
  BY Zenon DEF TakeCommand
<1>4. Busy' = Busy \cup {w} /\ w \notin Busy /\ Polling' = Polling
  BY Zenon, <1>1, <1>3 DEF Busy, Polling, PoolType, PCs, BusyPC, PollPC
<1>5. TypeOK'
  <2>1. QueueType' BY SMTT(30), <1>1, <1>2, <1>3 DEF QueueType, Command
  <2>2. PoolType' BY Zenon, <1>1, <1>2, <1>3 DEF PoolType, QueueType, PCs, PollPC, BusyPC, Work
  <2> QED BY Zenon, <1>3, <2>1, <2>2 DEF LifeType, CycleType
<1>6. StartInv' BY Zenon, <1>1, <1>3 DEF StartInv, PoolType, PCs, BusyPC
<1>7. \A v \in Busy : work'[v] = work[v] BY Zenon, <1>1, <1>4 DEF Busy, PoolType
<1>8. work'[w] = c BY SMTT(60), <1>1 DEF PoolType
<1>9. Serialized'
  BY <1>1, <1>2, <1>4, <1>7, <1>8 DEF Serialized
<1>10. PoolInv' BY SMTT(60), <1>3, <1>4, PoolFrame
<1>11. NoLostWakeup'
  BY SMTT(60), <1>1, <1>2, <1>3 DEF NoLostWakeup, NothingToDo, PollSlotFree, Available, PoolType, PCs, BusyPC
<1>12. CycleInv'
  <2>1. \A v \in Polling : work'[v] = work[v] BY SMTT(30), <1>7 DEF Busy, Polling, BusyPC, PollPC
  <2> QED BY Zenon, <1>3, <1>4, <2>1, CycleFrame
<1>13. OrderInv'
  <2>1. c.id \in Nat /\ nextId \in Nat /\ \A d \in commands \cup begun : d.id \in Nat
    BY <1>2, PoolAssumption DEF QueueType, Command, PoolAssumption
  <2>2. \A d \in commands' : d.thing = c.thing => c.id < d.id
    BY <1>1, <1>2, <2>1 DEF OrderInv
  <2> QED BY Zenon, <1>1, <1>2, <1>3, <2>1, <2>2 DEF OrderInv, CommandOrder
<1> QED BY Zenon, <1>5, <1>6, <1>9, <1>10, <1>11, <1>12, <1>13

\* A poll moves from its cycle's queue to its cycle's running workers.
LEMMA TakePollStep ==
  ASSUME IInv, NEW w \in Workers, TakePoll(w)
  PROVE  IInv'
<1> USE DEF IInv
<1>1. PICK p \in Available(polls) :
        /\ polls' = polls \ {p} /\ active' = active \cup {p.thing}
        /\ work' = [work EXCEPT ![w] = p] /\ pc' = [pc EXCEPT ![w] = "claimed"]
  BY Zenon DEF TakePoll
<1>2. p \in polls /\ p \in PollJob /\ p.thing \notin active
  BY Zenon DEF Available, QueueType
<1>3. /\ pc[w] = "idle" /\ ~closed /\ PollSlotFree
      /\ runningPolls' = runningPolls + 1
      /\ UNCHANGED <<lifeVars, cmdVars, activePollCancel, cancelled, maintVars>>
  BY Zenon DEF TakePoll
<1>4. Busy' = Busy \cup {w} /\ w \notin Busy /\ Polling' = Polling \cup {w} /\ w \notin Polling
  BY Zenon, <1>1, <1>3 DEF Busy, Polling, PoolType, PCs, BusyPC, PollPC
<1>5. TypeOK'
  <2>1. QueueType' BY Zenon, <1>1, <1>2, <1>3 DEF QueueType, PollJob
  <2>2. PoolType' BY <1>1, <1>2, <1>3 DEF PoolType, PCs, PollPC, BusyPC, Work
  <2> QED BY Zenon, <1>3, <2>1, <2>2 DEF LifeType, CycleType
<1>6. StartInv' BY Zenon, <1>1, <1>3 DEF StartInv, PoolType, PCs, BusyPC
<1>7. \A v \in Busy : work'[v] = work[v] BY Zenon, <1>1, <1>4 DEF Busy, PoolType
<1>8. work'[w] = p BY Zenon, <1>1 DEF PoolType
<1>9. Serialized'
  BY <1>1, <1>2, <1>4, <1>7, <1>8 DEF Serialized
<1>10. PoolInv'
  <2>1. IsFiniteSet(Polling) /\ Cardinality(Polling) \in Nat BY Zenon, WorkerSets DEF Polling
  <2>2. Cardinality(Polling') = Cardinality(Polling) + 1 BY ZenonT(60), <1>4, <2>1, FS_AddElement
  <2>3. Cardinality(Workers) \in Nat BY SMTT(30), WorkerSets
  <2> QED BY Zenon, <1>3, <2>1, <2>2, <2>3 DEF PoolInv, PollSlotFree
<1>11. NoLostWakeup'
  BY Zenon, <1>1, <1>2, <1>3, WorkerSets DEF NoLostWakeup, NothingToDo, PollSlotFree, Available, PoolType, PCs, BusyPC
<1>12. \A v \in Polling : work'[v] = work[v] BY SMTT(30), <1>7 DEF Busy, Polling, BusyPC, PollPC
<1>13. ASSUME NEW m \in Maintainers
       PROVE  pending'[m] = Cardinality(QueuedOf(m)') + Cardinality(RunningOf(m)')
  <2>1. IsFiniteSet(QueuedOf(m)) /\ Cardinality(QueuedOf(m)) \in Nat
    BY SMTT(30), QueueSets DEF CycleInv
  <2>2. IsFiniteSet(RunningOf(m)) /\ Cardinality(RunningOf(m)) \in Nat
    BY Zenon, WorkerSets DEF RunningOf, Polling
  <2>3. pending'[m] = Cardinality(QueuedOf(m)) + Cardinality(RunningOf(m))
    BY Zenon, <1>3 DEF CycleInv
  <2>4. CASE p.cycle = m
    <3>1. QueuedOf(m)' = QueuedOf(m) \ {p} /\ p \in QueuedOf(m)
      BY Zenon, <1>1, <1>2, <2>4 DEF QueuedOf
    <3>2. RunningOf(m)' = RunningOf(m) \cup {w} /\ w \notin RunningOf(m)
      BY Zenon, <1>4, <1>8, <1>12, <2>4 DEF RunningOf
    <3>3. Cardinality(QueuedOf(m)') = Cardinality(QueuedOf(m)) - 1
      BY Zenon, <2>1, <3>1, FS_RemoveElement
    <3>4. Cardinality(RunningOf(m)') = Cardinality(RunningOf(m)) + 1
      BY SMTT(60), <2>2, <3>2, FS_AddElement
    <3> QED BY <2>1, <2>2, <2>3, <3>3, <3>4
  <2>5. CASE p.cycle # m
    <3>1. QueuedOf(m)' = QueuedOf(m) BY <1>1, <2>5 DEF QueuedOf
    <3>2. RunningOf(m)' = RunningOf(m) BY SMTT(60), <1>4, <1>8, <1>12, <2>5 DEF RunningOf
    <3> QED BY Zenon, <2>3, <3>1, <3>2
  <2> QED BY SMTT(60), <2>4, <2>5
<1>14. CycleInv'
  <2>1. IsFiniteSet(polls') BY SMTT(60), <1>1, FS_RemoveElement DEF CycleInv
  <2>2. \A q \in polls' : q.thing # p.thing BY SMTT(60), <1>1, <1>2 DEF CycleInv
  <2>3. ASSUME NEW q \in polls', NEW v \in Polling' PROVE work'[v].thing # q.thing
    <3>1. CASE v = w BY Zenon, <1>8, <2>2, <3>1
    <3>2. CASE v # w
      <4>1. q \in polls /\ v \in Polling BY SMTT(30), <1>1, <1>4, <3>2
      <4>2. work[v].thing # q.thing BY Zenon, <4>1 DEF CycleInv, CoalescedMaintenance
      <4> QED BY Zenon, <1>12, <4>1, <4>2
    <3> QED BY Zenon, <3>1, <3>2
  <2>4. CoalescedMaintenance'
    BY Zenon, <1>3, <2>3 DEF CycleInv, CoalescedMaintenance, CycleBusy
  <2> QED BY SMTT(60), <1>1, <1>3, <1>13, <2>1, <2>4 DEF CycleInv
<1>15. OrderInv' BY Zenon, <1>3, OrderFrame
<1> QED BY Zenon, <1>5, <1>6, <1>9, <1>10, <1>11, <1>14, <1>15

\* A worker sleeps only when it found nothing, and exits only when closed.
LEMMA IdleStep ==
  ASSUME IInv, NEW w \in Workers, WaitForWork(w) \/ WorkerExits(w)
  PROVE  IInv'
<1> USE DEF IInv
<1>1. /\ pc[w] = "idle"
      /\ UNCHANGED <<lifeVars, active, cmdVars, pollVars, maintVars, work>>
      /\ \/ pc' = [pc EXCEPT ![w] = "waiting"] /\ ~closed /\ NothingToDo
         \/ pc' = [pc EXCEPT ![w] = "exited"]
  BY Zenon DEF WaitForWork, WorkerExits
<1>2. Busy' = Busy /\ Polling' = Polling BY Zenon, <1>1 DEF Busy, Polling, PoolType, PCs, BusyPC, PollPC
<1>3. TypeOK'
  <2>1. PoolType' BY Zenon, <1>1 DEF PoolType, PCs, PollPC
  <2> QED BY Zenon, <1>1, <2>1 DEF LifeType, QueueType, CycleType
<1>4. StartInv' BY Zenon, <1>1 DEF StartInv, PoolType, PCs, BusyPC
<1>5. Serialized' BY Zenon, <1>1, <1>2, SerializedFrame
<1>6. PoolInv' BY SMTT(60), <1>1, <1>2, PoolFrame
<1>7. NoLostWakeup'
  BY Zenon, <1>1 DEF NoLostWakeup, NothingToDo, PollSlotFree, Available, PoolType, PCs, BusyPC
<1>8. CycleInv' BY Zenon, <1>1, <1>2, CycleFrame
<1>9. OrderInv' BY Zenon, <1>1, OrderFrame
<1> QED BY SMTT(30), <1>3, <1>4, <1>5, <1>6, <1>7, <1>8, <1>9

\* Registering and releasing a poll context stay inside the same poll.
LEMMA PollContextStep ==
  ASSUME IInv, NEW w \in Workers, SetActivePollCancel(w) \/ ClearActivePollCancel(w)
  PROVE  IInv'
<1> USE DEF IInv
<1>1. /\ pc[w] \in PollPC
      /\ UNCHANGED <<lifeVars, active, cmdVars, polls, runningPolls, maintVars, work>>
      /\ pc' = [pc EXCEPT ![w] = "polling"] \/ pc' = [pc EXCEPT ![w] = "polled"]
  BY Zenon DEF SetActivePollCancel, ClearActivePollCancel, PollPC
<1>2. Busy' = Busy /\ Polling' = Polling BY Zenon, <1>1 DEF Busy, Polling, PoolType, PCs, BusyPC, PollPC
<1>3. TypeOK'
  <2>1. cancelled' \subseteq Workers
    BY Zenon DEF SetActivePollCancel, ClearActivePollCancel, PoolType
  <2>2. PoolType' BY SMTT(60), <1>1, <2>1 DEF PoolType, PCs, PollPC, BusyPC
  <2>3. QueueType'
    BY Zenon, <1>1 DEF SetActivePollCancel, ClearActivePollCancel, QueueType, PoolType, PollPC, PollJob
  <2> QED BY Zenon, <1>1, <2>2, <2>3 DEF LifeType, CycleType
<1>4. StartInv' BY Zenon, <1>1 DEF StartInv, PoolType, PollPC
<1>5. Serialized' BY Zenon, <1>1, <1>2, SerializedFrame
<1>6. PoolInv' BY Zenon, <1>1, <1>2, PoolFrame
<1>7. NoLostWakeup'
  <2>1. \A v \in Workers : pc'[v] = "waiting" => pc[v] = "waiting" BY Zenon, <1>1 DEF PoolType, PCs, BusyPC
  <2> QED BY Zenon, <1>1, <2>1, WakeFrame
<1>8. CycleInv' BY Zenon, <1>1, <1>2, CycleFrame
<1>9. OrderInv' BY Zenon, <1>1, OrderFrame
<1> QED BY SMTT(60), <1>3, <1>4, <1>5, <1>6, <1>7, <1>8, <1>9

\* Giving a device back leaves the other claims alone.
LEMMA ReleaseClaim ==
  ASSUME TypeOK, Serialized, NEW w \in Busy, Busy' = Busy \ {w},
         active' = active \ {work[w].thing}, work' = [work EXCEPT ![w] = NoWork]
  PROVE  Serialized' /\ \A v \in Busy : v # w => work'[v] = work[v]
<1>1. \A v \in Busy : v # w => work'[v] = work[v] BY Zenon DEF PoolType, Busy
<1> QED BY <1>1 DEF Serialized

\* A finished command frees its device.
LEMMA CompleteCommandStep ==
  ASSUME IInv, NEW w \in Workers, CompleteCommand(w)
  PROVE  IInv'
<1> USE DEF IInv
<1> DEFINE p == [pc EXCEPT ![w] = "idle"]
<1>1. /\ pc[w] = "command" /\ pc' = Broadcast(p)
      /\ active' = active \ {work[w].thing} /\ work' = [work EXCEPT ![w] = NoWork]
      /\ UNCHANGED <<lifeVars, cmdVars, pollVars, maintVars>>
  BY Zenon DEF CompleteCommand
<1>2. /\ NoLostWakeup' /\ Busy' = {v \in Workers : p[v] \in BusyPC}
      /\ Polling' = {v \in Workers : p[v] \in PollPC}
  BY Zenon, <1>1, BroadcastFrame
<1>3. w \in Busy /\ Busy' = Busy \ {w} /\ w \notin Polling /\ Polling' = Polling
  BY Zenon, <1>1, <1>2 DEF Busy, Polling, PoolType, PCs, BusyPC, PollPC
<1>4. Serialized' /\ \A v \in Busy : v # w => work'[v] = work[v]
  BY Zenon, <1>1, <1>3, ReleaseClaim
<1>5. TypeOK'
  <2>1. PoolType' BY Zenon, <1>1, ReleaseType DEF PoolType
  <2> QED BY Zenon, <1>1, <2>1 DEF LifeType, QueueType, CycleType
<1>6. StartInv' BY Zenon, <1>1 DEF StartInv
<1>7. PoolInv' BY Zenon, <1>1, <1>3, PoolFrame
<1>8. CycleInv'
  <2>1. \A v \in Polling : work'[v] = work[v] BY Zenon, <1>3, <1>4 DEF Busy, Polling, BusyPC, PollPC
  <2> QED BY SMTT(60), <1>1, <1>3, <2>1, CycleFrame
<1>9. OrderInv' BY Zenon, <1>1, OrderFrame
<1> QED BY Zenon, <1>2, <1>4, <1>5, <1>6, <1>7, <1>8, <1>9

\* A finished poll frees its device and its cycle's count; the last one closes
\* the cycle.
LEMMA CompletePollStep ==
  ASSUME IInv, NEW w \in Workers, CompletePoll(w)
  PROVE  IInv'
<1> USE DEF IInv
<1> DEFINE p == [pc EXCEPT ![w] = "idle"]
           m == work[w].cycle
<1>1. /\ pc[w] = "polled" /\ pc' = Broadcast(p)
      /\ pending' = [pending EXCEPT ![m] = @ - 1]
      /\ maintenanceActive' = (maintenanceActive /\ pending[m] # 1)
      /\ runningPolls' = runningPolls - 1
      /\ active' = active \ {work[w].thing} /\ work' = [work EXCEPT ![w] = NoWork]
      /\ UNCHANGED <<lifeVars, cmdVars, polls, activePollCancel, cancelled, maint>>
  BY Zenon DEF CompletePoll
<1>2. /\ NoLostWakeup' /\ Busy' = {v \in Workers : p[v] \in BusyPC}
      /\ Polling' = {v \in Workers : p[v] \in PollPC}
  BY Zenon, <1>1, BroadcastFrame
<1>3. w \in Busy /\ Busy' = Busy \ {w} /\ w \in Polling /\ Polling' = Polling \ {w}
  BY Zenon, <1>1, <1>2 DEF Busy, Polling, PoolType, PCs, BusyPC, PollPC
<1>4. Serialized' /\ \A v \in Busy : v # w => work'[v] = work[v]
  BY Zenon, <1>1, <1>3, ReleaseClaim
<1>5. \A v \in Polling : v # w => work'[v] = work[v] BY Zenon, <1>4 DEF Busy, Polling, BusyPC, PollPC
<1>6. m \in Maintainers BY Zenon, <1>1 DEF PoolType, PollPC, PollJob
<1>7. PoolInv' /\ runningPolls' \in Nat
  <2>1. IsFiniteSet(Polling) /\ Cardinality(Polling) \in Nat BY Zenon, WorkerSets DEF Polling
  <2>2. Cardinality(Polling') = Cardinality(Polling) - 1 BY Zenon, <1>3, <2>1, FS_RemoveElement
  <2>3. Cardinality(Polling') \in Nat
    <3>1. IsFiniteSet(Polling') BY Zenon, <1>3, <2>1, FS_RemoveElement
    <3> QED BY Zenon, <3>1, FS_CardinalityType
  <2>4. Cardinality(Workers) \in Nat BY SMTT(30), WorkerSets
  <2> QED BY <1>1, <2>1, <2>2, <2>3, <2>4 DEF PoolInv
<1>8. ASSUME NEW n \in Maintainers
      PROVE  /\ pending'[n] = Cardinality(QueuedOf(n)') + Cardinality(RunningOf(n)')
             /\ pending'[n] = IF n = m THEN pending[n] - 1 ELSE pending[n]
             /\ pending'[n] \in Nat
  <2>1. QueuedOf(n)' = QueuedOf(n) BY SMTT(60), <1>1 DEF QueuedOf
  <2>2. IsFiniteSet(RunningOf(n)) /\ Cardinality(RunningOf(n)) \in Nat
    BY Zenon, WorkerSets DEF RunningOf, Polling
  <2>3. Cardinality(QueuedOf(n)) \in Nat BY Zenon, QueueSets DEF CycleInv
  <2>4. pending[n] = Cardinality(QueuedOf(n)) + Cardinality(RunningOf(n)) BY Zenon DEF CycleInv
  <2>5. pending'[n] = IF n = m THEN pending[n] - 1 ELSE pending[n] BY SMTT(60), <1>1 DEF CycleType
  <2>6. CASE n = m
    <3>1. RunningOf(n)' = RunningOf(n) \ {w} /\ w \in RunningOf(n)
      BY Zenon, <1>3, <1>5, <2>6 DEF RunningOf
    <3>2. IsFiniteSet(RunningOf(n)') /\ Cardinality(RunningOf(n)') = Cardinality(RunningOf(n)) - 1
      BY <2>2, <3>1, FS_RemoveElement
    <3>3. Cardinality(RunningOf(n)') \in Nat BY Zenon, <3>2, FS_CardinalityType
    <3>4. Cardinality(QueuedOf(n)') = Cardinality(QueuedOf(n)) BY Zenon, <2>1
    <3>5. pending'[n] = pending[n] - 1 BY Zenon, <2>5, <2>6
    <3>6. /\ (Cardinality(QueuedOf(n)) + Cardinality(RunningOf(n))) - 1
               = Cardinality(QueuedOf(n)) + Cardinality(RunningOf(n)')
          /\ Cardinality(QueuedOf(n)) + Cardinality(RunningOf(n)') \in Nat
      BY Zenon, <2>2, <2>3, <3>2, <3>3, OneLess, SumOfCounts
    <3>7. pending'[n] = Cardinality(QueuedOf(n)) + Cardinality(RunningOf(n)')
      BY Zenon, <2>4, <3>5, <3>6
    <3> QED BY Zenon, <2>5, <3>4, <3>6, <3>7
  <2>7. CASE n # m
    <3>1. RunningOf(n)' = RunningOf(n) BY SMTT(60), <1>3, <1>5, <2>7 DEF RunningOf
    <3>2. pending'[n] = pending[n] BY Zenon, <2>5, <2>7
    <3>3. Cardinality(QueuedOf(n)) + Cardinality(RunningOf(n)) \in Nat
      BY Zenon, <2>2, <2>3, SumOfCounts
    <3>4. pending'[n] \in Nat BY Zenon, <2>4, <3>2, <3>3
    <3> QED BY Zenon, <2>1, <2>4, <2>5, <3>1, <3>2, <3>4
  <2> QED BY Zenon, <2>6, <2>7
<1>9. TypeOK'
  <2>1. PoolType' BY Zenon, <1>1, <1>7, ReleaseType DEF PoolType
  <2>2. CycleType' BY ZenonT(60), <1>1, <1>8 DEF CycleType
  <2> QED BY SMTT(60), <1>1, <2>1, <2>2 DEF LifeType, QueueType
<1>10. StartInv' BY Zenon, <1>1 DEF StartInv
<1>11. CycleInv'
  <2>1. pending[m] > 0 /\ pending[m] \in Nat
    BY SMTT(60), <1>6, <1>8 DEF CycleType
  <2>2. maint[m] = "idle" /\ \A n \in Maintainers : CycleBusy(n) <=> n = m
    BY SMTT(60), <1>6, <2>1 DEF CycleInv, CoalescedMaintenance, CycleBusy
  <2>3. maintenanceActive = TRUE
    BY SMTT(60), <1>6, <2>2 DEF CycleInv, CoalescedMaintenance, CycleType
  <2>4. \A n \in Maintainers : CycleBusy(n)' <=> n = m /\ pending[m] # 1
    BY SMTT(60), <1>1, <1>8, <2>1, <2>2 DEF CycleBusy, CycleType
  <2>5. \A q \in polls' : \A v \in Polling' : work'[v].thing # q.thing
    BY ZenonT(60), <1>1, <1>3, <1>5 DEF CycleInv, CoalescedMaintenance
  <2>6. CoalescedMaintenance'
    BY ZenonT(60), <1>1, <1>6, <2>3, <2>4, <2>5 DEF CoalescedMaintenance
  <2>7. \A n \in Maintainers : maint'[n] # "idle" => pending'[n] = 0
    BY Zenon, <1>1, <1>8, <2>2 DEF CycleInv
  <2> QED BY ZenonT(60), <1>1, <1>8, <2>6, <2>7 DEF CycleInv
<1>12. OrderInv' BY Zenon, <1>1, OrderFrame
<1> QED BY SMTT(60), <1>2, <1>4, <1>7, <1>9, <1>10, <1>11, <1>12

-----------------------------------------------------------------------------
(* The theorems.                                                           *)

\* Every step of the scheduler keeps the inductive invariant.
LEMMA NextIInv == IInv /\ [Next]_vars => IInv'
<1> SUFFICES ASSUME IInv, [Next]_vars PROVE IInv' OBVIOUS
<1>1. CASE Start \/ ParentCancelled \/ Close \/ CloseReturns \/ UNCHANGED vars
  BY Zenon, <1>1, StartStep, QuietStep, CloseStep
<1>2. ASSUME NEW m \in Maintainers, RequestMaintenance(m) \/ MaintainStep(m) PROVE IInv'
  BY Zenon, <1>2, RequestStep, DiscoverFailsStep, DiscoverSucceedsStep, EnqueueStep DEF MaintainStep
<1>3. ASSUME NEW t \in Things, SubmitCommand(t) PROVE IInv'
  BY Zenon, <1>3, SubmitStep
<1>4. ASSUME NEW w \in Workers, WorkerStep(w) PROVE IInv'
  BY Zenon, <1>4, TakeCommandStep, TakePollStep, IdleStep, PollContextStep,
     CompleteCommandStep, CompletePollStep DEF WorkerStep
<1> QED BY Zenon, <1>1, <1>2, <1>3, <1>4 DEF Next

\* The strengthening holds in every reachable state of scheduler.go.
THEOREM Inductive == Spec => []IInv
BY InitIInv, NextIInv, PTL DEF Spec

\* Every field of the scheduler keeps its type: in particular no counter that
\* complete decrements goes below zero.
THEOREM TypeCorrect == Spec => []TypeOK
BY Inductive, PTL DEF IInv

\* Work of one device is serialized, whatever the pool's size.
THEOREM SerializedAlways == Spec => []Serialized
BY Inductive, PTL DEF IInv

\* A worker is always left for commands, whatever the pool's size.
THEOREM CommandCapacityAlways == Spec => []CommandCapacity
<1>1. IInv => CommandCapacity
  <2> SUFFICES ASSUME IInv PROVE CommandCapacity OBVIOUS
  <2>1. Cardinality(Workers) \in Nat BY Zenon, WorkerSets
  <2>2. Polling # Workers BY <2>1 DEF IInv, PoolInv
  <2> QED BY Zenon, <2>2 DEF CommandCapacity, IInv, PoolInv, Polling
<1> QED BY <1>1, Inductive, PTL

\* No worker sleeps through a queue change or the shutdown.
THEOREM NoLostWakeupAlways == Spec => []NoLostWakeup
BY Inductive, PTL DEF IInv

\* Maintenance ticks coalesce into one cycle that polls a device once.
THEOREM CoalescedAlways == Spec => []CoalescedMaintenance
BY Inductive, PTL DEF IInv, CycleInv

\* A device's commands are begun in submission order, each once.
THEOREM CommandOrderAlways == Spec => []CommandOrder
BY Inductive, PTL DEF IInv, OrderInv
=============================================================================
