--------------------------- MODULE AgentWatchProofs ---------------------------
(***************************************************************************)
(* Proofs about the agent controller and the shutdown watch beside it, for *)
(* every number of invocations, MicroVMs, runs and messages, every budget  *)
(* and every grace period.                                                 *)
(*                                                                         *)
(* Nobody holds a lock between deciding on a termination and calling for   *)
(* it.  What protects a healthy run is that identities are never used      *)
(* again: the shadow names a MicroVM only for the run it was launched for, *)
(* and a run that was seen stopping, or overdue, stays so.                 *)
(***************************************************************************)
EXTENDS AgentWatch, AgentControllerProofs, FiniteSetTheorems, WellFoundedInduction

\* What the watch is about to terminate was overdue, and is.
WatchInv ==
  /\ watch \in Watch
  /\ watch.pc # "idle" => watch.vm # 0 /\ vms[watch.vm].run # 0
  /\ watch.pc = "kill" /\ watch.known /\ shadow.run.id = vms[watch.vm].run
       => shadow.run.phase = "stopping" \/ now >= shadow.deadline

-----------------------------------------------------------------------------
(* The watch.                                                              *)

\* What was overdue stays overdue while the shadow has its run.
LEMMA WatchStays ==
  ASSUME Inv, WatchInv, Inv', Evolves, watch' = watch
  PROVE  WatchInv'
<1>1. watch \in Watch
  BY Zenon DEF WatchInv
<1>2. watch.vm \in VM \cup {0}
  BY Zenon, <1>1 DEF Watch
<1> DEFINE id == vms[watch.vm].run
<1>3. watch.pc # "idle" => watch.vm # 0 /\ id # 0 /\ vms'[watch.vm].run = id
  BY Zenon, <1>2 DEF WatchInv, Evolves
<1>4. watch.pc # "idle" => id \in Nat /\ id <= issued
  BY Zenon, <1>2, <1>3 DEF Inv, IInv, TypeOK, MicroVm, TokensInv, TokenInv
<1>5. /\ now \in Nat /\ now' \in Nat /\ now <= now' /\ shadow'.run.id \in Nat /\ issued \in Nat
      /\ shadow.deadline \in Nat
  BY Zenon DEF Inv, IInv, TypeOK, Shadow, Run, Evolves
<1> HIDE DEF id
<1>6. ASSUME watch.pc = "kill", watch.known, shadow'.run.id = id
      PROVE  shadow'.run.phase = "stopping" \/ now' >= shadow'.deadline
  <2>1. id # 0 /\ id \in Nat /\ id <= issued
    BY Zenon, <1>3, <1>4, <1>6
  <2>2. /\ shadow.run.id = id
        /\ shadow.run.phase = "stopping" => shadow'.run.phase = "stopping"
        /\ shadow'.deadline = shadow.deadline \/ shadow'.run.phase = "stopping"
    BY <1>5, <1>6, <2>1 DEF Evolves
  <2>3. shadow.run.phase = "stopping" \/ now >= shadow.deadline
    BY Zenon, <1>6, <2>2 DEF WatchInv, id
  <2> QED BY <1>5, <2>2, <2>3
<1>7. watch.pc = "kill" => vms'[watch.vm].run = id
  BY Zenon, <1>3
<1> QED BY Zenon, <1>1, <1>3, <1>6, <1>7 DEF WatchInv, id

\* A watchdog at rest has nothing to know.
LEMMA WatchRests ==
  ASSUME watch' = Rest
  PROVE  WatchInv'
<1>1. Rest \in Watch /\ Rest.pc = "idle"
  BY Zenon DEF Rest, Watch
<1> QED BY Zenon, <1>1 DEF WatchInv

\* The second read finds the run stopping or past its deadline.
LEMMA WatchMoves ==
  ASSUME Inv, WatchInv, WatchStep
  PROVE  Inv' /\ WatchInv'
<1>1. ASSUME NEW v \in VM, WatchSelect(v) PROVE Inv' /\ WatchInv'
  <2> DEFINE w == [pc |-> "recheck", vm |-> v, known |-> (shadow.run.vm = v)]
  <2>1. watch' = w /\ UNCHANGED vars /\ vms[v].state \in Live
    BY Zenon, <1>1 DEF WatchSelect
  <2>2. w \in Watch /\ w.pc = "recheck" /\ w.vm = v
    BY Zenon DEF Watch
  <2> HIDE DEF w
  <2>3. v # 0 /\ vms[v].run # 0
    BY <2>1, BoundsAssumption DEF Live, Inv, IInv, VmInv, VM, BoundsAssumption
  <2>4. vms' = vms
    BY Zenon, <2>1 DEF vars
  <2> QED BY Zenon, <2>1, <2>2, <2>3, <2>4, StutterGrows DEF WatchInv
<1>2. CASE WatchRecheck
  <2> DEFINE due == IF shadow.run.vm = watch.vm THEN StopDue(shadow, now) ELSE ~watch.known
             w == [watch EXCEPT !.pc = "kill"]
  <2>1. watch.pc = "recheck" /\ watch' = (IF due THEN w ELSE Rest) /\ UNCHANGED vars
    BY Zenon, <1>2 DEF WatchRecheck
  <2>2. Inv' /\ vms' = vms /\ shadow' = shadow /\ now' = now
    BY Zenon, <2>1, StutterGrows DEF vars, env
  <2>3. CASE ~due
    BY Zenon, <2>1, <2>2, <2>3, WatchRests
  <2>4. CASE due
    <3>1. w \in Watch /\ w.pc = "kill" /\ w.vm = watch.vm /\ w.known = watch.known
      BY Zenon DEF WatchInv, Watch
    <3>2. watch.vm # 0 /\ vms[watch.vm].run # 0
      BY Zenon, <2>1 DEF WatchInv
    <3>3. watch' = w
      BY Zenon, <2>1, <2>4
    <3> HIDE DEF w
    <3>4. watch.known => shadow.run.phase = "stopping" \/ now >= shadow.deadline
      <4>1. ASSUME StopDue(shadow, now)
            PROVE  shadow.run.phase = "stopping" \/ now >= shadow.deadline
        <5>1. /\ now \in Nat /\ shadow.deadline \in Nat /\ shadow.stopAt \in Nat /\ Grace \in Nat
          BY Zenon, GraceAssumption DEF Inv, IInv, TypeOK, Shadow
        <5> QED BY <4>1, <5>1 DEF StopDue
      <4> QED BY Zenon, <2>4, <4>1
    <3> QED BY Zenon, <2>2, <3>1, <3>2, <3>3, <3>4 DEF WatchInv
  <2> QED BY Zenon, <2>3, <2>4
<1>3. CASE WatchKill
  <2>1. vms' = Terminated(watch.vm) /\ watch' = Rest /\ UNCHANGED <<env, shadow, issued, ctl>>
    BY Zenon, <1>3 DEF WatchKill
  <2>2. watch.vm \in VM \cup {0}
    BY Zenon DEF WatchInv, Watch
  <2>3. IInv'
    BY Zenon, <2>1, <2>2, TerminatedGood DEF Inv, IInv, TypeOK, CtlInv, Good
  <2>4. Inv'
    BY Zenon, <2>1, <2>2, <2>3, TerminatedGrows DEF Grown, Inv, RisesGrowing
  <2> QED BY Zenon, <2>1, <2>4, WatchRests
<1>4. CASE WatchFails
  BY Zenon, <1>4, StutterGrows, WatchRests DEF WatchFails
<1> QED BY Zenon, <1>1, <1>2, <1>3, <1>4 DEF WatchStep

-----------------------------------------------------------------------------
(* Rises of activity.                                                      *)

\* Between a message without activity and a later one with it there is a rise.
LEMMA RiseBetween ==
  ASSUME NEW i \in 1..Len(Activity), NEW j \in 1..Len(Activity), i < j,
         ~Activity[i], Activity[j]
  PROVE  \E k \in Rises(j) : k > i
<1> DEFINE T == {k \in Nat : i < k /\ k <= j /\ Activity[k]}
           R == OpToRel(<, Nat)
<1>1. Activity \in Seq(BOOLEAN) /\ Len(Activity) \in Nat
  BY BoundsAssumption DEF BoundsAssumption
<1>2. T \subseteq Nat /\ j \in T
  BY <1>1
<1>3. PICK k \in T : \A l \in T : ~(<<l, k>> \in R)
  <2> HIDE DEF T, R
  <2>1. IsWellFoundedOn(R, Nat)
    BY Zenon, NatLessThanWellFounded DEF R
  <2> QED BY Zenon, <1>2, <2>1, WFMin
<1>4. \A l \in T : ~(l < k)
  BY Zenon, <1>3 DEF OpToRel
<1>5. k \in 2..j /\ Activity[k] /\ k - 1 \in Nat /\ k - 1 < k
  BY <1>1
<1>6. ~Activity[k - 1]
  <2>1. CASE k - 1 = i
    BY Zenon, <2>1
  <2>2. CASE k - 1 # i
    BY <1>1, <1>4, <1>5, <2>2
  <2> QED BY Zenon, <2>1, <2>2
<1> QED BY Zenon, <1>5, <1>6 DEF Rises

\* A later message has the rises of an earlier one, one more after an edge.
LEMMA RisesGrow ==
  ASSUME NEW i \in 0..Len(Activity), NEW j \in 0..Len(Activity), i <= j
  PROVE  /\ Cardinality(Rises(i)) \in Nat /\ Cardinality(Rises(j)) \in Nat
         /\ Cardinality(Rises(i)) <= Cardinality(Rises(j))
         /\ i # 0 /\ i < j /\ ~Activity[i] /\ Activity[j]
              => Cardinality(Rises(i)) + 1 <= Cardinality(Rises(j))
<1>1. Len(Activity) \in Nat
  BY BoundsAssumption DEF BoundsAssumption
<1>2. IsFiniteSet(Rises(j)) /\ Rises(i) \subseteq Rises(j)
  <2>1. IsFiniteSet(2..j)
    BY <1>1, FS_Interval
  <2>2. Rises(j) \subseteq 2..j /\ Rises(i) \subseteq Rises(j)
    BY <1>1 DEF Rises
  <2> QED BY Zenon, <2>1, <2>2, FS_Subset
<1>3. /\ IsFiniteSet(Rises(i)) /\ Cardinality(Rises(i)) \in Nat /\ Cardinality(Rises(j)) \in Nat
      /\ Cardinality(Rises(i)) <= Cardinality(Rises(j))
  BY Zenon, <1>2, FS_Subset, FS_CardinalityType
<1>4. ASSUME i # 0, i < j, ~Activity[i], Activity[j]
      PROVE  Cardinality(Rises(i)) + 1 <= Cardinality(Rises(j))
  <2>1. PICK k \in Rises(j) : k > i
    BY <1>1, <1>4, RiseBetween
  <2>2. k \notin Rises(i) /\ Rises(i) \cup {k} \subseteq Rises(j)
    BY <1>1, <1>2, <2>1 DEF Rises
  <2>3. Cardinality(Rises(i) \cup {k}) = Cardinality(Rises(i)) + 1
    BY Zenon, <1>3, <2>2, FS_AddElement
  <2>4. Cardinality(Rises(i) \cup {k}) <= Cardinality(Rises(j))
    BY Zenon, <1>2, <2>2, FS_Subset
  <2> QED BY Zenon, <2>3, <2>4
<1> QED BY Zenon, <1>3, <1>4

-----------------------------------------------------------------------------
(* Every behaviour.                                                        *)

\* Before the first invocation there is no run, no save and no MicroVM.
LEMMA InitInv == Init => Inv
<1> SUFFICES ASSUME Init PROVE Inv
  OBVIOUS
<1>1. IInv
  BY Zenon, InitIInv
<1>2. /\ shadow.run = NoRun /\ shadow.act = 0 /\ shadow.ver = 0 /\ shadow.ts = 0
      /\ shadow.endpoint = 0
      /\ NoRun.phase = "none" /\ NoRun.vm = 0 /\ NoRun.act = 0
  BY Zenon DEF Init, StoppedShadow, NoRun
<1>3. Rises(0) = {} /\ Cardinality({}) = 0 /\ 0 \in 0..Len(Activity)
  <2>1. Len(Activity) \in Nat
    BY BoundsAssumption DEF BoundsAssumption
  <2> QED BY <2>1, FS_EmptySet DEF Rises
<1>4. ShadowForm
  <2>1. Earned(shadow)
    <3>1. Rises(shadow.ts) = {}
      BY Zenon, <1>2, <1>3
    <3>2. Cardinality(Rises(shadow.ts)) = 0
      BY Zenon, <1>3, <3>1
    <3> QED BY <1>2, <1>3, <3>2 DEF Earned
  <2>2. Formed(shadow)
    BY <1>2 DEF Formed, Viewed
  <2> QED BY Zenon, <1>2, <2>1, <2>2 DEF ShadowForm
<1>5. TokenInv
  BY <1>2 DEF TokenInv, Init, NoVm
<1>6. \A c \in Controllers : SaveForm(ctl[c]) /\ Token(ctl[c])
  BY Zenon, RestToken DEF Init
<1>7. proj.ver = 0 <=> proj.ts = 0
  BY Zenon DEF Init
<1>8. RisesGrowing
  BY Zenon, RisesGrow DEF RisesGrowing
<1> QED BY Zenon, <1>1, <1>4, <1>5, <1>6, <1>7, <1>8 DEF Inv, FormInv, TokensInv

\* The inductive invariant of the controller, its shadow and its terminations,
\* for every behaviour.
THEOREM TokensInductive == Spec => []Inv
<1>1. Inv /\ [Next]_vars => Inv'
  BY Zenon, NextGrows, StutterGrows
<1> QED BY InitInv, <1>1, PTL DEF Spec

\* Every shadow that the controller writes is one that its own parser and that
\* of the witness accept.
THEOREM ShadowWellFormedAlways == Spec => []ShadowWellFormed
<1>1. Inv => ShadowWellFormed
  <2> SUFFICES ASSUME Inv PROVE ShadowWellFormed
    OBVIOUS
  <2>1. shadow.run # NoRun => shadow.run.id # 0
    BY Zenon DEF Inv, IInv, ShadowInv, WholeRun
  <2>2. shadow.run.phase = "stopping" => shadow.stopAt # 0
    BY Zenon DEF Inv, IInv, ShadowInv
  <2>3. ShadowForm
    BY Zenon DEF Inv, FormInv
  <2> QED BY Zenon, <2>1, <2>2, <2>3 DEF ShadowForm, Formed, Viewed, ShadowWellFormed
<1> QED BY TokensInductive, <1>1, PTL

\* Activations number at most the rises of activity that the device sent,
\* whatever the projection shows again, out of order or never.
THEOREM ActivationsEarnedAlways == Spec => []ActivationsEarned
<1>1. Inv => ActivationsEarned
  BY Zenon DEF Inv, FormInv, ShadowForm, Earned, ActivationsEarned
<1> QED BY TokensInductive, <1>1, PTL

\* A live MicroVM begins to terminate only when an invocation asks for it.
LEMMA KilledBy ==
  ASSUME Inv, Next, NEW v \in VM, vms[v].state \in Live, vms'[v].state = "terminating"
  PROVE  \E c \in Controllers : DrainKill(c, v) \/ (At(c, "kill") /\ ctl[c].vm = v)
<1>1. vms \in [VM -> MicroVm] /\ "terminating" \notin Live
  BY Zenon DEF Inv, IInv, TypeOK, Live
<1>2. vms'[v] # vms[v]
  BY Zenon, <1>1
<1>3. \A u : vms' = Terminated(u) => u = v
  BY Zenon, <1>1, <1>2 DEF Terminated
<1>4. ASSUME NEW u \in VM, VmNext(u) PROVE FALSE
  <2>1. ASSUME NEW m, VmStep(u, m) PROVE u = v /\ m.state = "terminating"
    BY Zenon, <1>1, <1>2, <2>1 DEF VmStep
  <2> DEFINE q == IF now < vms[u].deadline THEN "running" ELSE "failed"
             m1 == [vms[u] EXCEPT !.state = "running", !.at = now, !.phase = q]
             m2 == [vms[u] EXCEPT !.poll = "verified"]
             m3 == [vms[u] EXCEPT !.poll = "refused"]
             m4 == [vms[u] EXCEPT !.at = now, !.ok = TRUE, !.poll = "none"]
             m5 == [Halted(vms[u]) EXCEPT !.state = "suspended"]
  <2>2. \/ VmStep(u, m1) \/ VmStep(u, m2) \/ VmStep(u, m3) \/ VmStep(u, m4) \/ VmStep(u, m5)
        \/ VmStep(u, Halted(vms[u])) \/ VmStep(u, Gone(vms[u]))
    BY Zenon, <1>4 DEF VmNext, StartVm, PollVerified, PollRefused, PollDone, Expire, Suspend,
           VmTerminated, VmDies
  <2>3. vms[u] \in MicroVm
    BY Zenon, <1>1
  <2>4. /\ Halted(vms[u]).state = vms[u].state /\ Halted(vms[u]) \in MicroVm
        /\ Gone(vms[u]).state = "terminated"
    BY Zenon, <2>3 DEF Halted, Gone, NoVm, MicroVm
  <2> HIDE DEF q
  <2>5. /\ m1.state = "running" /\ m2.state = vms[u].state /\ m3.state = vms[u].state
        /\ m4.state = vms[u].state
    BY Zenon, <2>3 DEF MicroVm
  <2>6. m5.state = "suspended"
    BY Zenon, <2>4 DEF MicroVm
  <2> HIDE DEF m1, m2, m3, m4, m5
  <2> QED BY Zenon, <1>1, <2>1, <2>2, <2>4, <2>5, <2>6
<1>5. ASSUME Environment PROVE FALSE
  BY Zenon, <1>2, <1>5 DEF Environment, Tick, Declare, Project
<1>6. ASSUME NEW c \in Controllers, NEW u \in VM, Request(c, u) PROVE FALSE
  <2> DEFINE m == [NoVm EXCEPT !.run = SavedRun(c).id, !.act = SavedRun(c).act,
                               !.deadline = ctl[c].next.deadline,
                               !.started = now, !.state = "pending"]
  <2>1. m.state = "pending"
    BY Zenon DEF NoVm
  <2> HIDE DEF m
  <2>2. vms' = vms \/ vms' = [vms EXCEPT ![u] = m]
    BY Zenon, <1>6 DEF Request, m
  <2> QED BY Zenon, <1>1, <1>2, <2>1, <2>2
<1>7. ASSUME NEW c \in Controllers, ControllerStep(c), vms' # vms
      PROVE  DrainKill(c, v) \/ (At(c, "kill") /\ ctl[c].vm = v)
  <2>1. CASE \E u \in VM : Request(c, u)
    BY Zenon, <1>6, <2>1
  <2>2. CASE Kill(c)
    BY Zenon, <1>3, <2>2 DEF Kill
  <2>3. CASE \E u \in VM : DrainKill(c, u)
    BY Zenon, <1>3, <2>3 DEF DrainKill
  <2> QED
    BY Zenon, <1>7, <2>1, <2>2, <2>3 DEF ControllerStep, Begin, Launch, GetHost, VerifyHost,
       SampleStatus, DecideUndeclared, DecideObserved, DecideUnverified, Decide, Save,
       SaveConflict, StopHost, HostSettled, AssignLate, Crash, OrphanUnclaimed, Bind, Assign,
       AcceptLaunch, LaunchExpired, FenceHost, SampleStopped, ClearTerminated, SampleEndpoint,
       OrphanFenced, DrainFence, DrainKnown, Drain
<1> QED BY Zenon, <1>2, <1>4, <1>5, <1>7 DEF Next

\* A MicroVM that the controller has terminated is not named by the shadow, or
\* its run is fenced there, whatever other invocations wrote since the decision;
\* the drain of drain_disabled alone terminates before it fences.
THEOREM KillsFencedOnlyAlways == Spec => KillsFencedOnly
<1> DEFINE Fenced(v) ==
             vms[v].state \in Live /\ vms'[v].state = "terminating" /\ shadow.run.vm = v
               => shadow.run.phase = "stopping" \/ \E c \in Controllers : DrainKill(c, v)
<1>1. ASSUME Inv, [Next]_vars, NEW v \in VM PROVE Fenced(v)
  <2> SUFFICES ASSUME vms[v].state \in Live, vms'[v].state = "terminating", shadow.run.vm = v,
                      NEW c \in Controllers, At(c, "kill"), ctl[c].vm = v
               PROVE  shadow.run.phase = "stopping"
    <3>1. CASE Next BY Zenon, <1>1, <3>1, KilledBy
    <3>2. CASE UNCHANGED vars BY Zenon, <3>2 DEF vars, Live
    <3> QED BY Zenon, <1>1, <3>1, <3>2
  <2>1. ctl[c].vm # 0 /\ Ended(vms[ctl[c].vm].run)
    BY Zenon, <1>1, CtlKnows DEF At, Token
  <2> QED BY Zenon, <1>1, <2>1, CtlKnows DEF TokenInv, Ended
<1>2. Inv /\ [Next]_vars
        => [\A v \in VM : vms[v].state \in Live /\ vms'[v].state = "terminating" /\ shadow.run.vm = v
              => shadow.run.phase = "stopping" \/ \E c \in Controllers : DrainKill(c, v)]_vars
  BY Zenon, <1>1
<1> QED BY TokensInductive, <1>2, PTL DEF KillsFencedOnly, Spec

\* The inductive invariant of the controller together with the watch.
THEOREM WatchInductive == WatchSpec => [](Inv /\ WatchInv)
<1>1. WatchInit => Inv /\ WatchInv
  <2>1. Rest \in Watch /\ Rest.pc = "idle"
    BY Zenon DEF Rest, Watch
  <2> QED BY Zenon, <2>1, InitInv DEF WatchInit, WatchInv
<1>2. Inv /\ WatchInv /\ [WatchNext]_watchVars => (Inv /\ WatchInv)'
  BY Zenon, NextGrows, StutterGrows, WatchStays, WatchMoves DEF WatchNext, watchVars
<1> QED BY <1>1, <1>2, PTL DEF WatchSpec

\* The watch never terminates the MicroVM of a run it selected as overdue while
\* that run is neither stopping nor past its deadline, although it shares no
\* lock with the controller.
THEOREM WatchSparesHealthyAlways == WatchSpec => []WatchSparesHealthy
<1>1. Inv /\ WatchInv => WatchSparesHealthy
  BY Zenon DEF Inv, TokensInv, TokenInv, WatchInv, WatchSparesHealthy
<1> QED BY WatchInductive, <1>1, PTL
===============================================================================
