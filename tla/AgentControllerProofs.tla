------------------------ MODULE AgentControllerProofs ------------------------
(***************************************************************************)
(* Proofs about the agent controller for every number of invocations,      *)
(* MicroVMs, runs and messages, and every budget and verification time.    *)
(*                                                                         *)
(* That one runtime at most works for the device needs more than what the  *)
(* runtimes know: a verified runtime is the one the shadow names, and the  *)
(* shadow may change its mind only if what an invocation is about to write *)
(* keeps a known MicroVM, and what it believes terminated is terminated.   *)
(*                                                                         *)
(* The second part strengthens that invariant to what concerns the past:   *)
(* the activation of a run was earned by a rise of the projection that     *)
(* nobody counted before, a MicroVM keeps the run it was requested for,    *)
(* and a run whose MicroVM may be terminated has ended for good.           *)
(***************************************************************************)
EXTENDS AgentController, TLAPS

\* There is no run, or it has an identity and a phase.
WholeRun(r) == r = NoRun \/ (r.id # 0 /\ r.phase # "none")

\* What a pass writes: the run as it was, perhaps fenced, with its stop time; or,
\* if its MicroVM was never known, none or a reservation without an identity.
Keeps(b, n) ==
  \/ /\ n.run = b.run \/ (b.run # NoRun /\ n.run = [b.run EXCEPT !.phase = "stopping"])
     /\ n.stopAt = b.stopAt
  \/ /\ b.run.vm = 0 /\ n.run.vm = 0 /\ n.run.id = 0
     /\ n.run = NoRun \/ n.run.phase = "reserved"

ShadowInv ==
  /\ WholeRun(shadow.run) /\ shadow.run.id <= issued
  /\ shadow.run.phase = "stopping" => shadow.stopAt # 0

\* Only the MicroVM that the shadow names verified itself, or is about to.
VmInv ==
  \A v \in VM :
    /\ vms[v].ok \/ vms[v].poll = "verified" => shadow.run.vm = v
    /\ vms[v].state \in {"none", "terminated"}
         => vms[v].phase = "waiting" /\ ~vms[v].ok /\ vms[v].poll = "none"
    /\ vms[v].state # "none" => vms[v].run # 0

\* Of an invocation r, where w are the MicroVMs.
Pass(r, w) ==
  /\ r.pc \notin {"idle", "kill", "sample", "drain"} => r.t # 0
  /\ r.pc = "save" => Keeps(r.base, r.next)
  /\ r.pc \in {"launch", "request", "bind", "host", "act", "assign", "sample"}
       => r.next.run.id # 0
  /\ r.pc \in {"host", "act"} => r.next.run.vm # 0
  /\ r.pc = "act" /\ r.host = "terminated" => w[r.next.run.vm].state = "terminated"

CtlInv == \A c \in Controllers : Pass(ctl[c], vms)

IInv == TypeOK /\ ShadowInv /\ VmInv /\ CtlInv

\* The two action properties, of one step.
Retained ==
  shadow.run.vm # 0 /\ shadow'.run.id # shadow.run.id
    => vms[shadow.run.vm].state = "terminated"
Final ==
  shadow.run.phase = "stopping" /\ shadow'.run.id = shadow.run.id
    => shadow'.run.phase = "stopping" /\ shadow'.stopAt = shadow.stopAt

Good == IInv' /\ Retained /\ Final

-----------------------------------------------------------------------------
(* What the operators on shadows return.                                   *)

\* A patch keeps everything but the stop time and the endpoint.
LEMMA PatchFacts ==
  ASSUME NEW s \in Shadow, NEW t \in Nat
  PROVE  /\ Patch(s, t) \in Shadow /\ Patch(s, t).run = s.run
         /\ s.run.phase = "stopping" /\ s.stopAt # 0 => Patch(s, t).stopAt = s.stopAt
         /\ s.run.phase = "stopping" /\ t # 0 => Patch(s, t).stopAt # 0
BY Zenon DEF Patch, Shadow, Run

\* Fencing changes the phase of the run, and nothing else.
LEMMA StoppingFacts ==
  ASSUME NEW s \in Shadow
  PROVE  /\ Stopping(s) \in Shadow
         /\ Stopping(s).run = [s.run EXCEPT !.phase = "stopping"]
         /\ Stopping(s).stopAt = s.stopAt
BY Zenon DEF Stopping, Shadow, Run, RunPhase

\* Observing the projection leaves the run alone.
LEMMA ObserveFacts ==
  ASSUME NEW s \in Shadow, NEW t \in Nat,
         NEW p \in [active : BOOLEAN, ver : Nat, ts : Nat]
  PROVE  /\ ObserveActivation(s, p, t) \in Shadow
         /\ ObserveActivation(s, p, t).run = s.run
         /\ ObserveActivation(s, p, t).stopAt = s.stopAt
<1> DEFINE i == IF p.active \/ (p.ver = s.ver /\ t <= s.inactiveAt) THEN s.inactiveAt ELSE t
           a == IF Edge(s, p) THEN s.act + 1 ELSE s.act
           d == IF Edge(s, p) THEN s.inactiveAt + Budget ELSE s.deadline
<1>1. s.inactiveAt \in Nat /\ s.act \in Nat /\ s.deadline \in Nat BY Zenon DEF Shadow
<1>2. Budget \in Nat BY Zenon, BoundsAssumption DEF BoundsAssumption
<1>3. i \in Nat /\ a \in Nat /\ d \in Nat BY <1>1, <1>2
<1>4. ObserveActivation(s, p, t)
        = [s EXCEPT !.active = p.active, !.ver = p.ver, !.ts = p.ts,
                    !.inactiveAt = i, !.act = a, !.deadline = d]
  BY Zenon DEF ObserveActivation
<1>5. p.active \in BOOLEAN /\ p.ver \in Nat /\ p.ts \in Nat OBVIOUS
<1> HIDE DEF i, a, d
<1> QED BY ZenonT(60), <1>3, <1>4, <1>5 DEF Shadow

\* A projection that shows a message is an observation.
LEMMA ObservationType ==
  ASSUME TypeOK, proj.ts # 0
  PROVE  Observation \in [active : BOOLEAN, ver : Nat, ts : Nat]
<1>1. Activity \in Seq(BOOLEAN) BY Zenon, BoundsAssumption DEF BoundsAssumption
<1>2. proj.ts \in 1..Len(Activity) /\ proj.ver \in Nat BY <1>1 DEF TypeOK
<1>3. Activity[proj.ts] \in BOOLEAN BY <1>1, <1>2
<1> QED BY <1>2, <1>3 DEF Observation

\* What a pass decides keeps the run it read.
LEMMA DecisionFacts ==
  ASSUME NEW s \in Shadow, NEW current, NEW deferred, NEW t \in Nat
  PROVE  /\ Decision(s, current, deferred, t) \in Shadow
         /\ Keeps(s, Decision(s, current, deferred, t))
<1> DEFINE l == Lapse(s, current, deferred, t)
           f == Fence(l, current, t)
           u == Supersede(f, current, t)
           r == Reserve(u, current, t)
           Fenced(x) == /\ x \in Shadow /\ x.stopAt = s.stopAt
                        /\ \/ x.run = s.run
                           \/ s.run # NoRun /\ x.run = [s.run EXCEPT !.phase = "stopping"]
<1>1. Fenced(l)
  <2>1. [s EXCEPT !.unverified = 0] \in Shadow /\ [s EXCEPT !.unverified = t] \in Shadow
    BY Zenon DEF Shadow
  <2>2. CASE l = [s EXCEPT !.unverified = 0] \/ l = [s EXCEPT !.unverified = t] \/ l = s
    BY Zenon, <2>1, <2>2 DEF Shadow
  <2>3. CASE s.run # NoRun /\ l = Stopping(s) BY Zenon, <2>3, StoppingFacts
  <2> QED BY Zenon, <2>2, <2>3 DEF Lapse
<1>2. Fenced(f)
  <2>1. CASE f = l BY Zenon, <1>1, <2>1
  <2>2. CASE l.run # NoRun /\ f = Stopping(l)
    <3>1. Stopping(l) \in Shadow /\ Stopping(l).run = [l.run EXCEPT !.phase = "stopping"]
          /\ Stopping(l).stopAt = l.stopAt BY Zenon, <1>1, StoppingFacts
    <3>2. s.run \in Run BY Zenon DEF Shadow
    <3>3. [l.run EXCEPT !.phase = "stopping"] = [s.run EXCEPT !.phase = "stopping"]
      BY Zenon, <1>1, <3>2 DEF Run
    <3>4. s.run # NoRun BY Zenon, <1>1, <2>2
    <3> QED BY Zenon, <1>1, <2>2, <3>1, <3>3, <3>4
  <2> QED BY Zenon, <2>1, <2>2 DEF Fence
<1>3. CASE u = f /\ u.run # NoRun
  <2>1. r = u BY Zenon, <1>3 DEF Reserve
  <2> QED BY Zenon, <1>2, <1>3, <2>1 DEF Keeps, Decision
<1>4. CASE u = f /\ u.run = NoRun
  <2>1. s.run = NoRun BY <1>2, <1>4 DEF NoRun
  <2>2. CASE r = u BY Zenon, <1>2, <1>4, <2>2 DEF Keeps, Decision
  <2>3. CASE r = [u EXCEPT !.run = [id |-> 0, act |-> u.act, vm |-> 0, phase |-> "reserved"]]
    BY <1>2, <1>4, <2>1, <2>3 DEF Keeps, Decision, Shadow, Run, RunPhase, NoRun
  <2> QED BY Zenon, <2>2, <2>3 DEF Reserve
<1>5. CASE f.run.vm = 0 /\ u = [f EXCEPT !.run = NoRun, !.stopAt = 0]
  <2>1. s.run.vm = 0 BY Zenon, <1>2, <1>5 DEF Shadow, Run
  <2> NoRun \in Run BY Zenon DEF NoRun, Run, RunPhase
  <2>2. u \in Shadow /\ u.run = NoRun
    <3> HIDE DEF f, u
    <3> QED BY Zenon, <1>2, <1>5 DEF Shadow
  <2>3. CASE r = u BY <2>1, <2>2, <2>3 DEF Keeps, Decision, NoRun
  <2>4. CASE r = [u EXCEPT !.run = [id |-> 0, act |-> u.act, vm |-> 0, phase |-> "reserved"]]
    BY <2>1, <2>2, <2>4 DEF Keeps, Decision, Shadow, Run, RunPhase
  <2> QED BY Zenon, <2>3, <2>4 DEF Reserve
<1> QED BY Zenon, <1>3, <1>4, <1>5 DEF Supersede

\* accept_launch binds the MicroVM, and does not revive a stopping run.
LEMMA AcceptFacts ==
  ASSUME NEW s \in Shadow, NEW v \in VM \cup {0}, NEW current, NEW t \in Nat
  PROVE  LET a == Accept(s, v, current, t)
         IN  /\ a \in Shadow /\ a.stopAt = s.stopAt
             /\ a.run.id = s.run.id /\ a.run.vm = v
             /\ s.run.phase # "none" => a.run.phase # "none"
             /\ s.run.phase = "stopping" => a.run.phase = "stopping"
BY Zenon DEF Accept, Stopping, Shadow, Run, RunPhase

-----------------------------------------------------------------------------
(* Kinds of steps.                                                         *)

\* What may be written over the shadow.
GoodWrite(n) ==
  /\ n \in Shadow /\ WholeRun(n.run) /\ n.run.id <= issued'
  /\ n.run.phase = "stopping" => n.stopAt # 0
  /\ shadow.run.vm # 0 /\ (n.run.id # shadow.run.id \/ n.run.vm # shadow.run.vm)
       => vms[shadow.run.vm].state = "terminated"
  /\ shadow.run.phase = "stopping" /\ n.run.id = shadow.run.id
       => n.run.phase = "stopping" /\ n.stopAt = shadow.stopAt

\* An invocation moves on; the other ones stay where they are.
LEMMA GoStep ==
  ASSUME TypeOK, CtlInv, NEW c \in Controllers, NEW r \in Controller,
         Pass(r, vms), Go(c, r)
  PROVE  /\ ctl' \in [Controllers -> Controller]
         /\ \A d \in Controllers : Pass(ctl'[d], vms)
BY Zenon DEF TypeOK, CtlInv, Go

\* Terminated MicroVMs stay terminated, so what was believed stays true.
LEMMA PassStable ==
  ASSUME NEW r \in Controller, Pass(r, vms),
         \A v \in VM : vms[v].state = "terminated" => vms'[v].state = "terminated"
  PROVE  Pass(r, vms')
<1>1. r.next.run.vm \in VM \cup {0} BY Zenon DEF Controller, Shadow, Run
<1> QED BY Zenon, <1>1 DEF Pass

\* An invocation reads, or answers to nobody.
LEMMA ControllerStays ==
  ASSUME IInv, NEW c \in Controllers, NEW r \in Controller, Pass(r, vms),
         Go(c, r), UNCHANGED <<env, shadow, issued, vms>>
  PROVE  Good
<1>1. TypeOK /\ CtlInv BY Zenon DEF IInv
<1>2. ctl' \in [Controllers -> Controller] /\ CtlInv' BY Zenon, <1>1, GoStep DEF CtlInv
<1>3. TypeOK' BY Zenon, <1>1, <1>2 DEF TypeOK, env
<1>4. ShadowInv' /\ VmInv' BY Zenon DEF IInv, ShadowInv, VmInv, env
<1> QED BY Zenon, <1>2, <1>3, <1>4 DEF Good, IInv, Retained, Final

\* The shadow is written.
LEMMA WriteStep ==
  ASSUME IInv, NEW n, GoodWrite(n), shadow' = n, vms' = vms
  PROVE  shadow' \in Shadow /\ ShadowInv' /\ VmInv' /\ Retained /\ Final
<1>1. shadow' \in Shadow /\ ShadowInv' /\ Retained /\ Final
  BY Zenon DEF GoodWrite, ShadowInv, Retained, Final
<1>2. VmInv'
  <2> SUFFICES ASSUME NEW v \in VM, vms[v].ok \/ vms[v].poll = "verified"
               PROVE  n.run.vm = v
    BY Zenon DEF IInv, VmInv
  <2>1. shadow.run.vm = v BY Zenon DEF IInv, VmInv
  <2>2. v # 0 BY BoundsAssumption DEF BoundsAssumption, VM
  <2>3. vms[v].state # "terminated"
    <3>1. vms[v].ok \in BOOLEAN BY Zenon DEF IInv, TypeOK, MicroVm
    <3> QED BY Zenon, <3>1 DEF IInv, VmInv
  <2> QED BY Zenon, <2>1, <2>2, <2>3 DEF GoodWrite
<1> QED BY Zenon, <1>1, <1>2

\* An invocation writes the shadow.
LEMMA ControllerWrites ==
  ASSUME IInv, NEW c \in Controllers, NEW r \in Controller, Pass(r, vms),
         NEW n, GoodWrite(n), shadow' = n, issued' \in Nat,
         Go(c, r), UNCHANGED <<env, vms>>
  PROVE  Good
<1>1. TypeOK /\ CtlInv BY Zenon DEF IInv
<1>2. ctl' \in [Controllers -> Controller] /\ CtlInv' BY Zenon, <1>1, GoStep DEF CtlInv
<1>3. shadow' \in Shadow /\ ShadowInv' /\ VmInv' /\ Retained /\ Final BY Zenon, WriteStep
<1>4. TypeOK' BY Zenon, <1>1, <1>2, <1>3 DEF TypeOK, env
<1> QED BY Zenon, <1>2, <1>3, <1>4 DEF Good, IInv

\* MicroVMs change.
LEMMA VmsMove ==
  ASSUME IInv, vms' \in [VM -> MicroVm], VmInv', UNCHANGED <<env, shadow, issued>>,
         \A v \in VM : vms[v].state = "terminated" => vms'[v].state = "terminated",
         ctl' \in [Controllers -> Controller], \A d \in Controllers : Pass(ctl'[d], vms)
  PROVE  Good
<1>1. TypeOK' BY Zenon DEF IInv, TypeOK, env
<1>2. CtlInv' BY Zenon, PassStable DEF CtlInv
<1>3. ShadowInv' BY Zenon DEF IInv, ShadowInv
<1> QED BY Zenon, <1>1, <1>2, <1>3 DEF Good, IInv, Retained, Final

\* The current run is fenced, its MicroVM perhaps identified.
LEMMA FencingWrite ==
  ASSUME IInv, NEW s \in Shadow, NEW t \in Nat \ {0}, issued' = issued,
         s.stopAt = shadow.stopAt, shadow.run.id # 0, s.run.id = shadow.run.id,
         shadow.run.vm # 0 => s.run.vm = shadow.run.vm
  PROVE  GoodWrite(Patch(Stopping(s), t))
<1> DEFINE p == Stopping(s)
           n == Patch(p, t)
<1>1. p \in Shadow /\ p.run = [s.run EXCEPT !.phase = "stopping"] /\ p.stopAt = s.stopAt
  BY Zenon, StoppingFacts
<1>2. s.run \in Run BY Zenon DEF Shadow
<1>3. p.run.phase = "stopping" /\ p.run.id = s.run.id /\ p.run.vm = s.run.vm
  BY Zenon, <1>1, <1>2 DEF Run
<1>4. /\ n \in Shadow /\ n.run = p.run /\ n.stopAt # 0
      /\ p.stopAt # 0 => n.stopAt = p.stopAt
  BY Zenon, <1>1, <1>3, PatchFacts
<1>5. shadow.run.id <= issued /\ (shadow.run.phase = "stopping" => shadow.stopAt # 0)
  BY Zenon DEF IInv, ShadowInv
<1> HIDE DEF p, n
<1>6. GoodWrite(n) BY Zenon, <1>1, <1>3, <1>4, <1>5 DEF GoodWrite, WholeRun
<1> QED BY Zenon, <1>6 DEF n, p
-----------------------------------------------------------------------------
(* Steps of an invocation that write nothing.                              *)

\* Between two passes, and before a termination, nothing is remembered.
LEMMA IdleFacts ==
  /\ Idle \in Controller /\ Pass(Idle, vms)
  /\ \A v \in VM \cup {0} : KillOf(v) \in Controller /\ Pass(KillOf(v), vms)
<1>1. NoRun \in Run BY Zenon DEF NoRun, Run, RunPhase
<1>2. StoppedShadow \in Shadow BY Zenon, <1>1 DEF StoppedShadow, Shadow
<1>3. Idle \in Controller BY Zenon, <1>2 DEF Idle, Controller, Lifecycle, VmState
<1>4. Idle.pc = "idle" BY Zenon DEF Idle
<1>5. \A v \in VM \cup {0} : KillOf(v) \in Controller /\ KillOf(v).pc = "kill"
  BY Zenon, <1>3 DEF KillOf, Controller
<1> QED BY Zenon, <1>3, <1>4, <1>5 DEF Pass

\* The types a step of invocation c starts from.
LEMMA CtlTypes ==
  ASSUME IInv, NEW c \in Controllers
  PROVE  /\ ctl[c] \in Controller /\ Pass(ctl[c], vms)
         /\ shadow \in Shadow /\ shadow.run \in Run /\ now \in Nat \ {0} /\ issued \in Nat
         /\ ctl[c].next \in Shadow /\ ctl[c].next.run \in Run /\ ctl[c].t \in Nat
BY Zenon DEF IInv, TypeOK, CtlInv, Controller, Shadow

\* A pass begins by sampling the time.
LEMMA BeginGood ==
  ASSUME IInv, NEW c \in Controllers, Begin(c)
  PROVE  Good
<1> DEFINE r == [Idle EXCEPT !.pc = "read", !.t = now]
<1>1. r \in Controller BY Zenon, IdleFacts, CtlTypes DEF Controller
<1>2. r.pc = "read" /\ r.t = now BY Zenon, IdleFacts DEF Controller
<1> HIDE DEF r
<1>3. Pass(r, vms) BY Zenon, <1>2, CtlTypes DEF Pass
<1> QED BY Zenon, <1>1, <1>3, ControllerStays DEF Begin, r

\* A drain begins; it decides from nothing it remembers.
LEMMA DrainGood ==
  ASSUME IInv, NEW c \in Controllers, Drain(c)
  PROVE  Good
<1> DEFINE r == [Idle EXCEPT !.pc = "drain"]
<1>1. r \in Controller /\ r.pc = "drain" BY Zenon, IdleFacts DEF Controller
<1> HIDE DEF r
<1>2. Pass(r, vms) BY Zenon, <1>1 DEF Pass
<1> QED BY Zenon, <1>1, <1>2, ControllerStays DEF Drain, r

\* The decision of a pass from a shadow with the run that was read.
LEMMA DecideGood ==
  ASSUME IInv, NEW c \in Controllers, NEW s \in Shadow, NEW current \in Lifecycle,
         NEW deferred, NEW t \in Nat \ {0},
         s.run = shadow.run, s.stopAt = shadow.stopAt, Decide(c, s, current, deferred, t)
  PROVE  Good
<1> DEFINE n == Decision(s, current, deferred, t)
           r == [ctl[c] EXCEPT !.pc = "save", !.t = t, !.cur = current, !.base = shadow, !.next = n]
<1>1. n \in Shadow /\ Keeps(s, n) BY Zenon, DecisionFacts
<1>2. Keeps(shadow, n) BY Zenon, <1>1 DEF Keeps
<1> HIDE DEF n
<1>3. r \in Controller BY ZenonT(60), <1>1, CtlTypes DEF Controller
<1>4. r.pc = "save" /\ r.t = t /\ r.base = shadow /\ r.next = n BY Zenon, CtlTypes DEF Controller
<1> HIDE DEF r
<1>5. Pass(r, vms) BY Zenon, <1>2, <1>4 DEF Pass
<1>6. Go(c, r) /\ UNCHANGED <<env, shadow, issued, vms>> BY Zenon DEF Decide, r, n
<1> QED BY Zenon, <1>3, <1>5, <1>6, ControllerStays

\* Each of the three views of the device ends in a decision that keeps the run.
LEMMA DecisionsGood ==
  ASSUME IInv, NEW c \in Controllers, NEW deferred \in BOOLEAN,
         DecideUndeclared(c) \/ DecideObserved(c) \/ DecideUnverified(c, deferred)
  PROVE  Good
<1>1. At(c, "read") BY Zenon DEF DecideUndeclared, DecideObserved, DecideUnverified, Decide
<1>2. ctl[c].t \in Nat \ {0} /\ now \in Nat \ {0} BY Zenon, <1>1, CtlTypes DEF At, Pass
<1>3. shadow \in Shadow BY Zenon, CtlTypes
<1>4. CASE DecideUndeclared(c)
  BY Zenon, <1>2, <1>3, <1>4, DecideGood DEF DecideUndeclared, Lifecycle
<1>5. CASE DecideObserved(c)
  <2> DEFINE s == ObserveActivation(shadow, Observation, ctl[c].t)
             current == IF Observation.active THEN "active" ELSE "inactive"
  <2>1. Observation \in [active : BOOLEAN, ver : Nat, ts : Nat]
    BY Zenon, <1>5, ObservationType DEF DecideObserved, IInv
  <2>2. s \in Shadow /\ s.run = shadow.run /\ s.stopAt = shadow.stopAt
    BY Zenon, <1>2, <1>3, <2>1, ObserveFacts
  <2>3. current \in Lifecycle BY Zenon DEF Lifecycle
  <2>4. Decide(c, s, current, FALSE, ctl[c].t) BY Zenon, <1>5 DEF DecideObserved
  <2> HIDE DEF s, current
  <2> QED BY Zenon, <1>2, <2>2, <2>3, <2>4, DecideGood
<1>6. CASE DecideUnverified(c, deferred)
  <2> DEFINE t == IF shadow.run = NoRun THEN ctl[c].t ELSE now
  <2>1. t \in Nat \ {0} BY Zenon, <1>2
  <2>2. Decide(c, shadow, "unavailable", deferred, t) BY Zenon, <1>6 DEF DecideUnverified
  <2> HIDE DEF t
  <2> QED BY Zenon, <1>3, <2>1, <2>2, DecideGood DEF Lifecycle
<1> QED BY Zenon, <1>4, <1>5, <1>6

\* The invocation ends here, or is about to terminate a MicroVM.
LEMMA EndsGood ==
  ASSUME IInv, NEW c \in Controllers, NEW v \in VM \cup {0},
         Go(c, Idle) \/ Go(c, KillOf(v)), UNCHANGED <<env, shadow, issued, vms>>
  PROVE  Good
BY Zenon, IdleFacts, ControllerStays

\* Steps that only end a pass, or turn it to a termination.
LEMMA ReadsGood ==
  ASSUME IInv, NEW c \in Controllers,
         \/ SaveConflict(c) \/ StopHost(c) \/ HostSettled(c) \/ AssignLate(c) \/ Crash(c)
         \/ \E v \in VM : OrphanUnclaimed(c, v)
  PROVE  Good
<1>1. SavedRun(c).vm \in VM \cup {0} BY Zenon, CtlTypes DEF SavedRun, Run
<1>2. \E u \in VM \cup {0} : Go(c, Idle) \/ Go(c, KillOf(u))
  BY Zenon, <1>1 DEF SaveConflict, StopHost, HostSettled, AssignLate, OrphanUnclaimed, Crash
<1>3. UNCHANGED <<env, shadow, issued, vms>>
  BY Zenon DEF SaveConflict, StopHost, HostSettled, AssignLate, OrphanUnclaimed, Crash
<1> QED BY Zenon, <1>2, <1>3, EndsGood

\* Steps that go on to the next call; a terminated host stays terminated.
LEMMA MovesGood ==
  ASSUME IInv, NEW c \in Controllers,
         Launch(c) \/ GetHost(c) \/ VerifyHost(c) \/ SampleStatus(c)
  PROVE  Good
<1>1. CASE Launch(c)
  <2> DEFINE r == [ctl[c] EXCEPT !.pc = "request"]
  <2>1. r \in Controller /\ r.pc = "request" /\ r.t = ctl[c].t /\ r.next = ctl[c].next
    BY Zenon, CtlTypes DEF Controller
  <2>2. Go(c, r) /\ UNCHANGED <<env, shadow, issued, vms>> BY Zenon, <1>1 DEF Launch
  <2> HIDE DEF r
  <2>3. Pass(r, vms) BY Zenon, <1>1, <2>1, CtlTypes DEF Pass, Launch, At
  <2> QED BY Zenon, <2>1, <2>2, <2>3, ControllerStays
<1>2. CASE GetHost(c)
  <2> DEFINE r == [ctl[c] EXCEPT !.pc = "act", !.host = vms[SavedRun(c).vm].state]
  <2>1. SavedRun(c).vm \in VM
    BY Zenon, <1>2, CtlTypes DEF GetHost, At, Pass, SavedRun, Run
  <2>2. vms[SavedRun(c).vm].state \in VmState BY Zenon, <2>1 DEF IInv, TypeOK, MicroVm
  <2>3. /\ r \in Controller /\ r.pc = "act" /\ r.t = ctl[c].t /\ r.next = ctl[c].next
        /\ r.host = vms[SavedRun(c).vm].state
    BY Zenon, <2>2, CtlTypes DEF Controller
  <2>4. Go(c, r) /\ UNCHANGED <<env, shadow, issued, vms>> BY Zenon, <1>2 DEF GetHost
  <2> HIDE DEF r
  <2>5. Pass(r, vms) BY Zenon, <1>2, <2>3, CtlTypes DEF Pass, GetHost, At, SavedRun
  <2> QED BY SMTT(60), <2>3, <2>4, <2>5, ControllerStays
<1>3. CASE VerifyHost(c)
  <2> DEFINE r == [ctl[c] EXCEPT !.pc = "assign", !.t = now]
  <2>1. r \in Controller /\ r.pc = "assign" /\ r.t = now /\ r.next = ctl[c].next
    BY Zenon, CtlTypes DEF Controller
  <2>2. Go(c, r) /\ UNCHANGED <<env, shadow, issued, vms>> BY Zenon, <1>3 DEF VerifyHost
  <2> HIDE DEF r
  <2>3. Pass(r, vms) BY Zenon, <1>3, <2>1, CtlTypes DEF Pass, VerifyHost, At
  <2> QED BY Zenon, <2>1, <2>2, <2>3, ControllerStays
<1>4. CASE SampleStatus(c)
  <2> DEFINE h == IF Holds(shadow.run.vm) THEN "verified" ELSE "stopped"
             r == [Idle EXCEPT !.pc = "sample", !.next = shadow, !.host = h]
  <2>2. Go(c, r) /\ UNCHANGED <<env, shadow, issued, vms>> BY Zenon, <1>4 DEF SampleStatus
  <2>5. h \in {"verified", "stopped"} OBVIOUS
  <2> HIDE DEF h
  <2>1. r \in Controller /\ r.pc = "sample" /\ r.next = shadow
    BY Zenon, <2>5, CtlTypes, IdleFacts DEF Controller
  <2>3. shadow.run.id # 0 BY <1>4 DEF SampleStatus, IInv, ShadowInv, WholeRun, NoRun
  <2> HIDE DEF r
  <2>4. Pass(r, vms) BY Zenon, <2>1, <2>3 DEF Pass
  <2> QED BY Zenon, <2>1, <2>2, <2>4, ControllerStays
<1> QED BY Zenon, <1>1, <1>2, <1>3, <1>4
-----------------------------------------------------------------------------
(* Steps of an invocation that write the shadow.                           *)

\* What the first write of a pass puts there, if nobody wrote in between.
LEMMA SaveWrite ==
  ASSUME IInv, NEW n \in Shadow, NEW t \in Nat \ {0}, Keeps(shadow, n),
         issued' = IF Unsaved(n) THEN issued + 1 ELSE issued
  PROVE  GoodWrite(Patch([n EXCEPT !.run.id = IF Unsaved(n) THEN issued + 1 ELSE @], t))
<1> DEFINE m == [n EXCEPT !.run.id = IF Unsaved(n) THEN issued + 1 ELSE @]
           s == Patch(m, t)
<1> SUFFICES GoodWrite(s) OBVIOUS
<1>1. shadow \in Shadow /\ shadow.run \in Run /\ n.run \in Run /\ issued \in Nat
  BY Zenon DEF IInv, TypeOK, Shadow
<1>2. /\ WholeRun(shadow.run) /\ shadow.run.id <= issued /\ shadow.run.id \in Nat
      /\ shadow.run.phase = "stopping" => shadow.stopAt # 0
  BY Zenon, <1>1 DEF IInv, ShadowInv, Run
<1>3. NoRun.id = 0 /\ NoRun.vm = 0 /\ NoRun.phase = "none" BY Zenon DEF NoRun
<1>4. CASE ~Unsaved(n)
  <2>1. m = n BY Zenon, <1>1, <1>4 DEF Shadow, Run
  <2>2. /\ s \in Shadow /\ s.run = n.run
        /\ n.run.phase = "stopping" /\ n.stopAt # 0 => s.stopAt = n.stopAt
        /\ n.run.phase = "stopping" => s.stopAt # 0
    BY <2>1, PatchFacts
  <2> HIDE DEF s
  <2>3. CASE n.run = shadow.run /\ n.stopAt = shadow.stopAt
    BY Zenon, <1>2, <1>4, <2>2, <2>3 DEF GoodWrite
  <2>4. CASE /\ shadow.run # NoRun /\ n.run = [shadow.run EXCEPT !.phase = "stopping"]
             /\ n.stopAt = shadow.stopAt
    <3>1. n.run.phase = "stopping" /\ n.run.id = shadow.run.id /\ n.run.vm = shadow.run.vm
      BY Zenon, <1>1, <2>4 DEF Run
    <3>2. WholeRun(n.run) BY Zenon, <1>2, <2>4, <3>1 DEF WholeRun
    <3> QED BY Zenon, <1>2, <1>4, <2>2, <2>4, <3>1, <3>2 DEF GoodWrite
  <2>5. CASE shadow.run.vm = 0 /\ n.run = NoRun
    BY <1>1, <1>2, <1>3, <1>4, <2>2, <2>5 DEF GoodWrite, WholeRun
  <2>6. CASE n.run.id = 0 /\ n.run.phase = "reserved"
    BY Zenon, <1>4, <2>6 DEF Unsaved
  <2> QED BY Zenon, <2>3, <2>4, <2>5, <2>6 DEF Keeps
<1>5. CASE Unsaved(n)
  <2>1. m \in Shadow /\ m.run.id = issued + 1 /\ m.run.phase = "reserved" /\ m.run.vm = n.run.vm
    BY <1>1, <1>5 DEF Shadow, Run, RunPhase, Unsaved
  <2>2. s \in Shadow /\ s.run = m.run BY ZenonT(60), <2>1, PatchFacts
  <2>3. shadow.run.vm = 0
    BY Zenon, <1>1, <1>2, <1>3, <1>5 DEF Keeps, Unsaved, WholeRun, Run
  <2> HIDE DEF s, m
  <2> QED BY <1>1, <1>2, <1>5, <2>1, <2>2, <2>3 DEF GoodWrite, WholeRun
<1> QED BY Zenon, <1>4, <1>5

\* The first write of a pass, conditional on what was read.
LEMMA SaveGood ==
  ASSUME IInv, NEW c \in Controllers, Save(c)
  PROVE  Good
<1> DEFINE n == ctl[c].next
           s == Patch([n EXCEPT !.run.id = IF Unsaved(n) THEN issued + 1 ELSE @], ctl[c].t)
           r == AfterSave(c, s)
<1>1. /\ At(c, "save") /\ shadow = ctl[c].base /\ shadow' = s /\ Go(c, r)
      /\ issued' = IF Unsaved(n) THEN issued + 1 ELSE issued
      /\ UNCHANGED <<env, vms>>
  BY Zenon DEF Save
<1>2. n \in Shadow /\ ctl[c].t \in Nat \ {0} /\ Keeps(shadow, n)
  BY Zenon, <1>1, CtlTypes DEF At, Pass
<1>3. GoodWrite(s) BY Zenon, <1>1, <1>2, SaveWrite
<1>4. issued' \in Nat BY <1>1, CtlTypes
<1> HIDE DEF s
<1>5. r \in Controller /\ Pass(r, vms)
  <2>1. CASE r = Idle BY Zenon, <2>1, IdleFacts
  <2>2. CASE /\ s.run # NoRun
             /\ r = [ctl[c] EXCEPT !.pc = IF s.run.vm = 0 THEN "launch" ELSE "host",
                                   !.base = StoppedShadow, !.next = s]
    <3> DEFINE q == IF s.run.vm = 0 THEN "launch" ELSE "host"
    <3>1. s \in Shadow /\ s.run.id # 0 BY Zenon, <1>3, <2>2 DEF GoodWrite, WholeRun
    <3>2. NoRun \in Run BY Zenon DEF NoRun, Run, RunPhase
    <3>3. StoppedShadow \in Shadow BY Zenon, <3>2 DEF StoppedShadow, Shadow
    <3>4. q \in {"launch", "host"} /\ (q = "host" => s.run.vm # 0) OBVIOUS
    <3> HIDE DEF q
    <3>5. r = [ctl[c] EXCEPT !.pc = q, !.base = StoppedShadow, !.next = s] BY Zenon, <2>2 DEF q
    <3> HIDE DEF r
    <3>6. r \in Controller /\ r.pc = q /\ r.t = ctl[c].t /\ r.next = s
      BY Zenon, <3>1, <3>3, <3>4, <3>5, CtlTypes DEF Controller
    <3>7. Pass(r, vms) BY Zenon, <1>2, <3>1, <3>4, <3>6 DEF Pass
    <3> QED BY Zenon, <3>6, <3>7
  <2> QED BY Zenon, <2>1, <2>2 DEF AfterSave
<1> HIDE DEF r
<1> QED BY Zenon, <1>1, <1>3, <1>4, <1>5, ControllerWrites

\* A step that writes back the shadow it read changes nothing.
LEMMA SameWrite ==
  ASSUME IInv, issued' = issued
  PROVE  GoodWrite(shadow)
BY Zenon DEF IInv, TypeOK, ShadowInv, GoodWrite

\* The launch answer, or the verified host, for the run of the pass.
LEMMA AcceptLaunchGood ==
  ASSUME IInv, NEW c \in Controllers, NEW v \in VM \cup {0}, NEW current,
         SavedRun(c).id # 0, AcceptLaunch(c, v, current)
  PROVE  Good
<1> DEFINE mine == shadow.run.id = SavedRun(c).id /\ shadow.run.vm \in {0, v}
           a == Accept(shadow, v, current, now)
           s == IF mine THEN Patch(a, now) ELSE shadow
           r == IF mine /\ s.run.phase # "stopping" THEN Idle ELSE KillOf(v)
<1>1. shadow' = s /\ Go(c, r) /\ UNCHANGED <<env, issued, vms>> BY Zenon DEF AcceptLaunch
<1>2. r \in Controller /\ Pass(r, vms) BY Zenon, IdleFacts
<1>3. GoodWrite(s)
  <2>1. CASE ~mine BY Zenon, <1>1, <2>1, SameWrite
  <2>2. CASE mine
    <3>1. /\ a \in Shadow /\ a.stopAt = shadow.stopAt /\ a.run.id = shadow.run.id /\ a.run.vm = v
          /\ shadow.run.phase # "none" => a.run.phase # "none"
          /\ shadow.run.phase = "stopping" => a.run.phase = "stopping"
      BY CtlTypes, AcceptFacts
    <3>2. shadow.run.id # 0 /\ shadow.run.phase # "none"
      BY <2>2 DEF IInv, ShadowInv, WholeRun, NoRun
    <3> HIDE DEF a
    <3> DEFINE p == Patch(a, now)
    <3>3. /\ p \in Shadow /\ p.run = a.run
          /\ a.run.phase = "stopping" /\ a.stopAt # 0 => p.stopAt = a.stopAt
          /\ a.run.phase = "stopping" => p.stopAt # 0
      BY SMTT(60), <3>1, CtlTypes, PatchFacts
    <3>4. shadow.run.id <= issued /\ (shadow.run.phase = "stopping" => shadow.stopAt # 0)
      BY Zenon DEF IInv, ShadowInv
    <3>5. shadow.run.vm # 0 => shadow.run.vm = v BY Zenon, <2>2
    <3> HIDE DEF p
    <3>6. GoodWrite(p) BY Zenon, <1>1, <3>1, <3>2, <3>3, <3>4, <3>5 DEF GoodWrite, WholeRun
    <3> QED BY Zenon, <2>2, <3>6 DEF p
  <2> QED BY Zenon, <2>1, <2>2
<1>4. issued' \in Nat BY Zenon, <1>1, CtlTypes
<1> HIDE DEF s, r
<1> QED BY Zenon, <1>1, <1>2, <1>3, <1>4, ControllerWrites

\* The answer of a launch, and the assignment of a verified host, are accepted.
LEMMA BindingGood ==
  ASSUME IInv, NEW c \in Controllers, Bind(c) \/ Assign(c)
  PROVE  Good
<1>1. SavedRun(c).id # 0 BY Zenon, CtlTypes DEF Bind, Assign, At, Pass, SavedRun
<1>2. ctl[c].vm \in VM \cup {0} /\ SavedRun(c).vm \in VM \cup {0}
  BY Zenon, CtlTypes DEF SavedRun, Controller, Run
<1> QED BY SMTT(60), <1>1, <1>2, AcceptLaunchGood DEF Bind, Assign

\* Steps that fence the run of the pass, if the shadow still has it.
LEMMA FencesGood ==
  ASSUME IInv, NEW c \in Controllers, NEW r \in Controller, Pass(r, vms), NEW t \in Nat \ {0},
         NEW same \in BOOLEAN, same => shadow.run.id # 0,
         shadow' = IF same THEN Patch(Stopping(shadow), t) ELSE shadow,
         Go(c, r), UNCHANGED <<env, issued, vms>>
  PROVE  Good
<1> DEFINE n == IF same THEN Patch(Stopping(shadow), t) ELSE shadow
<1>1. shadow \in Shadow /\ issued' \in Nat BY Zenon, CtlTypes
<1>2. GoodWrite(n)
  <2>1. CASE same BY Zenon, <1>1, <2>1, FencingWrite
  <2>2. CASE ~same BY Zenon, <2>2, SameWrite
  <2> QED BY Zenon, <2>1, <2>2
<1>3. shadow' = n OBVIOUS
<1> HIDE DEF n
<1> QED BY Zenon, <1>1, <1>2, <1>3, ControllerWrites

\* A launch that is too late, a lost host and a stopped runtime fence the run.
LEMMA FencingGood ==
  ASSUME IInv, NEW c \in Controllers, LaunchExpired(c) \/ FenceHost(c) \/ SampleStopped(c)
  PROVE  Good
<1>1. SavedRun(c).vm \in VM \cup {0} BY SMTT(60), CtlTypes DEF SavedRun, Run
<1>2. SavedRun(c).id # 0
  BY Zenon, CtlTypes DEF LaunchExpired, FenceHost, SampleStopped, At, Pass, SavedRun
<1>3. now \in Nat \ {0} BY Zenon, CtlTypes
<1>4. CASE LaunchExpired(c)
  <2> DEFINE same == shadow.run.id = SavedRun(c).id
  <2>1. same \in BOOLEAN /\ (same => shadow.run.id # 0) BY Zenon, <1>2
  <2> QED BY Zenon, <1>3, <1>4, <2>1, IdleFacts, FencesGood DEF LaunchExpired
<1>5. CASE FenceHost(c)
  <2>1. ctl[c].t \in Nat \ {0} BY Zenon, <1>5, CtlTypes DEF FenceHost, At, Pass
  <2> DEFINE r == IF SameRun(c) /\ ctl[c].host = "suspended" THEN KillOf(SavedRun(c).vm) ELSE Idle
  <2>2. r \in Controller /\ Pass(r, vms) BY Zenon, <1>1, IdleFacts
  <2>3. SameRun(c) \in BOOLEAN /\ (SameRun(c) => shadow.run.id # 0) BY Zenon, <1>2 DEF SameRun
  <2>4. /\ shadow' = IF SameRun(c) THEN Patch(Stopping(shadow), ctl[c].t) ELSE shadow
        /\ Go(c, r) /\ UNCHANGED <<env, issued, vms>>
    BY SMTT(60), <1>5 DEF FenceHost
  <2> HIDE DEF r
  <2> QED BY Zenon, <2>1, <2>2, <2>3, <2>4, FencesGood
<1>6. CASE SampleStopped(c)
  <2> DEFINE r == IF StillRunning(c) THEN KillOf(SavedRun(c).vm) ELSE Idle
  <2>1. r \in Controller /\ Pass(r, vms) BY Zenon, <1>1, IdleFacts
  <2>2. StillRunning(c) \in BOOLEAN /\ (StillRunning(c) => shadow.run.id # 0)
    BY Zenon, <1>2 DEF StillRunning, SameRun
  <2>3. /\ shadow' = IF StillRunning(c) THEN Patch(Stopping(shadow), now) ELSE shadow
        /\ Go(c, r) /\ UNCHANGED <<env, issued, vms>>
    BY Zenon, <1>6 DEF SampleStopped
  <2> HIDE DEF r
  <2> QED BY Zenon, <1>3, <2>1, <2>2, <2>3, FencesGood
<1> QED BY Zenon, <1>4, <1>5, <1>6
\* ClearTerminated: a run whose MicroVM is terminated is taken off the shadow.
LEMMA ClearGood ==
  ASSUME IInv, NEW c \in Controllers, ClearTerminated(c)
  PROVE  Good
<1> DEFINE p == [shadow EXCEPT !.run = NoRun]
           n == IF SameRun(c) THEN Patch(p, ctl[c].t) ELSE shadow
<1>1. shadow' = n /\ Go(c, Idle) /\ UNCHANGED <<env, issued, vms>> BY Zenon DEF ClearTerminated
<1>2. GoodWrite(n)
  <2>1. CASE ~SameRun(c) BY Zenon, <1>1, <2>1, SameWrite
  <2>2. CASE SameRun(c)
    <3>1. vms[shadow.run.vm].state = "terminated" /\ shadow.run.id # 0
      BY Zenon, <2>2, CtlTypes DEF ClearTerminated, At, Pass, SameRun, SavedRun
    <3>2. NoRun \in Run /\ NoRun.id = 0 /\ NoRun.phase = "none" BY Zenon DEF NoRun, Run, RunPhase
    <3>3. p \in Shadow /\ p.run = NoRun BY Zenon, <3>2, CtlTypes DEF Shadow
    <3>4. n \in Shadow /\ n.run = NoRun BY Zenon, <2>2, <3>3, CtlTypes, PatchFacts
    <3>5. issued' = issued /\ issued \in Nat BY Zenon, <1>1, CtlTypes
    <3> HIDE DEF n
    <3> QED BY SMTT(60), <3>1, <3>2, <3>4, <3>5 DEF GoodWrite, WholeRun
  <2> QED BY Zenon, <2>1, <2>2
<1>3. issued' \in Nat BY Zenon, <1>1, CtlTypes
<1> HIDE DEF n
<1> QED BY Zenon, <1>1, <1>2, <1>3, IdleFacts, ControllerWrites

\* Publishing the endpoint leaves the run alone.
LEMMA EndpointGood ==
  ASSUME IInv, NEW c \in Controllers, SampleEndpoint(c)
  PROVE  Good
<1> DEFINE e == [shadow EXCEPT !.endpoint = shadow.run.vm]
           same == StillRunning(c) /\ ~Revoked(shadow, "active", now) /\ StillObserved(shadow)
           n == IF same THEN e ELSE shadow
<1>1. shadow' = n /\ Go(c, Idle) /\ UNCHANGED <<env, issued, vms>> BY Zenon DEF SampleEndpoint
<1>2. shadow.run.vm \in Nat BY CtlTypes, BoundsAssumption DEF Run, VM, BoundsAssumption
<1>3. e \in Shadow /\ e.run = shadow.run /\ e.stopAt = shadow.stopAt
  BY Zenon, <1>2, CtlTypes DEF Shadow
<1>4. GoodWrite(shadow) BY Zenon, <1>1, SameWrite
<1>5. GoodWrite(e)
  <2> HIDE DEF e
  <2> QED BY Zenon, <1>3, <1>4 DEF GoodWrite
<1>6. GoodWrite(n) BY Zenon, <1>4, <1>5
<1>7. issued' \in Nat BY Zenon, <1>1, CtlTypes
<1> HIDE DEF n
<1> QED BY Zenon, <1>1, <1>6, <1>7, IdleFacts, ControllerWrites

\* A MicroVM that claims a revoked run is recorded in it, and the run fenced.
LEMMA OrphanGood ==
  ASSUME IInv, NEW c \in Controllers, NEW v \in VM, NEW readable \in BOOLEAN,
         OrphanFenced(c, v, readable)
  PROVE  Good
<1> DEFINE s == OrphanView(readable)
           b == [s EXCEPT !.run.vm = v]
           n == Patch(Stopping(b), now)
<1>1. /\ Candidate(c, v) /\ Claimed(v) /\ shadow' = n
      /\ Go(c, KillOf(v)) /\ UNCHANGED <<env, issued, vms>>
  BY Zenon DEF OrphanFenced
<1>2. s \in Shadow /\ s.run = shadow.run /\ s.stopAt = shadow.stopAt
  <2>1. CASE s = shadow BY Zenon, <2>1, CtlTypes
  <2>2. CASE proj.ts # 0 /\ s = ObserveActivation(shadow, Observation, now)
    BY SMTT(60), <2>2, CtlTypes, ObservationType, ObserveFacts DEF IInv
  <2> QED BY Zenon, <2>1, <2>2 DEF OrphanView
<1> HIDE DEF s
<1>3. /\ b \in Shadow /\ b.run.id = shadow.run.id /\ b.run.vm = v
      /\ b.stopAt = shadow.stopAt
  BY Zenon, <1>2, CtlTypes DEF Shadow, Run
<1> HIDE DEF b
<1>4. shadow.run.id # 0 /\ (shadow.run.vm # 0 => shadow.run.vm = v)
  BY SMTT(60), <1>1, CtlTypes DEF Candidate, Claimed, IInv, VmInv
<1>5. now \in Nat \ {0} /\ issued' = issued /\ issued' \in Nat BY Zenon, <1>1, CtlTypes
<1>6. GoodWrite(n) BY Zenon, <1>3, <1>4, <1>5, FencingWrite
<1>7. KillOf(v) \in Controller /\ Pass(KillOf(v), vms) BY Zenon, IdleFacts
<1> HIDE DEF n
<1> QED BY Zenon, <1>1, <1>5, <1>6, <1>7, ControllerWrites

\* A drain fences the run the shadow holds.
LEMMA DrainFencesGood ==
  ASSUME IInv, NEW c \in Controllers, DrainFence(c) \/ DrainKnown(c)
  PROVE  Good
<1>1. now \in Nat \ {0} /\ shadow.run.vm \in VM \cup {0} BY SMTT(60), CtlTypes DEF Run
<1>2. shadow.run # NoRun => shadow.run.id # 0 BY Zenon DEF IInv, ShadowInv, WholeRun
<1>3. CASE DrainFence(c)
  <2> DEFINE same == shadow.run # NoRun
  <2>1. same \in BOOLEAN /\ (same => shadow.run.id # 0) BY Zenon, <1>2
  <2> QED BY Zenon, <1>1, <1>3, <2>1, IdleFacts, FencesGood DEF DrainFence
<1>4. CASE DrainKnown(c)
  <2> DEFINE same == shadow.run.vm # 0
  <2>1. NoRun.vm = 0 BY Zenon DEF NoRun
  <2>2. same \in BOOLEAN /\ (same => shadow.run.id # 0) BY Zenon, <1>2, <2>1
  <2>3. /\ shadow' = IF same THEN Patch(Stopping(shadow), now) ELSE shadow
        /\ Go(c, KillOf(shadow.run.vm)) /\ UNCHANGED <<env, issued, vms>>
    BY Zenon, <1>4 DEF DrainKnown
  <2>4. KillOf(shadow.run.vm) \in Controller /\ Pass(KillOf(shadow.run.vm), vms)
    BY Zenon, <1>1, IdleFacts
  <2> HIDE DEF same
  <2> QED BY Zenon, <1>1, <2>2, <2>3, <2>4, FencesGood
<1> QED BY Zenon, <1>3, <1>4

-----------------------------------------------------------------------------
(* Steps that change MicroVMs.                                             *)

\* The last two conjuncts of VmInv, of one MicroVM m.
QuietVm(m) ==
  /\ m.state \in {"none", "terminated"} => m.phase = "waiting" /\ ~m.ok /\ m.poll = "none"
  /\ m.state # "none" => m.run # 0

\* One MicroVM becomes m.
LEMMA VmMove ==
  ASSUME IInv, NEW v \in VM, NEW m \in MicroVm, QuietVm(m),
         m.ok \/ m.poll = "verified" => shadow.run.vm = v,
         vms[v].state = "terminated" => m.state = "terminated",
         vms' = [vms EXCEPT ![v] = m], UNCHANGED <<env, shadow, issued>>,
         ctl' \in [Controllers -> Controller], \A d \in Controllers : Pass(ctl'[d], vms)
  PROVE  Good
<1>1. vms' \in [VM -> MicroVm] BY Zenon DEF IInv, TypeOK
<1>2. \A u \in VM : vms'[u] = IF u = v THEN m ELSE vms[u] BY Zenon DEF IInv, TypeOK
<1>3. VmInv' BY <1>2 DEF IInv, VmInv, QuietVm
<1>4. \A u \in VM : vms[u].state = "terminated" => vms'[u].state = "terminated" BY Zenon, <1>2
<1> QED BY Zenon, <1>1, <1>3, <1>4, VmsMove

\* A MicroVM is what its type says, and quiet before and after its life.
LEMMA VmTypes ==
  ASSUME IInv, NEW v \in VM
  PROVE  /\ vms[v] \in MicroVm /\ QuietVm(vms[v])
         /\ vms[v].ok \/ vms[v].poll = "verified" => shadow.run.vm = v
         /\ ctl \in [Controllers -> Controller] /\ \A d \in Controllers : Pass(ctl[d], vms)
BY Zenon DEF IInv, TypeOK, VmInv, CtlInv, QuietVm

\* A launch request adds a MicroVM of a run that has an identity, or none.
LEMMA RequestGood ==
  ASSUME IInv, NEW c \in Controllers, NEW v \in VM, Request(c, v)
  PROVE  Good
<1> DEFINE new == [NoVm EXCEPT !.run = SavedRun(c).id, !.act = SavedRun(c).act,
                               !.deadline = ctl[c].next.deadline, !.started = now,
                               !.state = "pending"]
           r == [ctl[c] EXCEPT !.pc = "bind", !.vm = v]
<1>1. /\ At(c, "request") /\ Go(c, r) /\ UNCHANGED <<env, shadow, issued>>
      /\ vms' = vms \/ (vms[v] = NoVm /\ vms' = [vms EXCEPT ![v] = new])
  BY Zenon DEF Request
<1>2. r \in Controller /\ r.pc = "bind" /\ r.t = ctl[c].t /\ r.next = ctl[c].next
  BY Zenon, CtlTypes DEF Controller
<1> HIDE DEF r
<1>3. Pass(r, vms) BY Zenon, <1>1, <1>2, CtlTypes DEF At, Pass
<1>4. CASE vms' = vms BY Zenon, <1>1, <1>2, <1>3, <1>4, ControllerStays
<1>5. CASE vms[v] = NoVm /\ vms' = [vms EXCEPT ![v] = new]
  <2>1. ctl' \in [Controllers -> Controller] /\ \A d \in Controllers : Pass(ctl'[d], vms)
    BY Zenon, <1>1, <1>2, <1>3, GoStep DEF IInv
  <2>2. /\ SavedRun(c).id \in Nat \ {0} /\ SavedRun(c).act \in Nat
        /\ ctl[c].next.deadline \in Nat /\ now \in Nat
    BY Zenon, <1>1, CtlTypes DEF At, Pass, SavedRun, Run, Shadow
  <2>3. new \in MicroVm BY Zenon, <2>2 DEF NoVm, MicroVm, VmState
  <2>4. new.state = "pending" /\ new.run # 0 /\ ~new.ok /\ new.poll = "none"
    BY Zenon, <2>2 DEF NoVm
  <2>5. vms[v].state # "terminated" BY <1>5 DEF NoVm
  <2> HIDE DEF new
  <2>6. QuietVm(new) BY Zenon, <2>4 DEF QuietVm
  <2> QED BY Zenon, <1>1, <1>5, <2>1, <2>3, <2>4, <2>5, <2>6, VmMove
<1> QED BY Zenon, <1>1, <1>4, <1>5

\* TerminateMicrovm, whoever calls it, for a MicroVM or for none.
LEMMA TerminatedGood ==
  ASSUME IInv, NEW v \in VM \cup {0}, vms' = Terminated(v), UNCHANGED <<env, shadow, issued>>,
         ctl' \in [Controllers -> Controller], \A d \in Controllers : Pass(ctl'[d], vms)
  PROVE  Good
<1>1. \A u \in VM : /\ vms'[u] \in MicroVm /\ QuietVm(vms'[u])
                    /\ vms'[u].ok = vms[u].ok /\ vms'[u].poll = vms[u].poll
                    /\ vms[u].state = "terminated" => vms'[u].state = "terminated"
  <2> TAKE u \in VM
  <2>1. vms[u] \in MicroVm /\ QuietVm(vms[u]) BY Zenon, VmTypes
  <2>2. CASE vms'[u] = vms[u] BY Zenon, <2>1, <2>2
  <2>3. CASE vms[u].state \in Live /\ vms'[u] = [vms[u] EXCEPT !.state = "terminating"]
    BY Zenon, <2>1, <2>3 DEF MicroVm, VmState, Live, QuietVm
  <2>4. vms \in [VM -> MicroVm] BY Zenon DEF IInv, TypeOK
  <2>5. vms'[u] = IF u = v /\ vms[u].state \in Live
                  THEN [vms[u] EXCEPT !.state = "terminating"] ELSE vms[u]
    BY Zenon, <2>1, <2>4 DEF Terminated, MicroVm
  <2> QED BY Zenon, <2>2, <2>3, <2>5
<1>2. vms' \in [VM -> MicroVm]
  <2>1. vms \in [VM -> MicroVm] BY Zenon DEF IInv, TypeOK
  <2>2. vms' = [u \in VM |-> vms'[u]] BY Zenon, <2>1 DEF Terminated
  <2> QED BY Zenon, <1>1, <2>2
<1>3. VmInv' BY Zenon, <1>1, VmTypes DEF VmInv, QuietVm
<1> QED BY Zenon, <1>1, <1>2, <1>3, VmsMove

\* An invocation terminates the MicroVM it remembers.
LEMMA KillGood ==
  ASSUME IInv, NEW c \in Controllers, Kill(c)
  PROVE  Good
<1>1. ctl[c].vm \in VM \cup {0} BY Zenon, CtlTypes DEF Controller
<1>2. ctl' \in [Controllers -> Controller] /\ \A d \in Controllers : Pass(ctl'[d], vms)
  BY Zenon, IdleFacts, GoStep DEF Kill, IInv
<1> QED BY Zenon, <1>1, <1>2, TerminatedGood DEF Kill

\* Draining terminates any MicroVM.
LEMMA DrainKillGood ==
  ASSUME IInv, NEW c \in Controllers, NEW v \in VM, DrainKill(c, v)
  PROVE  Good
<1>1. ctl' \in [Controllers -> Controller] /\ \A d \in Controllers : Pass(ctl'[d], vms)
  BY SMTT(60), VmTypes DEF DrainKill
<1> QED BY SMTT(60), <1>1, TerminatedGood DEF DrainKill

\* A runtime stops and forgets its authority.
LEMMA HaltGood ==
  ASSUME IInv, NEW v \in VM, vms[v].state \notin {"none", "terminated"}, vms[v].run # 0,
         VmStep(v, Halted(vms[v]))
  PROVE  Good
<1> DEFINE m == Halted(vms[v])
<1>1. m \in MicroVm /\ m.state = vms[v].state /\ m.run = vms[v].run /\ ~m.ok /\ m.poll = "none"
  BY ZenonT(60), VmTypes DEF Halted, MicroVm
<1> HIDE DEF m
<1> QED BY Zenon, <1>1, VmTypes, VmMove DEF QuietVm, VmStep, m

\* A runtime that is up verifies itself; only one that the shadow names succeeds.
LEMMA PollsGood ==
  ASSUME IInv, NEW v \in VM, PollVerified(v) \/ PollRefused(v) \/ PollDone(v)
  PROVE  Good
<1> DEFINE q == [vms[v] EXCEPT !.poll = IF PollVerified(v) THEN "verified" ELSE "refused"]
           d == [vms[v] EXCEPT !.at = now, !.ok = TRUE, !.poll = "none"]
<1>1. vms[v] \in MicroVm /\ QuietVm(vms[v]) /\ now \in Nat BY Zenon, VmTypes DEF IInv, TypeOK
<1>2. vms[v].state \notin {"none", "terminated"} /\ vms[v].run # 0
  BY Zenon, <1>1 DEF QuietVm, PollVerified, PollRefused, PollDone, Polling
<1>3. CASE PollVerified(v) /\ VmStep(v, [vms[v] EXCEPT !.poll = "verified"])
  <2>1. /\ q \in MicroVm /\ q.state = vms[v].state /\ q.run = vms[v].run
        /\ q = [vms[v] EXCEPT !.poll = "verified"]
    BY Zenon, <1>1, <1>3 DEF MicroVm
  <2>2. shadow.run.vm = v BY Zenon, <1>3 DEF PollVerified
  <2> HIDE DEF q
  <2> QED BY Zenon, <1>2, <1>3, <2>1, <2>2, VmTypes, VmMove DEF QuietVm, VmStep
<1>4. CASE ~PollVerified(v) /\ VmStep(v, [vms[v] EXCEPT !.poll = "refused"])
  <2>1. /\ q \in MicroVm /\ q.state = vms[v].state /\ q.run = vms[v].run
        /\ q.ok = vms[v].ok /\ q.poll = "refused" /\ q = [vms[v] EXCEPT !.poll = "refused"]
    BY Zenon, <1>1, <1>4 DEF MicroVm
  <2> HIDE DEF q
  <2> QED BY Zenon, <1>2, <1>4, <2>1, VmTypes, VmMove DEF QuietVm, VmStep
<1>5. CASE VmStep(v, d) /\ vms[v].poll = "verified"
  <2>1. d \in MicroVm /\ d.state = vms[v].state /\ d.run = vms[v].run
    BY Zenon, <1>1 DEF MicroVm
  <2> HIDE DEF d
  <2> QED BY Zenon, <1>2, <1>5, <2>1, VmTypes, VmMove DEF QuietVm, VmStep
<1>6. CASE VmStep(v, Halted(vms[v])) BY Zenon, <1>2, <1>6, HaltGood
<1>7. vms[v].poll \in {"none", "verified", "refused"} BY Zenon, <1>1 DEF MicroVm
<1>8. PollRefused(v) => VmStep(v, [vms[v] EXCEPT !.poll = "refused"]) BY Zenon DEF PollRefused
<1>9. PollVerified(v) => VmStep(v, [vms[v] EXCEPT !.poll = "verified"]) BY Zenon DEF PollVerified
<1>10. PollDone(v) => \/ VmStep(v, d) /\ vms[v].poll = "verified"
                      \/ VmStep(v, Halted(vms[v]))
  BY Zenon, <1>7 DEF PollDone
<1> HIDE DEF d
<1> QED BY Zenon, <1>3, <1>4, <1>5, <1>6, <1>8, <1>9, <1>10

\* The other steps of a MicroVM give up authority, or have none yet.
LEMMA VmStepsGood ==
  ASSUME IInv, NEW v \in VM,
         StartVm(v) \/ Expire(v) \/ Suspend(v) \/ VmTerminated(v) \/ VmDies(v)
  PROVE  Good
<1>1. vms[v] \in MicroVm /\ QuietVm(vms[v]) /\ now \in Nat BY Zenon, VmTypes DEF IInv, TypeOK
<1>2. vms[v].state \notin {"none", "terminated"} /\ vms[v].run # 0
  BY Zenon, <1>1 DEF QuietVm, StartVm, Expire, Suspend, VmTerminated, VmDies, Live
<1>3. CASE StartVm(v)
  <2> DEFINE m == [vms[v] EXCEPT !.state = "running", !.at = now,
                     !.phase = IF now < vms[v].deadline THEN "running" ELSE "failed"]
  <2>1. /\ m \in MicroVm /\ m.state = "running" /\ m.run = vms[v].run
        /\ m.ok = vms[v].ok /\ m.poll = vms[v].poll
    BY ZenonT(60), <1>1 DEF MicroVm, VmState
  <2>2. VmStep(v, m) BY Zenon, <1>3 DEF StartVm
  <2> HIDE DEF m
  <2> QED BY Zenon, <1>2, <2>1, <2>2, VmTypes, VmMove DEF QuietVm, VmStep
<1>4. CASE Expire(v) BY Zenon, <1>2, <1>4, HaltGood DEF Expire
<1>5. CASE Suspend(v)
  <2> DEFINE m == [Halted(vms[v]) EXCEPT !.state = "suspended"]
  <2>1. /\ m \in MicroVm /\ m.state = "suspended" /\ m.run = vms[v].run
        /\ ~m.ok /\ m.poll = "none"
    BY Zenon, <1>1 DEF MicroVm, VmState, Halted
  <2>2. VmStep(v, m) BY Zenon, <1>5 DEF Suspend
  <2> HIDE DEF m
  <2> QED BY Zenon, <1>2, <2>1, <2>2, VmTypes, VmMove DEF QuietVm, VmStep
<1>6. CASE VmStep(v, Gone(vms[v]))
  <2> DEFINE m == Gone(vms[v])
  <2>1. /\ m \in MicroVm /\ m.state = "terminated" /\ m.run = vms[v].run
        /\ ~m.ok /\ m.poll = "none" /\ m.phase = "waiting"
    BY Zenon, <1>1 DEF MicroVm, VmState, Gone, NoVm
  <2> HIDE DEF m
  <2> QED BY Zenon, <1>2, <1>6, <2>1, VmTypes, VmMove DEF QuietVm, VmStep, m
<1> QED BY Zenon, <1>3, <1>4, <1>5, <1>6 DEF VmTerminated, VmDies

-----------------------------------------------------------------------------
(* The invariant.                                                          *)

\* The environment touches nothing that the invariant is about.
LEMMA EnvironmentGood ==
  ASSUME IInv, Environment
  PROVE  Good
<1>1. UNCHANGED <<shadow, issued, vms, ctl>> BY Zenon DEF Environment, Tick, Declare, Project
<1>2. now' \in Nat \ {0} /\ declared' \in BOOLEAN /\ proj' \in [ver : Nat, ts : 0..Len(Activity)]
  <2>1. now \in Nat \ {0} /\ declared \in BOOLEAN
        /\ proj \in [ver : Nat, ts : 0..Len(Activity)]
    BY Zenon DEF IInv, TypeOK
  <2>2. CASE Tick BY <2>1, <2>2 DEF Tick
  <2>3. CASE Declare BY <2>1, <2>3, Zenon DEF Declare
  <2>4. CASE \E i \in DOMAIN Activity : Project(i)
    <3>1. PICK i \in DOMAIN Activity : Project(i) BY Zenon, <2>4
    <3>2. i \in 0..Len(Activity) BY BoundsAssumption DEF BoundsAssumption
    <3> QED BY <2>1, <3>1, <3>2 DEF Project
  <2> QED BY Zenon, <2>2, <2>3, <2>4 DEF Environment
<1>3. TypeOK' BY Zenon, <1>1, <1>2 DEF IInv, TypeOK
<1> QED BY Zenon, <1>1, <1>3 DEF Good, IInv, ShadowInv, VmInv, CtlInv, Retained, Final

\* Nothing runs before the first invocation.
LEMMA InitIInv == Init => IInv
<1> SUFFICES ASSUME Init PROVE IInv OBVIOUS
<1>1. NoRun \in Run BY Zenon DEF NoRun, Run, RunPhase
<1>2. StoppedShadow \in Shadow BY Zenon, <1>1 DEF StoppedShadow, Shadow
<1>3. NoVm \in MicroVm BY Zenon DEF NoVm, MicroVm, VmState
<1>4. Len(Activity) \in Nat BY BoundsAssumption DEF BoundsAssumption
<1>5. TypeOK BY SMTT(60), <1>2, <1>3, <1>4, IdleFacts DEF Init, TypeOK
<1>6. ShadowInv BY DEF Init, ShadowInv, StoppedShadow, WholeRun, NoRun
<1>7. VmInv BY Zenon DEF Init, VmInv, NoVm
<1>8. CtlInv BY Zenon, IdleFacts DEF Init, CtlInv
<1> QED BY Zenon, <1>5, <1>6, <1>7, <1>8 DEF IInv

\* Every step keeps the invariant, and has the two action properties.
LEMMA NextGood ==
  ASSUME IInv, Next
  PROVE  Good
<1>1. CASE Environment BY Zenon, <1>1, EnvironmentGood
<1>2. ASSUME NEW c \in Controllers, ControllerStep(c) PROVE Good
  <2>1. CASE Begin(c) BY Zenon, <2>1, BeginGood
  <2>2. CASE DecideUndeclared(c) \/ DecideObserved(c)
              \/ \E deferred \in BOOLEAN : DecideUnverified(c, deferred)
    BY Zenon, <2>2, DecisionsGood
  <2>3. CASE Save(c) BY Zenon, <2>3, SaveGood
  <2>4. CASE SaveConflict(c) \/ StopHost(c) \/ HostSettled(c) \/ AssignLate(c) \/ Crash(c)
              \/ \E v \in VM : OrphanUnclaimed(c, v)
    BY Zenon, <2>4, ReadsGood
  <2>5. CASE Launch(c) \/ GetHost(c) \/ VerifyHost(c) \/ SampleStatus(c) BY Zenon, <2>5, MovesGood
  <2>6. CASE Bind(c) \/ Assign(c) BY Zenon, <2>6, BindingGood
  <2>7. CASE LaunchExpired(c) \/ FenceHost(c) \/ SampleStopped(c) BY Zenon, <2>7, FencingGood
  <2>8. CASE ClearTerminated(c) BY Zenon, <2>8, ClearGood
  <2>9. CASE SampleEndpoint(c) BY Zenon, <2>9, EndpointGood
  <2>10. CASE \E v \in VM, readable \in BOOLEAN : OrphanFenced(c, v, readable)
    BY Zenon, <2>10, OrphanGood
  <2>11. CASE DrainFence(c) \/ DrainKnown(c) BY Zenon, <2>11, DrainFencesGood
  <2>12. CASE \E v \in VM : Request(c, v) BY Zenon, <2>12, RequestGood
  <2>13. CASE Kill(c) BY Zenon, <2>13, KillGood
  <2>14. CASE \E v \in VM : DrainKill(c, v) BY Zenon, <2>14, DrainKillGood
  <2>15. CASE Drain(c) BY Zenon, <2>15, DrainGood
  <2> QED
    BY Zenon, <1>2, <2>1, <2>2, <2>3, <2>4, <2>5, <2>6, <2>7, <2>8, <2>9, <2>10, <2>11, <2>12,
       <2>13, <2>14, <2>15 DEF ControllerStep
<1>3. ASSUME NEW v \in VM, VmNext(v) PROVE Good
  BY SMTT(60), <1>3, PollsGood, VmStepsGood DEF VmNext
<1> QED BY Zenon, <1>1, <1>2, <1>3 DEF Next

\* A step that changes nothing keeps the invariant.
LEMMA StutterGood ==
  ASSUME IInv, UNCHANGED vars
  PROVE  Good
BY Zenon DEF vars, env, Good, IInv, TypeOK, ShadowInv, VmInv, CtlInv, Retained, Final

\* The inductive invariant, for every behaviour.
THEOREM Inductive == Spec => []IInv
<1>1. IInv /\ [Next]_vars => IInv'
  BY Zenon, NextGood, StutterGood DEF Good
<1> QED BY InitIInv, <1>1, PTL DEF Spec

\* Every variable has its type, and with it the host a controller acts on.
THEOREM TypeCorrect == Spec => []TypeOK
<1>1. IInv => TypeOK BY Zenon DEF IInv
<1> QED BY Inductive, <1>1, PTL

\* At most one runtime works for the device, however many MicroVMs are up.
THEOREM ExclusiveAuthorityHolds == Spec => []ExclusiveAuthority
<1>1. IInv => ExclusiveAuthority BY Zenon DEF IInv, VmInv, ExclusiveAuthority, Holds, Fresh
<1> QED BY Inductive, <1>1, PTL

\* A known MicroVM leaves the shadow only after its termination.
THEOREM KnownVmRetainedHolds == Spec => KnownVmRetained
<1> DEFINE Step == shadow.run.vm # 0 /\ shadow'.run.id # shadow.run.id
                     => vms[shadow.run.vm].state = "terminated"
<1>1. IInv /\ [Next]_vars => [Step]_vars BY Zenon, NextGood DEF Good, Retained
<1> HIDE DEF Step
<1>2. Spec => [][Step]_vars BY Inductive, <1>1, PTL DEF Spec
<1> QED BY Zenon, <1>2 DEF KnownVmRetained, Step

\* A run that is being stopped is never revived, nor its stop time moved.
THEOREM StopIsFinalHolds == Spec => StopIsFinal
<1> DEFINE Step == shadow.run.phase = "stopping" /\ shadow'.run.id = shadow.run.id
                     => shadow'.run.phase = "stopping" /\ shadow'.stopAt = shadow.stopAt
<1>1. IInv /\ [Next]_vars => [Step]_vars BY Zenon, NextGood DEF Good, Final
<1> HIDE DEF Step
<1>2. Spec => [][Step]_vars BY Inductive, <1>1, PTL DEF Spec
<1> QED BY Zenon, <1>2 DEF StopIsFinal, Step

-----------------------------------------------------------------------------
(* Identities, terminations and the form of the shadow.                    *)

\* What a shadow says of the projection and of a run it need not have confirmed.
Viewed(s) ==
  /\ s.run # NoRun => s.act # 0
  /\ s.run.act <= s.act
  /\ s.run.phase = "running" => s.run.vm # 0 /\ s.endpoint \in {0, s.run.vm}
  /\ s.ver # 0 /\ ~s.active => s.inactiveAt # 0
  /\ s.ver = 0 <=> s.ts = 0

\* A shadow that its parsers accept once the patch has stamped it.
Formed(s) ==
  /\ Viewed(s)
  /\ s.run.phase \in {"reserved", "running"} => s.active /\ s.run.act = s.act

\* It shows a message of the device, and its activations have their rises.
Earned(s) ==
  /\ s.ts \in 0..Len(Activity)
  /\ s.ts # 0 => s.active = Activity[s.ts]
  /\ s.act <= Cardinality(Rises(s.ts))

\* A later message has the rises of an earlier one, one more after an edge; a
\* fact about Rises, RisesGrow of AgentWatchProofs.
RisesGrowing ==
  \A i, j \in 0..Len(Activity) :
    i <= j => /\ Cardinality(Rises(i)) \in Nat /\ Cardinality(Rises(j)) \in Nat
              /\ Cardinality(Rises(i)) <= Cardinality(Rises(j))
              /\ i # 0 /\ i < j /\ ~Activity[i] /\ Activity[j]
                   => Cardinality(Rises(i)) + 1 <= Cardinality(Rises(j))

\* Only an edge moves the deadline, and an edge ends the run there was.
Outdates(b, n) ==
  n.deadline = b.deadline \/ n.run = NoRun \/ n.run.phase = "stopping" \/ n.run.id = 0

ShadowForm ==
  /\ Formed(shadow) /\ Earned(shadow)
  /\ shadow.endpoint # 0 => shadow.run.phase = "running"

\* Of an invocation r that is about to write its decision.
SaveForm(r) ==
  r.pc = "save" => Formed(r.next) /\ Earned(r.next) /\ Outdates(r.base, r.next)

FormInv ==
  /\ proj.ver = 0 <=> proj.ts = 0
  /\ ShadowForm /\ \A c \in Controllers : SaveForm(ctl[c])

\* Tokens: a MicroVM is of one run, and the shadow names that of its run.
TokenInv ==
  /\ \A v \in VM : vms[v].run <= issued
  /\ \A u, v \in VM : vms[u].run = vms[v].run /\ vms[u].run # 0 => u = v
  /\ shadow.run.vm # 0 => vms[shadow.run.vm].run = shadow.run.id

\* Run id is not in the shadow, or it is being stopped there.
Ended(id) == shadow.run.id = id => shadow.run.phase = "stopping"

Saved == {"launch", "request", "bind", "host", "act", "assign", "sample"}

\* Of an invocation r: its run has an identity, its MicroVM is of its run, and
\* what it stops has ended.
Token(r) ==
  /\ r.pc \in Saved => r.next.run.id <= issued
  /\ r.pc \in Saved /\ r.next.run.vm # 0 => vms[r.next.run.vm].run = r.next.run.id
  /\ r.pc = "bind" => r.vm # 0 /\ vms[r.vm].run = r.next.run.id
  /\ r.pc \in {"assign", "sample"} => r.next.run.vm # 0
  /\ r.pc \in {"host", "act"} /\ r.next.run.phase = "stopping" => Ended(r.next.run.id)
  /\ r.pc = "kill" => r.vm # 0 /\ vms[r.vm].run # 0 /\ Ended(vms[r.vm].run)

TokensInv == TokenInv /\ \A c \in Controllers : Token(ctl[c])

-----------------------------------------------------------------------------
(* Well-formed shadows.                                                    *)

\* x says the same of the projection and of activations as s.
SameView(x, s) ==
  /\ x.active = s.active /\ x.ver = s.ver /\ x.ts = s.ts /\ x.inactiveAt = s.inactiveAt
  /\ x.act = s.act /\ x.deadline = s.deadline

\* What a save carries over unchanged keeps its activation earned.
LEMMA SameViewEarned ==
  ASSUME NEW x, NEW s, SameView(x, s), Earned(s)
  PROVE  Earned(x)
BY Zenon DEF SameView, Earned

\* The patch takes away the endpoint of a run that is not running.
LEMMA PatchForm ==
  ASSUME NEW s \in Shadow, NEW t \in Nat
  PROVE  /\ SameView(Patch(s, t), s)
         /\ Patch(s, t).endpoint \in {0, s.endpoint}
         /\ Patch(s, t).endpoint # 0 => s.run.phase = "running"
         /\ Formed(s) => Formed(Patch(s, t))
<1> DEFINE p == Patch(s, t)
<1>1. /\ SameView(p, s) /\ p.run = s.run
      /\ p.endpoint = IF s.run.phase = "running" THEN s.endpoint ELSE 0
  BY Zenon DEF Patch, Shadow, SameView
<1> HIDE DEF p
<1>2. Formed(s) => Formed(p)
  BY Zenon, <1>1 DEF Formed, Viewed, SameView
<1> QED BY Zenon, <1>1, <1>2 DEF p

\* Fencing a run needs nothing to be confirmed.
LEMMA StoppingForm ==
  ASSUME NEW s \in Shadow, Viewed(s), s.run # NoRun
  PROVE  /\ Formed(Stopping(s)) /\ SameView(Stopping(s), s)
         /\ Stopping(s).run.phase = "stopping" /\ Stopping(s).run.act = s.run.act
<1> DEFINE p == Stopping(s)
<1>1. s.run \in Run /\ p.run = [s.run EXCEPT !.phase = "stopping"] /\ SameView(p, s)
  BY Zenon DEF Stopping, Shadow, SameView
<1> HIDE DEF p
<1>2. p.run.phase = "stopping" /\ p.run.act = s.run.act
  BY Zenon, <1>1 DEF Run
<1>3. Formed(p)
  BY Zenon, <1>1, <1>2 DEF Formed, Viewed, SameView
<1> QED BY Zenon, <1>1, <1>2, <1>3 DEF p

\* What a pass or the orphan check makes of a projection that is not stale.
LEMMA ObserveForm ==
  ASSUME TypeOK, FormInv, RisesGrowing, proj.ts # 0, ~Stale(shadow, Observation),
         NEW t \in Nat \ {0}
  PROVE  LET o == ObserveActivation(shadow, Observation, t)
         IN  /\ Viewed(o) /\ Earned(o)
             /\ o.deadline = shadow.deadline \/ (o.run.act # o.act /\ Observation.active)
<1> DEFINE s == shadow
           p == Observation
           e == Edge(s, p)
           o == ObserveActivation(s, p, t)
           i == IF p.active \/ (p.ver = s.ver /\ t <= s.inactiveAt) THEN s.inactiveAt ELSE t
           a == IF e THEN s.act + 1 ELSE s.act
           d == IF e THEN s.inactiveAt + Budget ELSE s.deadline
<1>1. /\ s \in Shadow /\ p \in [active : BOOLEAN, ver : Nat, ts : Nat]
      /\ s.inactiveAt \in Nat /\ s.act \in Nat /\ s.deadline \in Nat /\ s.ver \in Nat /\ s.ts \in Nat
      /\ s.run.act \in Nat /\ s.active \in BOOLEAN
  BY Zenon, ObservationType DEF TypeOK, Shadow, Run
<1>2. /\ p.active = Activity[p.ts] /\ p.ts \in 1..Len(Activity) /\ p.ver # 0
      /\ p.ver = proj.ver /\ p.ts = proj.ts
  <2>1. p.active = Activity[proj.ts] /\ p.ver = proj.ver /\ p.ts = proj.ts
    BY Zenon DEF Observation
  <2>2. Len(Activity) \in Nat
    BY BoundsAssumption DEF BoundsAssumption
  <2>3. proj.ts \in 0..Len(Activity) /\ proj.ver \in Nat
    BY Zenon DEF TypeOK
  <2> QED BY <2>1, <2>2, <2>3 DEF FormInv
<1>3. Viewed(s) /\ Earned(s)
  BY Zenon DEF FormInv, ShadowForm, Formed
<1>4. o = [s EXCEPT !.active = p.active, !.ver = p.ver, !.ts = p.ts,
                    !.inactiveAt = i, !.act = a, !.deadline = d]
  BY Zenon DEF ObserveActivation
<1>5. s.ts <= p.ts /\ (e => s.ts # 0 /\ s.ts < p.ts /\ ~s.active /\ p.active)
  BY <1>1, <1>2, <1>3 DEF Stale, Edge, Viewed
<1>6. /\ i \in Nat /\ a \in Nat /\ (~p.active => i # 0)
      /\ s.act <= a /\ (e => a = s.act + 1) /\ (~e => a = s.act /\ d = s.deadline)
  BY <1>1
<1> HIDE DEF i, a, d, o, p, e
<1>7. /\ o.run = s.run /\ o.endpoint = s.endpoint
      /\ o.active = p.active /\ o.ver = p.ver /\ o.ts = p.ts
      /\ o.inactiveAt = i /\ o.act = a /\ o.deadline = d
  BY ZenonT(60), <1>1, <1>4 DEF Shadow
<1>8. Viewed(o)
  BY <1>1, <1>2, <1>3, <1>6, <1>7 DEF Viewed
<1>9. Earned(o)
  <2>1. s.ts \in 0..Len(Activity) /\ p.ts \in 0..Len(Activity) /\ Len(Activity) \in Nat
    BY <1>2, <1>3, BoundsAssumption DEF Earned, BoundsAssumption
  <2>2. /\ Cardinality(Rises(s.ts)) \in Nat /\ Cardinality(Rises(p.ts)) \in Nat
        /\ Cardinality(Rises(s.ts)) <= Cardinality(Rises(p.ts))
        /\ e => Cardinality(Rises(s.ts)) + 1 <= Cardinality(Rises(p.ts))
    BY Zenon, <1>2, <1>3, <1>5, <2>1 DEF Earned, RisesGrowing
  <2>3. a <= Cardinality(Rises(p.ts))
    BY <1>1, <1>3, <1>6, <2>2 DEF Earned
  <2> QED BY Zenon, <1>2, <1>7, <2>1, <2>3 DEF Earned
<1>10. o.deadline = s.deadline \/ (o.run.act # o.act /\ p.active)
  BY <1>1, <1>3, <1>5, <1>6, <1>7 DEF Viewed
<1> QED BY Zenon, <1>8, <1>9, <1>10 DEF o, p

\* A decision confirms the run, or fences it, or reserves a new one.
LEMMA DecisionForm ==
  ASSUME NEW s \in Shadow, NEW current, NEW deferred, NEW t \in Nat, NEW b \in Shadow,
         Viewed(s), Earned(s), s.deadline = b.deadline \/ s.run.act # s.act
  PROVE  LET n == Decision(s, current, deferred, t)
         IN  Formed(n) /\ Earned(n) /\ Outdates(b, n)
<1> DEFINE l == Lapse(s, current, deferred, t)
           f == Fence(l, current, t)
           u == Supersede(f, current, t)
           r == Reserve(u, current, t)
           View(x) == x \in Shadow /\ SameView(x, s) /\ Viewed(x)
           Confirmed(x) == x.run.phase \in {"reserved", "running"} => x.active /\ x.run.act = x.act
           Dated(x) == \/ x.run = NoRun \/ x.run.phase = "stopping"
                       \/ x.run.act = x.act /\ x.run.act = s.run.act
<1>1. View(l) /\ l.run.act = s.run.act
  <2>1. CASE l = [s EXCEPT !.unverified = 0] \/ l = [s EXCEPT !.unverified = t] \/ l = s
    BY <2>1 DEF Shadow, SameView, Viewed
  <2>2. CASE s.run # NoRun /\ l = Stopping(s)
    BY Zenon, <2>2, StoppingForm, StoppingFacts DEF Formed
  <2> QED BY Zenon, <2>1, <2>2 DEF Lapse
<1> HIDE DEF l
<1>2. View(f) /\ Confirmed(f) /\ Dated(f)
  <2>1. CASE l.run # NoRun /\ Revoked(l, current, t)
    <3>1. f = Stopping(l)
      BY Zenon, <2>1 DEF Fence
    <3>2. Formed(f) /\ SameView(f, l) /\ f.run.phase = "stopping" /\ f \in Shadow
      BY Zenon, <1>1, <2>1, <3>1, StoppingForm, StoppingFacts
    <3> HIDE DEF f
    <3> QED BY Zenon, <1>1, <3>2 DEF SameView, Formed
  <2>2. CASE ~(l.run # NoRun /\ Revoked(l, current, t))
    <3>1. f = l
      BY Zenon, <2>2 DEF Fence
    <3>2. l.run = NoRun \/ (l.active /\ l.run.act = l.act)
      BY Zenon, <2>2 DEF Revoked, Authorized
    <3> QED BY <1>1, <3>1, <3>2 DEF NoRun
  <2> QED BY Zenon, <2>1, <2>2
<1> HIDE DEF f
<1>3. View(u) /\ Confirmed(u) /\ Dated(u)
  <2>1. CASE u = f
    BY Zenon, <1>2, <2>1
  <2>2. CASE u = [f EXCEPT !.run = NoRun, !.stopAt = 0]
    <3>1. NoRun \in Run
      BY Zenon DEF NoRun, Run, RunPhase
    <3> HIDE DEF u
    <3>2. u \in Shadow /\ u.run = NoRun /\ SameView(u, f)
      BY Zenon, <1>2, <2>2, <3>1 DEF Shadow, SameView
    <3>3. f.act \in Nat
      BY Zenon, <1>2 DEF Shadow
    <3> QED BY <1>2, <3>2, <3>3 DEF SameView, Viewed, NoRun
  <2> QED BY Zenon, <2>1, <2>2 DEF Supersede
<1> HIDE DEF u
<1>4. Formed(r) /\ SameView(r, s) /\ Outdates(b, r)
  <2>1. CASE r = u
    BY Zenon, <1>3, <2>1 DEF Formed, Outdates, SameView
  <2>2. CASE /\ r = [u EXCEPT !.run = [id |-> 0, act |-> u.act, vm |-> 0, phase |-> "reserved"]]
             /\ Authorized(u, t)
    <3> HIDE DEF r
    <3>1. /\ r.run = [id |-> 0, act |-> u.act, vm |-> 0, phase |-> "reserved"] /\ SameView(r, u)
          /\ u.act \in Nat
      BY Zenon, <1>3, <2>2 DEF Shadow, SameView
    <3>2. u.active /\ u.act # 0
      BY Zenon, <2>2 DEF Authorized
    <3>3. r.run.phase = "reserved" /\ r.run.act = u.act /\ r.run.id = 0
      BY <3>1
    <3> QED BY <1>3, <3>1, <3>2, <3>3 DEF SameView, Viewed, Formed, Outdates
  <2> QED BY Zenon, <2>1, <2>2 DEF Reserve
<1> QED BY Zenon, <1>4, SameViewEarned DEF Decision, r, u, f, l

-----------------------------------------------------------------------------
(* Kinds of steps.                                                         *)

\* What every step keeps of the past: identities are not used again, and a run
\* that is stopping, or past its deadline, stays so while the shadow has it.
Evolves ==
  /\ issued <= issued' /\ now <= now'
  /\ \/ shadow'.run.id = 0 \/ shadow'.run.id > issued
     \/ /\ shadow'.run.id = shadow.run.id
        /\ shadow.run.phase = "stopping" => shadow'.run.phase = "stopping"
        /\ shadow'.deadline = shadow.deadline \/ shadow'.run.phase = "stopping"
  /\ \A v \in VM : vms[v].run # 0 => vms'[v].run = vms[v].run

Inv == IInv /\ FormInv /\ TokensInv /\ RisesGrowing

Others(c) == \A d \in Controllers \ {c} : ctl'[d] = ctl[d]

Grown == FormInv' /\ TokensInv' /\ Evolves

\* What has ended stays ended.
LEMMA EndedStays ==
  ASSUME NEW id \in Nat \ {0}, id <= issued, issued \in Nat, shadow'.run.id \in Nat,
         Ended(id), Evolves
  PROVE  Ended(id)'
BY DEF Ended, Evolves

\* An invocation that does not move keeps what it knows, for an ended run stays
\* ended and a MicroVM keeps its run.
LEMMA TokenStays ==
  ASSUME Inv, IInv', Evolves, NEW d \in Controllers, ctl'[d] = ctl[d]
  PROVE  Token(ctl[d])'
<1>1. PICK r \in Controller : r = ctl[d] /\ Token(r) /\ Pass(r, vms)
  BY Zenon DEF Inv, IInv, TypeOK, CtlInv, TokensInv
<1>2. r.next.run \in Run /\ r.vm \in VM \cup {0}
  BY Zenon, <1>1 DEF Controller, Shadow
<1>3. r.next.run.vm \in VM \cup {0} /\ r.next.run.id \in Nat
  BY Zenon, <1>2 DEF Run
<1>4. /\ issued \in Nat /\ issued' \in Nat /\ shadow'.run.id \in Nat /\ issued <= issued'
      /\ \A v \in VM : vms[v].run \in Nat /\ vms[v].run <= issued
      /\ \A v \in VM : vms[v].run # 0 => vms'[v].run = vms[v].run
  BY Zenon DEF Inv, IInv, TypeOK, Shadow, Run, MicroVm, TokensInv, TokenInv, Evolves
<1>5. r.pc \in Saved => r.next.run.id # 0 /\ r.next.run.id <= issued
  BY Zenon, <1>1 DEF Token, Pass, Saved
<1>6. r.pc \in Saved /\ r.next.run.vm # 0 => vms'[r.next.run.vm].run = r.next.run.id
  BY Zenon, <1>1, <1>3, <1>4, <1>5 DEF Token
<1>7. r.pc = "bind" => r.vm # 0 /\ vms'[r.vm].run = r.next.run.id
  BY Zenon, <1>1, <1>2, <1>4, <1>5 DEF Token, Saved
<1>8. r.pc \in {"host", "act"} /\ r.next.run.phase = "stopping" => Ended(r.next.run.id)'
  BY Zenon, <1>1, <1>3, <1>4, <1>5, EndedStays DEF Token, Saved
<1>9. r.pc = "kill" => r.vm # 0 /\ vms'[r.vm].run # 0 /\ Ended(vms[r.vm].run)'
  <2> SUFFICES ASSUME r.pc = "kill"
               PROVE  r.vm # 0 /\ vms'[r.vm].run # 0 /\ Ended(vms[r.vm].run)'
    OBVIOUS
  <2>1. PICK id \in Nat : id = vms[r.vm].run /\ id # 0 /\ id <= issued /\ Ended(id) /\ r.vm # 0
    BY Zenon, <1>1, <1>2, <1>4 DEF Token
  <2>2. vms'[r.vm].run = id
    BY Zenon, <1>2, <1>4, <2>1
  <2>3. Ended(id)'
    BY Zenon, <1>4, <2>1, EndedStays
  <2> QED BY Zenon, <2>1, <2>2, <2>3 DEF Ended
<1>10. issued' \in Nat /\ (r.pc \in Saved => r.next.run.id <= issued')
  BY <1>3, <1>4, <1>5
<1>11. r.pc \in {"assign", "sample"} => r.next.run.vm # 0
  BY Zenon, <1>1 DEF Token
<1> QED BY Zenon, <1>1, <1>6, <1>7, <1>8, <1>9, <1>10, <1>11 DEF Token, Ended

\* A step of one invocation.
LEMMA ControllerGrows ==
  ASSUME Inv, IInv', Evolves, NEW c \in Controllers, Others(c), proj' = proj,
         ShadowForm', SaveForm(ctl[c])', TokenInv', Token(ctl[c])'
  PROVE  Grown
<1>1. ASSUME NEW d \in Controllers PROVE SaveForm(ctl[d])' /\ Token(ctl[d])'
  <2>1. CASE d = c
    BY Zenon, <2>1
  <2>2. CASE d # c
    <3>1. ctl'[d] = ctl[d]
      BY Zenon, <2>2 DEF Others
    <3> QED BY Zenon, <3>1, TokenStays DEF Inv, FormInv, SaveForm
  <2> QED BY Zenon, <2>1, <2>2
<1> QED BY Zenon, <1>1 DEF Grown, Inv, FormInv, TokensInv

\* A step of a MicroVM, of its service or of the environment.
LEMMA OutsideGrows ==
  ASSUME Inv, IInv', Evolves, ctl' = ctl, proj'.ver = 0 <=> proj'.ts = 0,
         shadow' = shadow, TokenInv'
  PROVE  Grown
<1>1. ASSUME NEW d \in Controllers PROVE SaveForm(ctl[d])' /\ Token(ctl[d])'
  BY Zenon, TokenStays DEF Inv, FormInv, SaveForm
<1> QED BY Zenon, <1>1 DEF Grown, Inv, FormInv, ShadowForm, TokensInv

\* The shadow stays as it is.
LEMMA Unwritten ==
  ASSUME Inv, shadow' = shadow, vms' = vms, issued' = issued, now' = now
  PROVE  ShadowForm' /\ TokenInv' /\ Evolves
<1>1. issued \in Nat /\ now \in Nat
  BY Zenon DEF Inv, IInv, TypeOK
<1> QED BY <1>1 DEF Inv, FormInv, ShadowForm, TokensInv, TokenInv, Evolves

\* The types a step of invocation c starts from, and what it knows.
LEMMA CtlKnows ==
  ASSUME Inv, NEW c \in Controllers
  PROVE  /\ ctl[c] \in Controller /\ Pass(ctl[c], vms) /\ Token(ctl[c]) /\ SaveForm(ctl[c])
         /\ ctl[c].next \in Shadow /\ SavedRun(c) \in Run /\ ctl[c].t \in Nat
         /\ ctl[c].vm \in VM \cup {0} /\ SavedRun(c).vm \in VM \cup {0} /\ SavedRun(c).id \in Nat
         /\ shadow \in Shadow /\ shadow.run \in Run /\ now \in Nat \ {0} /\ issued \in Nat
         /\ shadow.run.vm \in VM \cup {0} /\ shadow.run.id \in Nat
         /\ ShadowForm /\ TokenInv /\ ShadowInv /\ vms \in [VM -> MicroVm]
<1>1. /\ ctl[c] \in Controller /\ Pass(ctl[c], vms) /\ Token(ctl[c]) /\ SaveForm(ctl[c])
      /\ ShadowForm /\ TokenInv /\ ShadowInv /\ vms \in [VM -> MicroVm]
  BY Zenon DEF Inv, IInv, TypeOK, CtlInv, TokensInv, FormInv
<1>2. /\ ctl[c].next \in Shadow /\ SavedRun(c) \in Run /\ ctl[c].t \in Nat
      /\ shadow \in Shadow /\ shadow.run \in Run /\ now \in Nat \ {0} /\ issued \in Nat
  BY Zenon, CtlTypes DEF Inv, SavedRun
<1>3. ctl[c].vm \in VM \cup {0}
  BY Zenon, <1>1 DEF Controller
<1>4. /\ SavedRun(c).vm \in VM \cup {0} /\ SavedRun(c).id \in Nat
      /\ shadow.run.vm \in VM \cup {0} /\ shadow.run.id \in Nat
  BY Zenon, <1>2 DEF Run
<1> QED BY Zenon, <1>1, <1>2, <1>3, <1>4

-----------------------------------------------------------------------------
(* Steps of an invocation that write nothing.                              *)

\* Go moves one invocation and leaves the others where they are.
LEMMA GoOne ==
  ASSUME Inv, NEW c \in Controllers, NEW r, Go(c, r)
  PROVE  ctl'[c] = r /\ Others(c)
BY Zenon DEF Inv, IInv, TypeOK, Go, Others

\* A step of an invocation that writes nothing: what remains to be seen is the form
\* of what it carries on.
LEMMA ReadGrows ==
  ASSUME Inv, IInv', NEW c \in Controllers, NEW r, Go(c, r),
         UNCHANGED <<env, shadow, issued, vms>>, SaveForm(r), Token(r)
  PROVE  Grown
<1>1. ctl'[c] = r /\ Others(c)
  BY Zenon, GoOne
<1>2. /\ proj' = proj /\ shadow' = shadow /\ vms' = vms /\ issued' = issued /\ now' = now
  BY Zenon DEF env
<1>3. ShadowForm' /\ TokenInv' /\ Evolves
  BY Zenon, <1>2, Unwritten
<1>4. SaveForm(ctl[c])'
  BY Zenon, <1>1 DEF SaveForm
<1>5. Token(ctl[c])'
  BY Zenon, <1>1, <1>2 DEF Token, Ended
<1> QED BY Zenon, <1>1, <1>2, <1>3, <1>4, <1>5, ControllerGrows

\* What an invocation at rest, and one about to terminate, has to know.
LEMMA RestToken ==
  /\ Idle.pc = "idle" /\ SaveForm(Idle) /\ Token(Idle)
  /\ \A v \in VM \cup {0} : KillOf(v).pc = "kill" /\ KillOf(v).vm = v /\ SaveForm(KillOf(v))
<1>1. Idle.pc = "idle"
  BY Zenon DEF Idle
<1>2. \A v \in VM \cup {0} : KillOf(v).pc = "kill" /\ KillOf(v).vm = v
  BY Zenon, IdleFacts DEF KillOf, Controller
<1> QED BY Zenon, <1>1, <1>2 DEF SaveForm, Token, Saved

\* An invocation that goes on to terminate a MicroVM knows that its run has ended.
LEMMA KillToken ==
  ASSUME NEW v \in VM \cup {0}, v # 0, vms[v].run # 0, Ended(vms[v].run)
  PROVE  Token(KillOf(v))
BY Zenon, RestToken DEF Token, Saved

\* A pass ends, or turns to terminating what it stops or what no run names.
LEMMA EndsGrow ==
  ASSUME Inv, IInv', NEW c \in Controllers,
         \/ SaveConflict(c) \/ StopHost(c) \/ HostSettled(c) \/ AssignLate(c) \/ Crash(c)
         \/ \E v \in VM : OrphanUnclaimed(c, v)
  PROVE  Grown
<1>1. UNCHANGED <<env, shadow, issued, vms>>
  BY Zenon DEF SaveConflict, StopHost, HostSettled, AssignLate, OrphanUnclaimed, Crash
<1>2. CASE Go(c, Idle)
  BY Zenon, <1>1, <1>2, RestToken, ReadGrows
<1>3. CASE StopHost(c) /\ Go(c, KillOf(SavedRun(c).vm))
  <2> DEFINE v == SavedRun(c).vm
  <2>1. v \in VM \cup {0} /\ v # 0 /\ vms[v].run = SavedRun(c).id /\ SavedRun(c).id # 0
        /\ Ended(SavedRun(c).id)
    BY Zenon, <1>3, CtlKnows DEF StopHost, At, Pass, Token, Saved, SavedRun
  <2> HIDE DEF v
  <2>2. Token(KillOf(v)) /\ SaveForm(KillOf(v))
    BY Zenon, <2>1, KillToken, RestToken
  <2> QED BY Zenon, <1>1, <1>3, <2>2, ReadGrows DEF v
<1>4. ASSUME NEW v \in VM, OrphanUnclaimed(c, v) PROVE Grown
  <2>1. v # 0 /\ vms[v].run # 0
    BY <1>4, BoundsAssumption DEF OrphanUnclaimed, Candidate, Inv, IInv, VmInv, VM, BoundsAssumption
  <2>2. Ended(vms[v].run)
    <3>1. SUFFICES ASSUME shadow.run.id = vms[v].run PROVE FALSE
      BY Zenon DEF Ended
    <3>2. shadow.run.vm \notin {0, v}
      BY Zenon, <1>4, <3>1 DEF OrphanUnclaimed, Claimed
    <3> QED BY Zenon, <2>1, <3>1, <3>2, CtlKnows DEF TokenInv
  <2>3. Token(KillOf(v)) /\ SaveForm(KillOf(v))
    BY Zenon, <2>1, <2>2, KillToken, RestToken
  <2> QED BY Zenon, <1>1, <1>4, <2>3, ReadGrows DEF OrphanUnclaimed
<1> QED BY Zenon, <1>2, <1>3, <1>4 DEF SaveConflict, StopHost, HostSettled, AssignLate, Crash

\* A drain begins.
LEMMA DrainGrows ==
  ASSUME Inv, IInv', NEW c \in Controllers, Drain(c)
  PROVE  Grown
<1> DEFINE r == [Idle EXCEPT !.pc = "drain"]
<1>1. r.pc = "drain"
  BY Zenon, IdleFacts DEF Controller
<1> HIDE DEF r
<1>2. SaveForm(r) /\ Token(r)
  BY Zenon, <1>1 DEF SaveForm, Token, Saved
<1> QED BY Zenon, <1>2, ReadGrows DEF Drain, r

\* A pass begins, or goes on to its next call.
LEMMA MovesGrow ==
  ASSUME Inv, IInv', NEW c \in Controllers,
         Begin(c) \/ Launch(c) \/ GetHost(c) \/ VerifyHost(c) \/ SampleStatus(c)
  PROVE  Grown
<1>1. UNCHANGED <<env, shadow, issued, vms>>
  BY Zenon DEF Begin, Launch, GetHost, VerifyHost, SampleStatus
<1>2. CASE Begin(c)
  <2> DEFINE r == [Idle EXCEPT !.pc = "read", !.t = now]
  <2>1. r.pc = "read"
    BY Zenon, IdleFacts DEF Controller
  <2>2. Go(c, r)
    BY Zenon, <1>2 DEF Begin
  <2> HIDE DEF r
  <2>3. SaveForm(r) /\ Token(r)
    BY Zenon, <2>1 DEF SaveForm, Token, Saved
  <2> QED BY Zenon, <1>1, <2>2, <2>3, ReadGrows
<1>3. CASE Launch(c)
  <2> DEFINE r == [ctl[c] EXCEPT !.pc = "request"]
  <2>1. r.pc = "request" /\ r.next = ctl[c].next
    BY Zenon, CtlKnows DEF Controller
  <2>2. Go(c, r) /\ ctl[c].pc = "launch"
    BY Zenon, <1>3 DEF Launch, At
  <2> HIDE DEF r
  <2>3. SaveForm(r) /\ Token(r)
    BY Zenon, <2>1, <2>2, CtlKnows DEF SaveForm, Token, Saved
  <2> QED BY Zenon, <1>1, <2>2, <2>3, ReadGrows
<1>4. CASE GetHost(c)
  <2> DEFINE r == [ctl[c] EXCEPT !.pc = "act", !.host = vms[SavedRun(c).vm].state]
  <2>1. r.pc = "act" /\ r.next = ctl[c].next
    BY Zenon, CtlKnows DEF Controller
  <2>2. Go(c, r) /\ ctl[c].pc = "host"
    BY Zenon, <1>4 DEF GetHost, At
  <2> HIDE DEF r
  <2>3. SaveForm(r) /\ Token(r)
    BY Zenon, <2>1, <2>2, CtlKnows DEF SaveForm, Token, Saved
  <2> QED BY Zenon, <1>1, <2>2, <2>3, ReadGrows
<1>5. CASE VerifyHost(c)
  <2> DEFINE r == [ctl[c] EXCEPT !.pc = "assign", !.t = now]
  <2>1. r.pc = "assign" /\ r.next = ctl[c].next
    BY Zenon, CtlKnows DEF Controller
  <2>2. Go(c, r) /\ ctl[c].pc = "act"
    BY Zenon, <1>5 DEF VerifyHost, At
  <2> HIDE DEF r
  <2>3. r.next.run.vm # 0
    BY Zenon, <2>1, <2>2, CtlKnows DEF Pass
  <2>4. SaveForm(r) /\ Token(r)
    BY Zenon, <2>1, <2>2, <2>3, CtlKnows DEF SaveForm, Token, Saved
  <2> QED BY Zenon, <1>1, <2>2, <2>4, ReadGrows
<1>6. CASE SampleStatus(c)
  <2> DEFINE h == IF Holds(shadow.run.vm) THEN "verified" ELSE "stopped"
             r == [Idle EXCEPT !.pc = "sample", !.next = shadow, !.host = h]
  <2>1. Go(c, r) /\ shadow.run.phase = "running"
    BY Zenon, <1>6 DEF SampleStatus
  <2> HIDE DEF h
  <2>2. r.pc = "sample" /\ r.next = shadow
    BY Zenon, IdleFacts DEF Controller
  <2> HIDE DEF r
  <2>3. shadow.run.vm # 0 /\ vms[shadow.run.vm].run = shadow.run.id /\ shadow.run.id <= issued
    BY Zenon, <2>1, CtlKnows DEF ShadowForm, Formed, Viewed, TokenInv, ShadowInv
  <2>4. SaveForm(r) /\ Token(r)
    BY Zenon, <2>2, <2>3 DEF SaveForm, Token, Saved
  <2> QED BY Zenon, <1>1, <2>1, <2>4, ReadGrows
<1> QED BY Zenon, <1>2, <1>3, <1>4, <1>5, <1>6

\* The decision from what was read: shadow s has the run of the shadow.
LEMMA DecideGrows ==
  ASSUME Inv, IInv', NEW c \in Controllers, NEW s \in Shadow, NEW current, NEW deferred,
         NEW t \in Nat, Decide(c, s, current, deferred, t), Viewed(s), Earned(s),
         s.deadline = shadow.deadline \/ s.run.act # s.act
  PROVE  Grown
<1> DEFINE n == Decision(s, current, deferred, t)
           r == [ctl[c] EXCEPT !.pc = "save", !.t = t, !.cur = current, !.base = shadow, !.next = n]
<1>1. Go(c, r) /\ UNCHANGED <<env, shadow, issued, vms>>
  BY Zenon DEF Decide
<1>2. Formed(n) /\ Earned(n) /\ Outdates(shadow, n)
  BY Zenon, CtlKnows, DecisionForm
<1> HIDE DEF n
<1>3. r.pc = "save" /\ r.base = shadow /\ r.next = n
  BY Zenon, CtlKnows DEF Controller
<1> HIDE DEF r
<1>4. SaveForm(r) /\ Token(r)
  BY Zenon, <1>2, <1>3 DEF SaveForm, Token, Saved
<1> QED BY Zenon, <1>1, <1>4, ReadGrows

\* The decisions of a pass, from no desired state, an observation or none.
LEMMA DecisionsGrow ==
  ASSUME Inv, IInv', NEW c \in Controllers, NEW deferred \in BOOLEAN,
         DecideUndeclared(c) \/ DecideObserved(c) \/ DecideUnverified(c, deferred)
  PROVE  Grown
<1>1. /\ shadow \in Shadow /\ Viewed(shadow) /\ Earned(shadow)
      /\ ctl[c].t \in Nat /\ now \in Nat
  BY Zenon, CtlKnows DEF ShadowForm, Formed
<1>2. CASE DecideUndeclared(c)
  BY Zenon, <1>1, <1>2, DecideGrows DEF DecideUndeclared
<1>3. CASE DecideUnverified(c, deferred)
  <2> DEFINE t == IF shadow.run = NoRun THEN ctl[c].t ELSE now
  <2>1. t \in Nat /\ Decide(c, shadow, "unavailable", deferred, t)
    BY Zenon, <1>1, <1>3 DEF DecideUnverified
  <2> HIDE DEF t
  <2> QED BY Zenon, <1>1, <2>1, DecideGrows
<1>4. CASE DecideObserved(c)
  <2> DEFINE o == ObserveActivation(shadow, Observation, ctl[c].t)
             current == IF Observation.active THEN "active" ELSE "inactive"
  <2>1. /\ proj.ts # 0 /\ ~Stale(shadow, Observation) /\ At(c, "read")
        /\ Decide(c, o, current, FALSE, ctl[c].t)
    BY Zenon, <1>4 DEF DecideObserved, Decide
  <2>2. ctl[c].t \in Nat \ {0} /\ TypeOK /\ FormInv /\ RisesGrowing
    BY Zenon, <2>1, CtlKnows DEF At, Pass, Inv, IInv
  <2>3. o \in Shadow
    BY Zenon, <1>1, <2>1, <2>2, ObservationType, ObserveFacts
  <2>4. Viewed(o) /\ Earned(o) /\ (o.deadline = shadow.deadline \/ o.run.act # o.act)
    BY Zenon, <2>1, <2>2, ObserveForm
  <2> HIDE DEF o, current
  <2> QED BY Zenon, <1>1, <2>1, <2>3, <2>4, DecideGrows
<1> QED BY Zenon, <1>2, <1>3, <1>4

-----------------------------------------------------------------------------
(* Steps of an invocation that write the shadow.                           *)

\* After the write the invocation rests or is about to terminate.
LEMMA WriteGrows ==
  ASSUME Inv, IInv', NEW c \in Controllers, NEW r, Go(c, r), UNCHANGED <<env, issued, vms>>,
         ShadowForm', TokenInv', Evolves,
         \/ r = Idle
         \/ \E v \in VM \cup {0} :
              r = KillOf(v) /\ v # 0 /\ vms[v].run # 0
                /\ (shadow'.run.id = vms[v].run => shadow'.run.phase = "stopping")
  PROVE  Grown
<1>1. ctl'[c] = r /\ Others(c) /\ proj' = proj /\ vms' = vms
  BY Zenon, GoOne DEF env
<1>2. SaveForm(ctl[c])' /\ Token(ctl[c])'
  <2>1. CASE r = Idle
    <3>1. r.pc = "idle"
      BY Zenon, <2>1, RestToken
    <3> QED BY Zenon, <1>1, <3>1 DEF SaveForm, Token, Saved
  <2>2. ASSUME NEW v \in VM \cup {0}, r = KillOf(v), v # 0, vms[v].run # 0,
               shadow'.run.id = vms[v].run => shadow'.run.phase = "stopping"
        PROVE  SaveForm(ctl[c])' /\ Token(ctl[c])'
    <3>1. r.pc = "kill" /\ r.vm = v
      BY Zenon, <2>2, RestToken
    <3> QED BY Zenon, <1>1, <2>2, <3>1 DEF SaveForm, Token, Saved, Ended
  <2> QED BY Zenon, <2>1, <2>2
<1> QED BY Zenon, <1>1, <1>2, ControllerGrows

\* The run of the shadow, seen as s, is fenced.
LEMMA FencedWrite ==
  ASSUME Inv, NEW c \in Controllers, NEW s \in Shadow, NEW t \in Nat,
         Viewed(s), Earned(s), s.run.id = shadow.run.id, shadow.run.id # 0,
         s.run.vm # 0 => vms[s.run.vm].run = s.run.id,
         shadow' = Patch(Stopping(s), t), UNCHANGED <<env, issued, vms>>
  PROVE  /\ ShadowForm' /\ TokenInv' /\ Evolves
         /\ shadow'.run.phase = "stopping"
<1> DEFINE p == Stopping(s)
           n == Patch(p, t)
<1>1. s.run # NoRun /\ s.run \in Run
  BY DEF NoRun, Shadow
<1>2. /\ p \in Shadow /\ Formed(p) /\ SameView(p, s) /\ p.run.phase = "stopping"
      /\ p.run = [s.run EXCEPT !.phase = "stopping"]
  BY Zenon, <1>1, StoppingForm, StoppingFacts
<1>3. p.run.id = s.run.id /\ p.run.vm = s.run.vm
  BY Zenon, <1>1, <1>2 DEF Run
<1> HIDE DEF p
<1>4. /\ n \in Shadow /\ n.run = p.run /\ SameView(n, p) /\ Formed(n)
      /\ n.endpoint # 0 => p.run.phase = "running"
  BY Zenon, <1>2, PatchFacts, PatchForm
<1>5. Earned(n)
  BY Zenon, <1>2, <1>4, SameViewEarned
<1>6. shadow' = n /\ vms' = vms /\ issued' = issued /\ now' = now
  BY Zenon DEF p, env
<1> HIDE DEF n
<1>7. ShadowForm'
  BY Zenon, <1>2, <1>4, <1>5, <1>6 DEF ShadowForm
<1>8. TokenInv'
  <2>1. TokenInv
    BY Zenon, CtlKnows
  <2>2. shadow'.run.vm = s.run.vm /\ shadow'.run.id = s.run.id
    BY Zenon, <1>3, <1>4, <1>6
  <2> QED BY Zenon, <1>6, <2>1, <2>2 DEF TokenInv
<1>9. Evolves
  <2>1. issued \in Nat /\ now \in Nat
    BY Zenon, CtlKnows
  <2>2. shadow'.run.id = shadow.run.id /\ shadow'.run.phase = "stopping"
    BY Zenon, <1>2, <1>3, <1>4, <1>6
  <2> QED BY <1>6, <2>1, <2>2 DEF Evolves
<1> QED BY Zenon, <1>2, <1>4, <1>6, <1>7, <1>8, <1>9

\* The run of a pass is fenced if the shadow still has it.
LEMMA FencesGrow ==
  ASSUME Inv, IInv', NEW c \in Controllers, NEW r, NEW t \in Nat, NEW same \in BOOLEAN,
         same => shadow.run.id # 0,
         shadow' = IF same THEN Patch(Stopping(shadow), t) ELSE shadow,
         Go(c, r), UNCHANGED <<env, issued, vms>>,
         \/ r = Idle
         \/ same /\ \E v \in VM \cup {0} : r = KillOf(v) /\ v # 0 /\ vms[v].run = shadow.run.id
  PROVE  Grown
<1>1. CASE same
  <2>1. /\ shadow \in Shadow /\ Viewed(shadow) /\ Earned(shadow)
        /\ shadow.run.vm # 0 => vms[shadow.run.vm].run = shadow.run.id
    BY Zenon, CtlKnows DEF ShadowForm, Formed, TokenInv
  <2>2. ShadowForm' /\ TokenInv' /\ Evolves /\ shadow'.run.phase = "stopping"
    BY Zenon, <1>1, <2>1, FencedWrite
  <2> QED BY Zenon, <1>1, <2>2, WriteGrows
<1>2. CASE ~same
  <2>1. shadow' = shadow /\ vms' = vms /\ issued' = issued /\ now' = now /\ r = Idle
    BY Zenon, <1>2 DEF env
  <2> QED BY Zenon, <2>1, Unwritten, WriteGrows
<1> QED BY Zenon, <1>1, <1>2

\* A run is fenced because its launch came too late, its host is going or gone to
\* sleep, or its runtime says that it stopped.
LEMMA FencingGrows ==
  ASSUME Inv, IInv', NEW c \in Controllers, LaunchExpired(c) \/ FenceHost(c) \/ SampleStopped(c)
  PROVE  Grown
<1>1. /\ SavedRun(c).vm \in VM \cup {0} /\ SavedRun(c).id # 0
      /\ now \in Nat /\ ctl[c].t \in Nat /\ UNCHANGED <<env, issued, vms>>
  BY Zenon, CtlKnows DEF LaunchExpired, FenceHost, SampleStopped, At, Pass, SavedRun
<1>2. CASE LaunchExpired(c)
  <2> DEFINE same == shadow.run.id = SavedRun(c).id
  <2>1. same \in BOOLEAN /\ (same => shadow.run.id # 0)
    BY Zenon, <1>1
  <2> QED BY Zenon, <1>1, <1>2, <2>1, FencesGrow DEF LaunchExpired
<1>3. ASSUME ~LaunchExpired(c)
      PROVE  SavedRun(c).vm # 0 /\ vms[SavedRun(c).vm].run = SavedRun(c).id
  BY Zenon, <1>3, CtlKnows DEF FenceHost, SampleStopped, At, Pass, Token, Saved, SavedRun
<1>4. CASE FenceHost(c) /\ ~LaunchExpired(c)
  <2> DEFINE r == IF SameRun(c) /\ ctl[c].host = "suspended" THEN KillOf(SavedRun(c).vm) ELSE Idle
  <2>1. SameRun(c) \in BOOLEAN /\ (SameRun(c) => shadow.run.id = SavedRun(c).id)
    BY Zenon DEF SameRun
  <2>2. Go(c, r) /\ shadow' = IF SameRun(c) THEN Patch(Stopping(shadow), ctl[c].t) ELSE shadow
    BY Zenon, <1>4 DEF FenceHost
  <2>3. \/ r = Idle
        \/ SameRun(c) /\ \E v \in VM \cup {0} : r = KillOf(v) /\ v # 0 /\ vms[v].run = shadow.run.id
    BY Zenon, <1>1, <1>3, <1>4, <2>1
  <2> HIDE DEF r
  <2> QED BY Zenon, <1>1, <2>1, <2>2, <2>3, FencesGrow
<1>5. CASE SampleStopped(c) /\ ~LaunchExpired(c)
  <2> DEFINE r == IF StillRunning(c) THEN KillOf(SavedRun(c).vm) ELSE Idle
  <2>1. StillRunning(c) \in BOOLEAN /\ (StillRunning(c) => shadow.run.id = SavedRun(c).id)
    BY Zenon DEF SameRun, StillRunning
  <2>2. Go(c, r) /\ shadow' = IF StillRunning(c) THEN Patch(Stopping(shadow), now) ELSE shadow
    BY Zenon, <1>5 DEF SampleStopped
  <2>3. \/ r = Idle
        \/ /\ StillRunning(c)
           /\ \E v \in VM \cup {0} : r = KillOf(v) /\ v # 0 /\ vms[v].run = shadow.run.id
    BY Zenon, <1>1, <1>3, <1>5, <2>1
  <2> HIDE DEF r
  <2> QED BY Zenon, <1>1, <2>1, <2>2, <2>3, FencesGrow
<1> QED BY Zenon, <1>2, <1>4, <1>5

\* A drain fences the run of the shadow; without an inventory it goes on to
\* terminate the MicroVM of that run.
LEMMA DrainFencesGrow ==
  ASSUME Inv, IInv', NEW c \in Controllers, DrainFence(c) \/ DrainKnown(c)
  PROVE  Grown
<1>1. /\ now \in Nat /\ shadow.run.vm \in VM \cup {0}
      /\ shadow.run # NoRun => shadow.run.id # 0
      /\ shadow.run.vm # 0 => vms[shadow.run.vm].run = shadow.run.id
  BY Zenon, CtlKnows DEF TokenInv, ShadowInv, WholeRun
<1>2. CASE DrainFence(c)
  <2> DEFINE same == shadow.run # NoRun
  <2>1. same \in BOOLEAN /\ (same => shadow.run.id # 0)
    BY Zenon, <1>1
  <2> QED BY Zenon, <1>1, <1>2, <2>1, FencesGrow DEF DrainFence
<1>3. CASE DrainKnown(c)
  <2> DEFINE same == shadow.run.vm # 0
  <2>1. NoRun.vm = 0
    BY Zenon DEF NoRun
  <2>2. same \in BOOLEAN /\ same /\ shadow.run.id # 0
    BY Zenon, <1>1, <1>3, <2>1 DEF DrainKnown
  <2>3. /\ shadow' = IF same THEN Patch(Stopping(shadow), now) ELSE shadow
        /\ Go(c, KillOf(shadow.run.vm)) /\ UNCHANGED <<env, issued, vms>>
    BY Zenon, <1>3 DEF DrainKnown
  <2>4. \E v \in VM \cup {0} : KillOf(shadow.run.vm) = KillOf(v) /\ v # 0 /\ vms[v].run = shadow.run.id
    BY Zenon, <1>1, <2>2
  <2> HIDE DEF same
  <2> QED BY Zenon, <1>1, <2>2, <2>3, <2>4, FencesGrow
<1> QED BY Zenon, <1>2, <1>3

\* An orphan of the run of the shadow: the shadow comes to name it, and to stop it.
LEMMA OrphanGrows ==
  ASSUME Inv, IInv', NEW c \in Controllers, NEW v \in VM, NEW readable \in BOOLEAN,
         OrphanFenced(c, v, readable)
  PROVE  Grown
<1> DEFINE s == OrphanView(readable)
           b == [s EXCEPT !.run.vm = v]
<1>1. /\ Candidate(c, v) /\ Claimed(v) /\ shadow' = Patch(Stopping(b), now)
      /\ Go(c, KillOf(v)) /\ UNCHANGED <<env, issued, vms>>
  BY Zenon DEF OrphanFenced
<1>2. s \in Shadow /\ Viewed(s) /\ Earned(s) /\ s.run = shadow.run
  <2>1. CASE s = shadow
    BY Zenon, <2>1, CtlKnows DEF ShadowForm, Formed
  <2>2. CASE proj.ts # 0 /\ ~Stale(shadow, Observation)
             /\ s = ObserveActivation(shadow, Observation, now)
    <3>1. TypeOK /\ FormInv /\ RisesGrowing /\ now \in Nat \ {0} /\ shadow \in Shadow
      BY Zenon, CtlKnows DEF Inv, IInv
    <3>2. Viewed(s) /\ Earned(s)
      BY Zenon, <2>2, <3>1, ObserveForm
    <3>3. Observation \in [active : BOOLEAN, ver : Nat, ts : Nat]
      BY Zenon, <2>2, <3>1, ObservationType
    <3> QED BY <2>2, <3>1, <3>2, <3>3, ObserveFacts
  <2> QED BY Zenon, <2>1, <2>2 DEF OrphanView
<1> HIDE DEF s
<1>3. v # 0 /\ vms[v].run # 0 /\ shadow.run.id = vms[v].run /\ shadow.run.vm \in {0, v}
  BY <1>1, BoundsAssumption
  DEF Candidate, Claimed, Inv, IInv, VmInv, VM, BoundsAssumption
<1>4. s.run \in Run /\ b \in Shadow /\ b.run = [s.run EXCEPT !.vm = v] /\ SameView(b, s)
      /\ b.endpoint = s.endpoint
  BY Zenon, <1>2 DEF Shadow, Run, SameView
<1>5. b.run.id = s.run.id /\ b.run.vm = v /\ b.run.act = s.run.act /\ b.run.phase = s.run.phase
  BY Zenon, <1>4 DEF Run
<1> HIDE DEF b
<1>6. Earned(b)
  BY Zenon, <1>2, <1>4, SameViewEarned
<1>7. Viewed(b)
  <2>1. s.run # NoRun
    BY <1>2, <1>3 DEF NoRun
  <2> QED BY Zenon, <1>2, <1>3, <1>4, <1>5, <2>1 DEF Viewed, SameView
<1>8. now \in Nat
  BY Zenon, CtlKnows
<1>9. ShadowForm' /\ TokenInv' /\ Evolves /\ shadow'.run.phase = "stopping"
  BY Zenon, <1>1, <1>2, <1>3, <1>4, <1>5, <1>6, <1>7, <1>8, FencedWrite
<1> QED BY Zenon, <1>1, <1>3, <1>9, WriteGrows

\* A run whose MicroVM is gone leaves the shadow.
LEMMA ClearGrows ==
  ASSUME Inv, IInv', NEW c \in Controllers, ClearTerminated(c)
  PROVE  Grown
<1> DEFINE p == [shadow EXCEPT !.run = NoRun]
           n == Patch(p, ctl[c].t)
<1>1. /\ shadow' = IF SameRun(c) THEN n ELSE shadow
      /\ Go(c, Idle) /\ UNCHANGED <<env, issued, vms>>
  BY Zenon DEF ClearTerminated
<1>2. vms' = vms /\ issued' = issued /\ now' = now /\ issued \in Nat /\ now \in Nat
  BY Zenon, <1>1, CtlKnows DEF env
<1>3. CASE ~SameRun(c)
  BY Zenon, <1>1, <1>2, <1>3, Unwritten, WriteGrows
<1>4. CASE SameRun(c)
  <2>1. NoRun \in Run /\ NoRun.id = 0 /\ NoRun.phase = "none" /\ NoRun.vm = 0 /\ NoRun.act = 0
    BY Zenon DEF NoRun, Run, RunPhase
  <2>2. p \in Shadow /\ p.run = NoRun /\ SameView(p, shadow)
    BY Zenon, <2>1, CtlKnows DEF Shadow, SameView
  <2>3. p.act \in Nat
    BY Zenon, <2>2 DEF Shadow
  <2> HIDE DEF p
  <2>4. Formed(p) /\ Earned(p)
    BY <2>1, <2>2, <2>3, CtlKnows, SameViewEarned DEF ShadowForm, Formed, Viewed, SameView
  <2>5. /\ n \in Shadow /\ n.run = NoRun /\ Formed(n) /\ SameView(n, p)
        /\ n.endpoint = 0
    BY Zenon, <2>1, <2>2, <2>4, CtlKnows, PatchFacts, PatchForm
  <2>6. shadow' = n /\ Earned(n)
    BY Zenon, <1>1, <1>4, <2>4, <2>5, SameViewEarned
  <2> HIDE DEF n
  <2>7. ShadowForm'
    BY Zenon, <2>5, <2>6 DEF ShadowForm
  <2>8. TokenInv'
    BY Zenon, <1>2, <2>1, <2>5, <2>6, CtlKnows DEF TokenInv
  <2>9. Evolves
    BY <1>2, <2>1, <2>5, <2>6 DEF Evolves
  <2> QED BY Zenon, <1>1, <2>7, <2>8, <2>9, WriteGrows
<1> QED BY Zenon, <1>3, <1>4

\* The endpoint of a running run is written.
LEMMA EndpointGrows ==
  ASSUME Inv, IInv', NEW c \in Controllers, SampleEndpoint(c)
  PROVE  Grown
<1> DEFINE e == [shadow EXCEPT !.endpoint = shadow.run.vm]
<1>1. /\ shadow' = shadow \/ (shadow' = e /\ shadow.run.phase = "running")
      /\ Go(c, Idle) /\ UNCHANGED <<env, issued, vms>>
  BY Zenon DEF SampleEndpoint, StillRunning
<1>2. vms' = vms /\ issued' = issued /\ now' = now /\ issued \in Nat /\ now \in Nat
  BY Zenon, <1>1, CtlKnows DEF env
<1>3. CASE shadow' = shadow
  BY Zenon, <1>1, <1>2, <1>3, Unwritten, WriteGrows
<1>4. CASE shadow' = e /\ shadow.run.phase = "running"
  <2>1. e.run = shadow.run /\ e.endpoint = shadow.run.vm /\ SameView(e, shadow)
    BY Zenon, CtlKnows DEF Shadow, SameView
  <2> HIDE DEF e
  <2>2. Formed(e) /\ Earned(e)
    BY Zenon, <1>4, <2>1, CtlKnows, SameViewEarned DEF ShadowForm, Formed, Viewed, SameView
  <2>3. ShadowForm'
    BY Zenon, <1>4, <2>1, <2>2 DEF ShadowForm
  <2>4. TokenInv'
    BY Zenon, <1>2, <1>4, <2>1, CtlKnows DEF TokenInv
  <2>5. Evolves
    BY <1>2, <1>4, <2>1 DEF Evolves, SameView
  <2> QED BY Zenon, <1>1, <2>3, <2>4, <2>5, WriteGrows
<1> QED BY Zenon, <1>1, <1>3, <1>4

\* accept_launch for the run of the shadow: its MicroVM v is known from here on.
LEMMA AcceptForm ==
  ASSUME ShadowForm, NEW v \in VM \cup {0}, v # 0, shadow.run.vm \in {0, v},
         shadow \in Shadow, shadow.run # NoRun, NEW current, NEW t \in Nat
  PROVE  LET a == Accept(shadow, v, current, t)
         IN  Formed(a) /\ SameView(a, shadow)
<1> DEFINE b == [shadow EXCEPT !.run.vm = v]
           u == [b EXCEPT !.run.phase = "running"]
           a == Accept(shadow, v, current, t)
<1>1. shadow.run \in Run /\ b \in Shadow /\ b.run = [shadow.run EXCEPT !.vm = v]
      /\ SameView(b, shadow) /\ b.endpoint = shadow.endpoint
  BY Zenon DEF Shadow, Run, SameView
<1>2. b.run.vm = v /\ b.run.act = shadow.run.act /\ b.run.phase = shadow.run.phase /\ b.run \in Run
  BY <1>1 DEF Run
<1> HIDE DEF b
<1>3. Viewed(b) /\ Formed(b)
  BY Zenon, <1>1, <1>2 DEF ShadowForm, Formed, Viewed, SameView
<1>4. b.run # NoRun
  <2>1. NoRun.vm = 0
    BY Zenon DEF NoRun
  <2> QED BY Zenon, <1>2, <2>1
<1>5. CASE a = Stopping(b)
  BY <1>1, <1>3, <1>4, <1>5, StoppingForm DEF SameView
<1>6. CASE a = b
  BY Zenon, <1>1, <1>3, <1>6
<1>7. CASE a = u /\ ~Revoked(b, current, t)
  <2>1. u.run = [b.run EXCEPT !.phase = "running"] /\ SameView(u, b) /\ u.endpoint = b.endpoint
    BY Zenon, <1>1 DEF Shadow, SameView
  <2>2. u.run.vm = v /\ u.run.act = b.run.act /\ u.run.phase = "running"
    BY Zenon, <1>2, <2>1 DEF Run
  <2> HIDE DEF u
  <2>3. b.active /\ b.act # 0 /\ b.run.act = b.act
    BY Zenon, <1>7 DEF Revoked, Authorized
  <2>4. b.endpoint \in {0, v}
    BY Zenon, <1>1 DEF ShadowForm, Formed, Viewed
  <2>5. Formed(u)
    BY Zenon, <1>3, <2>1, <2>2, <2>3, <2>4 DEF Formed, Viewed, SameView
  <2> QED BY Zenon, <1>1, <1>7, <2>1, <2>5 DEF SameView
<1>8. a = Stopping(b) \/ a = b \/ (a = u /\ ~Revoked(b, current, t))
  BY Zenon DEF Accept, b
<1> QED BY Zenon, <1>5, <1>6, <1>7, <1>8

\* AcceptLaunch: the MicroVM of the saved run is written to the shadow or terminated.
LEMMA AcceptGrows ==
  ASSUME Inv, IInv', NEW c \in Controllers, NEW v \in VM \cup {0}, NEW current, v # 0,
         SavedRun(c).id # 0, vms[v].run = SavedRun(c).id, AcceptLaunch(c, v, current)
  PROVE  Grown
<1> DEFINE mine == shadow.run.id = SavedRun(c).id /\ shadow.run.vm \in {0, v}
           a == Accept(shadow, v, current, now)
           n == Patch(a, now)
           s == IF mine THEN n ELSE shadow
           r == IF mine /\ s.run.phase # "stopping" THEN Idle ELSE KillOf(v)
<1>1. shadow' = s /\ Go(c, r) /\ UNCHANGED <<env, issued, vms>>
  BY Zenon DEF AcceptLaunch
<1>2. vms' = vms /\ issued' = issued /\ now' = now /\ issued \in Nat /\ now \in Nat
  BY Zenon, <1>1, CtlKnows DEF env
<1>3. CASE ~mine
  <2>1. shadow' = shadow /\ r = KillOf(v)
    BY Zenon, <1>1, <1>3
  <2>2. shadow.run.id # vms[v].run
    BY Zenon, <1>3, CtlKnows DEF TokenInv
  <2> QED BY Zenon, <1>1, <1>2, <2>1, <2>2, Unwritten, WriteGrows
<1>4. CASE mine
  <2>1. /\ shadow \in Shadow /\ ShadowForm /\ shadow.run # NoRun
    BY <1>4, CtlKnows DEF NoRun
  <2>2. Formed(a) /\ SameView(a, shadow)
    BY Zenon, <1>2, <1>4, <2>1, AcceptForm
  <2>3. /\ a \in Shadow /\ a.run.id = shadow.run.id /\ a.run.vm = v
        /\ shadow.run.phase = "stopping" => a.run.phase = "stopping"
    BY <1>2, <2>1, AcceptFacts
  <2> HIDE DEF a
  <2>4. /\ n.run = a.run /\ Formed(n) /\ SameView(n, a)
        /\ n.endpoint # 0 => a.run.phase = "running"
    BY Zenon, <1>2, <2>2, <2>3, PatchFacts, PatchForm
  <2>5. shadow' = n /\ r = IF n.run.phase # "stopping" THEN Idle ELSE KillOf(v)
    BY Zenon, <1>1, <1>4
  <2> HIDE DEF n
  <2>6. Earned(n)
    BY Zenon, <2>1, <2>2, <2>4, SameViewEarned DEF ShadowForm
  <2>7. ShadowForm'
    BY Zenon, <2>4, <2>5, <2>6 DEF ShadowForm
  <2>8. TokenInv'
    BY Zenon, <1>2, <1>4, <2>3, <2>4, <2>5, CtlKnows DEF TokenInv
  <2>9. Evolves
    BY <1>2, <2>2, <2>3, <2>4, <2>5 DEF Evolves, SameView
  <2>10. r = Idle \/ (r = KillOf(v) /\ shadow'.run.phase = "stopping")
    BY Zenon, <2>5
  <2> HIDE DEF r, s, mine
  <2> QED BY Zenon, <1>1, <2>7, <2>8, <2>9, <2>10, WriteGrows
<1> QED BY Zenon, <1>3, <1>4

\* The answer to a launch is bound, and a running host is assigned.
LEMMA BindingGrows ==
  ASSUME Inv, IInv', NEW c \in Controllers, Bind(c) \/ Assign(c)
  PROVE  Grown
<1>1. SavedRun(c).id # 0
  BY Zenon, CtlKnows DEF Bind, Assign, At, Pass, SavedRun
<1>2. CASE Bind(c)
  <2>1. ctl[c].vm \in VM \cup {0} /\ ctl[c].vm # 0 /\ vms[ctl[c].vm].run = SavedRun(c).id
    BY Zenon, <1>2, CtlKnows DEF Bind, At, Token, SavedRun
  <2> QED BY Zenon, <1>1, <1>2, <2>1, AcceptGrows DEF Bind
<1>3. CASE Assign(c)
  <2>1. SavedRun(c).vm \in VM \cup {0} /\ SavedRun(c).vm # 0
        /\ vms[SavedRun(c).vm].run = SavedRun(c).id
    BY Zenon, <1>3, CtlKnows DEF Assign, At, Token, Saved, SavedRun
  <2> QED BY Zenon, <1>1, <1>3, <2>1, AcceptGrows DEF Assign
<1> QED BY Zenon, <1>2, <1>3

\* What a pass writes first: the run it read, fenced perhaps, or a new one.
LEMMA SaveForms ==
  ASSUME Inv, NEW n \in Shadow, NEW t \in Nat, Keeps(shadow, n), Formed(n), Earned(n),
         Outdates(shadow, n), issued' = IF Unsaved(n) THEN issued + 1 ELSE issued,
         shadow' = Patch([n EXCEPT !.run.id = IF Unsaved(n) THEN issued + 1 ELSE @], t),
         vms' = vms, now' = now
  PROVE  ShadowForm' /\ TokenInv' /\ Evolves
<1> DEFINE m == [n EXCEPT !.run.id = IF Unsaved(n) THEN issued + 1 ELSE @]
           p == Patch(m, t)
<1>1. /\ shadow.run \in Run /\ n.run \in Run /\ issued \in Nat /\ now \in Nat /\ n.run.id \in Nat
      /\ WholeRun(shadow.run) /\ shadow.run.vm # 0 => vms[shadow.run.vm].run = shadow.run.id
  BY Zenon DEF Inv, IInv, TypeOK, ShadowInv, TokensInv, TokenInv, Shadow, Run
<1>2. NoRun.id = 0 /\ NoRun.vm = 0 /\ NoRun.phase = "none"
  BY Zenon DEF NoRun
<1>3. /\ m \in Shadow /\ SameView(m, n) /\ m.endpoint = n.endpoint
      /\ m.run = [n.run EXCEPT !.id = IF Unsaved(n) THEN issued + 1 ELSE n.run.id]
  BY <1>1 DEF Shadow, Run, SameView
<1>4. /\ m.run.id = IF Unsaved(n) THEN issued + 1 ELSE n.run.id
      /\ m.run.vm = n.run.vm /\ m.run.act = n.run.act /\ m.run.phase = n.run.phase
  BY Zenon, <1>1, <1>3 DEF Run
<1> HIDE DEF m
<1>5. Formed(m)
  <2>1. n.run = NoRun => m.run = NoRun
    BY Zenon, <1>1, <1>2, <1>3 DEF Unsaved, Run
  <2> QED BY Zenon, <1>3, <1>4, <2>1 DEF Formed, Viewed, SameView
<1>6. /\ p.run = m.run /\ Formed(p) /\ SameView(p, m)
      /\ p.endpoint # 0 => m.run.phase = "running"
  BY Zenon, <1>3, <1>5, PatchFacts, PatchForm
<1>7. shadow' = p
  BY Zenon DEF m
<1> HIDE DEF p
<1>8. Earned(p)
  BY Zenon, <1>3, <1>6, SameViewEarned
<1>9. ShadowForm'
  BY Zenon, <1>6, <1>7, <1>8 DEF ShadowForm
<1>10. issued <= issued' /\ shadow'.run = m.run /\ shadow'.deadline = n.deadline
  BY <1>1, <1>3, <1>6, <1>7 DEF SameView
<1>11. \/ m.run.vm = 0 /\ (m.run.id = 0 \/ m.run.id = issued + 1)
       \/ /\ m.run.vm = shadow.run.vm /\ m.run.id = shadow.run.id
          /\ m.run.phase \in {shadow.run.phase, "stopping"}
          /\ n.deadline = shadow.deadline \/ m.run.phase = "stopping" \/ m.run.id = 0
  <2>1. CASE Unsaved(n)
    <3>1. n.run.phase = "reserved" /\ n.run.id = 0
      BY Zenon, <2>1 DEF Unsaved
    <3>2. n.run # shadow.run
      BY Zenon, <1>2, <3>1 DEF WholeRun, Inv, IInv, ShadowInv
    <3>3. n.run # [shadow.run EXCEPT !.phase = "stopping"]
      BY Zenon, <1>1, <3>1 DEF Run
    <3>4. n.run.vm = 0
      BY Zenon, <3>2, <3>3 DEF Keeps
    <3> QED BY Zenon, <1>4, <2>1, <3>4
  <2>2. CASE ~Unsaved(n)
    <3>1. m.run.id = n.run.id
      BY Zenon, <1>4, <2>2
    <3>2. n.run = NoRun => n.run.id = 0
      BY Zenon, <1>2
    <3>3. CASE n.run = shadow.run
      BY Zenon, <1>4, <3>1, <3>2, <3>3 DEF Outdates
    <3>4. CASE n.run = [shadow.run EXCEPT !.phase = "stopping"]
      <4>1. n.run.phase = "stopping" /\ n.run.id = shadow.run.id /\ n.run.vm = shadow.run.vm
        BY Zenon, <1>1, <3>4 DEF Run
      <4> QED BY Zenon, <1>4, <3>1, <4>1
    <3>5. CASE n.run.vm = 0 /\ n.run.id = 0
      BY Zenon, <1>4, <3>1, <3>5
    <3> QED BY Zenon, <3>3, <3>4, <3>5 DEF Keeps
  <2> QED BY Zenon, <2>1, <2>2
<1>12. TokenInv'
  <2>1. \A v \in VM : vms[v].run \in Nat /\ vms[v].run <= issued
    BY Zenon DEF Inv, IInv, TypeOK, MicroVm, TokensInv, TokenInv
  <2>2. issued' \in Nat
    BY <1>1
  <2>3. \A v \in VM : vms'[v].run <= issued'
    BY <1>1, <1>10, <2>1, <2>2
  <2> QED BY Zenon, <1>1, <1>10, <1>11, <2>3 DEF Inv, TokensInv, TokenInv
<1>13. Evolves
  BY <1>1, <1>10, <1>11 DEF Evolves
<1> QED BY Zenon, <1>9, <1>12, <1>13

\* The first write of a pass: its form, and what the pass goes on with.
LEMMA SaveGrows ==
  ASSUME Inv, IInv', NEW c \in Controllers, Save(c)
  PROVE  Grown
<1> DEFINE n == ctl[c].next
           s == Patch([n EXCEPT !.run.id = IF Unsaved(n) THEN issued + 1 ELSE @], ctl[c].t)
           r == AfterSave(c, s)
<1>1. /\ At(c, "save") /\ shadow = ctl[c].base /\ shadow' = s /\ Go(c, r)
      /\ issued' = IF Unsaved(n) THEN issued + 1 ELSE issued
      /\ UNCHANGED <<env, vms>>
  BY Zenon DEF Save
<1>2. /\ n \in Shadow /\ ctl[c].t \in Nat /\ Keeps(shadow, n)
      /\ Formed(n) /\ Earned(n) /\ Outdates(shadow, n)
  BY Zenon, <1>1, CtlKnows DEF At, Pass, SaveForm
<1>3. ShadowForm' /\ TokenInv' /\ Evolves
  BY Zenon, <1>1, <1>2, SaveForms DEF env
<1> HIDE DEF s
<1>4. ctl'[c] = r /\ Others(c) /\ proj' = proj
  BY Zenon, <1>1, GoOne DEF env
<1>5. shadow'.run.id <= issued'
  BY Zenon DEF IInv, ShadowInv
<1>6. r.pc = "idle" \/ (r.pc \in {"launch", "host"} /\ r.next = shadow')
  <2>1. CASE r = Idle
    BY Zenon, <2>1, RestToken
  <2>2. CASE r # Idle
    <3> DEFINE q == IF s.run.vm = 0 THEN "launch" ELSE "host"
    <3>1. r = [ctl[c] EXCEPT !.pc = q, !.base = StoppedShadow, !.next = s]
      BY Zenon, <2>2 DEF AfterSave
    <3>2. q \in {"launch", "host"}
      OBVIOUS
    <3> HIDE DEF q, r
    <3>3. r.pc = q /\ r.next = s
      BY Zenon, <3>1, CtlKnows DEF Controller
    <3> QED BY Zenon, <1>1, <3>2, <3>3
  <2> QED BY Zenon, <2>1, <2>2
<1> HIDE DEF r
<1>7. SaveForm(ctl[c])'
  BY Zenon, <1>4, <1>6 DEF SaveForm
<1>8. Token(ctl[c])'
  BY Zenon, <1>3, <1>4, <1>5, <1>6 DEF Token, Saved, Ended, TokenInv
<1> QED BY Zenon, <1>3, <1>4, <1>7, <1>8, ControllerGrows

-----------------------------------------------------------------------------
(* Steps of the MicroVMs and of the environment.                           *)

\* The MicroVMs keep their runs.
LEMMA RunsStay ==
  ASSUME Inv, shadow' = shadow, issued' = issued, now' = now,
         \A v \in VM : vms'[v].run = vms[v].run
  PROVE  ShadowForm' /\ TokenInv' /\ Evolves
<1>1. issued \in Nat /\ now \in Nat /\ shadow.run.vm \in VM \cup {0}
  BY Zenon DEF Inv, IInv, TypeOK, Shadow, Run
<1>2. ShadowForm'
  BY Zenon DEF Inv, FormInv, ShadowForm
<1>3. TokenInv'
  BY Zenon, <1>1 DEF Inv, TokensInv, TokenInv
<1> QED BY <1>1, <1>2, <1>3 DEF Evolves

\* A termination leaves every MicroVM under the token it was requested with.
LEMMA TerminatedRuns ==
  ASSUME Inv, NEW v \in VM \cup {0}
  PROVE  \A u \in VM : Terminated(v)[u].run = vms[u].run
<1> DEFINE q == IF vms[v].state \in Live THEN "terminating" ELSE vms[v].state
<1>1. vms \in [VM -> MicroVm]
  BY Zenon DEF Inv, IInv, TypeOK
<1>2. Terminated(v) = [vms EXCEPT ![v] = [vms[v] EXCEPT !.state = q]]
  BY Zenon DEF Terminated
<1> HIDE DEF q
<1>3. \A u \in VM : [vms[u] EXCEPT !.state = q].run = vms[u].run
  BY Zenon, <1>1 DEF MicroVm
<1> QED BY Zenon, <1>1, <1>2, <1>3

\* A termination of a MicroVM by the invocation that fenced its run.
LEMMA KillGrows ==
  ASSUME Inv, IInv', NEW c \in Controllers, Kill(c)
  PROVE  Grown
<1>1. /\ vms' = Terminated(ctl[c].vm) /\ Go(c, Idle) /\ UNCHANGED <<env, shadow, issued>>
      /\ ctl[c].vm \in VM \cup {0}
  BY Zenon, CtlKnows DEF Kill
<1>2. \A v \in VM : vms'[v].run = vms[v].run
  BY Zenon, <1>1, TerminatedRuns
<1>3. ShadowForm' /\ TokenInv' /\ Evolves
  BY Zenon, <1>1, <1>2, RunsStay DEF env
<1>4. ctl'[c] = Idle /\ Others(c) /\ proj' = proj
  BY Zenon, <1>1, GoOne DEF env
<1>5. SaveForm(ctl[c])' /\ Token(ctl[c])'
  BY Zenon, <1>4, RestToken DEF SaveForm, Token, Saved
<1> QED BY Zenon, <1>3, <1>4, <1>5, ControllerGrows

\* The drain, and the watch, terminate a MicroVM; no invocation moves.
LEMMA TerminatedGrows ==
  ASSUME Inv, IInv', NEW v \in VM \cup {0}, vms' = Terminated(v),
         UNCHANGED <<env, shadow, issued, ctl>>
  PROVE  Grown
<1>1. \A u \in VM : vms'[u].run = vms[u].run
  BY Zenon, TerminatedRuns
<1>2. ShadowForm' /\ TokenInv' /\ Evolves
  BY Zenon, <1>1, RunsStay DEF env
<1>3. proj'.ver = 0 <=> proj'.ts = 0
  BY Zenon DEF env, Inv, FormInv
<1> QED BY Zenon, <1>2, <1>3, OutsideGrows

\* One MicroVM for a token: the new one is of a run that had none.
LEMMA RequestGrows ==
  ASSUME Inv, IInv', NEW c \in Controllers, NEW v \in VM, Request(c, v)
  PROVE  Grown
<1> DEFINE id == SavedRun(c).id
           launched == \E u \in VM : vms[u].run = id
           new == [NoVm EXCEPT !.run = id, !.act = SavedRun(c).act,
                               !.deadline = ctl[c].next.deadline,
                               !.started = now, !.state = "pending"]
           r == [ctl[c] EXCEPT !.pc = "bind", !.vm = v]
<1>1. /\ At(c, "request") /\ Go(c, r) /\ UNCHANGED <<env, shadow, issued>>
      /\ IF launched THEN vms[v].run = id ELSE vms[v] = NoVm
      /\ vms' = IF launched THEN vms ELSE [vms EXCEPT ![v] = new]
  BY Zenon DEF Request
<1>2. /\ id # 0 /\ id \in Nat /\ id <= issued /\ vms \in [VM -> MicroVm] /\ ShadowInv /\ TokenInv
      /\ SavedRun(c).vm # 0 => vms[SavedRun(c).vm].run = id
      /\ SavedRun(c).vm \in VM \cup {0} /\ shadow.run.vm \in VM \cup {0}
      /\ issued \in Nat /\ now \in Nat
  BY Zenon, <1>1, CtlKnows DEF At, Pass, Token, Saved, SavedRun
<1>3. new.run = id /\ NoVm.run = 0
  BY Zenon DEF NoVm
<1>4. r.pc = "bind" /\ r.vm = v /\ r.next = ctl[c].next
  BY Zenon, CtlKnows DEF Controller
<1> HIDE DEF id, new, r
<1>5. /\ vms'[v].run = id /\ \A u \in VM \ {v} : vms'[u].run = vms[u].run
      /\ vms[v].run \in {0, id} /\ \A u \in VM \ {v} : vms[u].run # id
  <2>1. CASE launched
    BY Zenon, <1>1, <1>2, <2>1 DEF TokenInv
  <2>2. CASE ~launched
    BY Zenon, <1>1, <1>2, <1>3, <2>2
  <2> QED BY Zenon, <2>1, <2>2
<1>6. shadow' = shadow /\ issued' = issued /\ now' = now /\ proj' = proj
  BY Zenon, <1>1 DEF env
<1>7. TokenInv'
  <2>1. shadow.run.vm # 0 => shadow.run.id # 0
    <3>1. NoRun.vm = 0
      BY Zenon DEF NoRun
    <3> QED BY Zenon, <1>2, <3>1 DEF ShadowInv, WholeRun
  <2> QED BY <1>2, <1>5, <1>6, <2>1 DEF TokenInv
<1>8. ShadowForm' /\ Evolves
  BY <1>2, <1>5, <1>6 DEF Inv, FormInv, ShadowForm, Evolves
<1>9. ctl'[c] = r /\ Others(c)
  BY Zenon, <1>1, GoOne
<1>10. SaveForm(ctl[c])'
  BY Zenon, <1>4, <1>9 DEF SaveForm
<1>11. Token(ctl[c])'
  <2>1. /\ v # 0 /\ vms'[v].run = id /\ id <= issued'
        /\ SavedRun(c).vm # 0 => vms'[SavedRun(c).vm].run = id
    BY <1>2, <1>5, <1>6, BoundsAssumption DEF VM, BoundsAssumption
  <2> QED BY Zenon, <1>4, <1>9, <2>1 DEF Token, Saved, SavedRun, id
<1> QED BY Zenon, <1>6, <1>7, <1>8, <1>9, <1>10, <1>11, ControllerGrows

\* A runtime or its host moves; a MicroVM that is gone keeps its token.
LEMMA VmGrows ==
  ASSUME Inv, IInv', NEW v \in VM, VmNext(v)
  PROVE  Grown
<1>1. vms \in [VM -> MicroVm] /\ vms[v] \in MicroVm
  BY Zenon DEF Inv, IInv, TypeOK
<1>2. /\ Halted(vms[v]).run = vms[v].run /\ Halted(vms[v]) \in MicroVm
      /\ Gone(vms[v]).run = vms[v].run
  BY Zenon, <1>1 DEF Halted, Gone, NoVm, MicroVm
<1>3. \E m : VmStep(v, m) /\ m.run = vms[v].run
  <2> DEFINE q == IF now < vms[v].deadline THEN "running" ELSE "failed"
             m1 == [vms[v] EXCEPT !.state = "running", !.at = now, !.phase = q]
             m2 == [vms[v] EXCEPT !.poll = "verified"]
             m3 == [vms[v] EXCEPT !.poll = "refused"]
             m4 == [vms[v] EXCEPT !.at = now, !.ok = TRUE, !.poll = "none"]
             m5 == [Halted(vms[v]) EXCEPT !.state = "suspended"]
  <2>1. \/ VmStep(v, m1) \/ VmStep(v, m2) \/ VmStep(v, m3) \/ VmStep(v, m4) \/ VmStep(v, m5)
        \/ VmStep(v, Halted(vms[v])) \/ VmStep(v, Gone(vms[v]))
    BY Zenon DEF VmNext, StartVm, PollVerified, PollRefused, PollDone, Expire, Suspend,
           VmTerminated, VmDies
  <2> HIDE DEF q
  <2>2. m1.run = vms[v].run /\ m2.run = vms[v].run /\ m3.run = vms[v].run /\ m4.run = vms[v].run
    BY Zenon, <1>1 DEF MicroVm
  <2>3. m5.run = vms[v].run
    BY Zenon, <1>2 DEF MicroVm
  <2> HIDE DEF m1, m2, m3, m4, m5
  <2> QED BY Zenon, <1>2, <2>1, <2>2, <2>3
<1>4. PICK m : VmStep(v, m) /\ m.run = vms[v].run
  BY Zenon, <1>3
<1>5. /\ shadow' = shadow /\ issued' = issued /\ now' = now /\ proj' = proj /\ ctl' = ctl
      /\ \A u \in VM : vms'[u].run = vms[u].run
  BY Zenon, <1>1, <1>4 DEF VmStep, env
<1>6. ShadowForm' /\ TokenInv' /\ Evolves
  BY Zenon, <1>5, RunsStay
<1> QED BY Zenon, <1>5, <1>6, OutsideGrows DEF Inv, FormInv

\* Time passes; the projection shows another message.
LEMMA EnvironmentGrows ==
  ASSUME Inv, IInv', Environment
  PROVE  Grown
<1>1. shadow' = shadow /\ issued' = issued /\ vms' = vms /\ ctl' = ctl
  BY Zenon DEF Environment, Tick, Declare, Project
<1>2. now \in Nat /\ issued \in Nat /\ proj.ver \in Nat
  BY Zenon DEF Inv, IInv, TypeOK
<1>3. now <= now' /\ (proj'.ver = 0 <=> proj'.ts = 0)
  <2>1. proj.ver = 0 <=> proj.ts = 0
    BY Zenon DEF Inv, FormInv
  <2>2. CASE Tick \/ Declare
    BY <1>2, <2>1, <2>2 DEF Tick, Declare
  <2>3. ASSUME NEW i \in DOMAIN Activity, Project(i) PROVE now <= now' /\ proj'.ver # 0 /\ proj'.ts # 0
    <3>1. i # 0
      BY BoundsAssumption DEF BoundsAssumption
    <3> QED BY <1>2, <2>3, <3>1 DEF Project
  <2> QED BY Zenon, <2>2, <2>3 DEF Environment
<1>4. TokenInv' /\ Evolves
  BY <1>1, <1>2, <1>3 DEF Inv, TokensInv, TokenInv, Evolves
<1> QED BY Zenon, <1>1, <1>3, <1>4, OutsideGrows

-----------------------------------------------------------------------------
(* The invariant.                                                          *)

\* Every step keeps the whole invariant, and only takes runs further.
LEMMA NextGrows ==
  ASSUME Inv, Next
  PROVE  Inv' /\ Evolves
<1>1. IInv'
  BY Zenon, NextGood DEF Inv, Good
<1>2. ASSUME Environment PROVE Grown
  BY Zenon, <1>1, <1>2, EnvironmentGrows
<1>3. ASSUME NEW v \in VM, VmNext(v) PROVE Grown
  BY Zenon, <1>1, <1>3, VmGrows
<1>4. ASSUME NEW c \in Controllers, ControllerStep(c) PROVE Grown
  <2>1. CASE Begin(c) \/ Launch(c) \/ GetHost(c) \/ VerifyHost(c) \/ SampleStatus(c)
    BY Zenon, <1>1, <2>1, MovesGrow
  <2>2. CASE DecideUndeclared(c) \/ DecideObserved(c)
             \/ \E deferred \in BOOLEAN : DecideUnverified(c, deferred)
    BY Zenon, <1>1, <2>2, DecisionsGrow
  <2>3. CASE Save(c)
    BY Zenon, <1>1, <2>3, SaveGrows
  <2>4. CASE SaveConflict(c) \/ StopHost(c) \/ HostSettled(c) \/ AssignLate(c) \/ Crash(c)
             \/ \E v \in VM : OrphanUnclaimed(c, v)
    BY Zenon, <1>1, <2>4, EndsGrow
  <2>5. CASE Bind(c) \/ Assign(c)
    BY Zenon, <1>1, <2>5, BindingGrows
  <2>6. CASE LaunchExpired(c) \/ FenceHost(c) \/ SampleStopped(c)
    BY Zenon, <1>1, <2>6, FencingGrows
  <2>7. CASE ClearTerminated(c)
    BY Zenon, <1>1, <2>7, ClearGrows
  <2>8. CASE SampleEndpoint(c)
    BY Zenon, <1>1, <2>8, EndpointGrows
  <2>9. CASE \E v \in VM, readable \in BOOLEAN : OrphanFenced(c, v, readable)
    BY Zenon, <1>1, <2>9, OrphanGrows
  <2>10. CASE DrainFence(c) \/ DrainKnown(c)
    BY Zenon, <1>1, <2>10, DrainFencesGrow
  <2>11. CASE \E v \in VM : Request(c, v)
    BY Zenon, <1>1, <2>11, RequestGrows
  <2>12. CASE Kill(c)
    BY Zenon, <1>1, <2>12, KillGrows
  <2>13. ASSUME NEW v \in VM, DrainKill(c, v) PROVE Grown
    BY Zenon, <1>1, <2>13, TerminatedGrows DEF DrainKill
  <2>14. CASE Drain(c)
    BY Zenon, <1>1, <2>14, DrainGrows
  <2> QED
    BY Zenon, <1>4, <2>1, <2>2, <2>3, <2>4, <2>5, <2>6, <2>7, <2>8, <2>9, <2>10, <2>11,
       <2>12, <2>13, <2>14 DEF ControllerStep
<1>5. Grown
  BY Zenon, <1>2, <1>3, <1>4 DEF Next
<1> QED BY Zenon, <1>1, <1>5 DEF Grown, Inv, RisesGrowing

\* So does a step that changes nothing.
LEMMA StutterGrows ==
  ASSUME Inv, UNCHANGED vars
  PROVE  Inv' /\ Evolves
<1>1. IInv'
  BY Zenon, StutterGood DEF Inv, Good
<1>2. /\ shadow' = shadow /\ issued' = issued /\ now' = now /\ proj' = proj /\ ctl' = ctl
      /\ vms' = vms
  BY Zenon DEF vars, env
<1>3. TokenInv' /\ Evolves
  BY Zenon, <1>2, Unwritten
<1>4. Grown
  BY Zenon, <1>1, <1>2, <1>3, OutsideGrows DEF Inv, FormInv
<1> QED BY Zenon, <1>1, <1>4 DEF Grown, Inv, RisesGrowing
==============================================================================
