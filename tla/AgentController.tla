--------------------------- MODULE AgentController ---------------------------
(***************************************************************************)
(* The cloud agent of one device: the controller (agent/src/reconcile.cpp, *)
(* controller.cpp, activation.cpp, controller_handler.cpp), which launches *)
(* and stops MicroVMs and records them in the device's `agent' shadow; the *)
(* runtime in every MicroVM (agent/src/microvm.cpp), which works only      *)
(* while it can verify that the shadow names it; and, as its environment,  *)
(* the MicroVM service and the Sparkplug projection.                       *)
(*                                                                         *)
(* Every shadow write carries the version it was read at.  A write is      *)
(* modelled as successful exactly if the shadow still is what was read.    *)
(* Deployed concurrency is one, but a request of an invocation that timed  *)
(* out may still be on its way when the next one runs, so there may be     *)
(* several Controllers.  Crash stands for a call that throws, conflicts    *)
(* that exhaust the attempts, and the timeout of the invocation.           *)
(***************************************************************************)
EXTENDS Integers, Sequences, FiniteSets

CONSTANTS
  Controllers,  \* controller invocations that may be under way
  Activity,     \* activity in each Sparkplug message of the device, in the order sent
  Budget,       \* activation_budget_seconds
  Verify,       \* the fifteen seconds of authority without verification
  MaxVMs,       \* bound: MicroVMs launched in one behaviour
  MaxRuns,      \* bound: runs reserved in one behaviour
  MaxVersion,   \* bound: writes of the projection
  LastChange,   \* bound: time of the last projection
  LastLaunch,   \* bound: time of the last launch
  MaxTime       \* bound: ticks in one behaviour

ASSUME BoundsAssumption ==
  /\ Budget \in Nat \ {0} /\ Verify \in Nat \ {0}
  /\ Activity \in Seq(BOOLEAN)
  /\ MaxVMs \in Nat /\ MaxRuns \in Nat /\ MaxVersion \in Nat
  /\ LastChange \in Nat /\ LastLaunch \in Nat /\ MaxTime \in Nat \ {0}

VARIABLES
  now,       \* wall clock, never 0
  declared,  \* the registry declares the capability "agent"
  proj,      \* the projection: its version and the message it shows
  shadow,    \* the agent shadow
  issued,    \* run identities drawn so far
  vms,       \* the MicroVMs and their runtimes
  ctl        \* the controllers

env  == <<now, declared, proj>>
vars == <<env, shadow, issued, vms, ctl>>

-----------------------------------------------------------------------------
(* The agent shadow.  Times, versions and identities are 0 if absent.      *)

VM == 1..MaxVMs
RunPhase == {"none", "reserved", "running", "stopping"}
Run == [id : Nat, act : Nat, vm : VM \cup {0}, phase : RunPhase]
NoRun == [id |-> 0, act |-> 0, vm |-> 0, phase |-> "none"]

Shadow ==
  [active : BOOLEAN, ver : Nat, ts : Nat, inactiveAt : Nat, act : Nat, deadline : Nat,
   run : Run, unverified : Nat, stopAt : Nat, endpoint : Nat]

StoppedShadow ==
  [active |-> FALSE, ver |-> 0, ts |-> 0, inactiveAt |-> 0, act |-> 0, deadline |-> 0,
   run |-> NoRun, unverified |-> 0, stopAt |-> 0, endpoint |-> 0]

\* Variant: a stopping write keeps the endpoint of the run.
PatchKeepsEndpoint(s, t) ==
  [s EXCEPT !.stopAt = IF s.run.phase # "stopping" THEN 0 ELSE IF @ = 0 THEN t ELSE @]

\* The rest of a patch: the first stopping write stamps stopRequestedAt and
\* every later one keeps it; only a running run has an endpoint.
Patch(s, t) ==
  [s EXCEPT !.stopAt = IF s.run.phase # "stopping" THEN 0 ELSE IF @ = 0 THEN t ELSE @,
            !.endpoint = IF s.run.phase = "running" THEN @ ELSE 0]

Stopping(s) == [s EXCEPT !.run.phase = "stopping"]

-----------------------------------------------------------------------------
(* Activations.  A shadow has observed the projection if it has a version. *)

\* What a read of the projection shows, once there is one (proj.ts # 0).
Observation == [active |-> Activity[proj.ts], ver |-> proj.ver, ts |-> proj.ts]

\* Variant: the shadow version alone orders observations.
StaleByVersion(s, p) == s.ver # 0 /\ p.ver < s.ver

\* A repeated version must repeat its content, a new one needs a newer source.
Stale(s, p) ==
  /\ s.ver # 0
  /\ \/ p.ver < s.ver
     \/ p.ver = s.ver /\ (p.active # s.active \/ p.ts # s.ts)
     \/ p.ver > s.ver /\ p.ts <= s.ts

Edge(s, p) == s.ver # 0 /\ p.ver > s.ver /\ p.active /\ ~s.active

\* An inactive-to-active edge starts an activation, whose budget counts from the
\* last inactive observation.
ObserveActivation(s, p, t) ==
  [s EXCEPT !.active = p.active, !.ver = p.ver, !.ts = p.ts,
            !.inactiveAt = IF p.active \/ (p.ver = s.ver /\ t <= @) THEN @ ELSE t,
            !.act = IF Edge(s, p) THEN @ + 1 ELSE @,
            !.deadline = IF Edge(s, p) THEN s.inactiveAt + Budget ELSE @]

Authorized(s, t) ==
  s.active /\ s.act # 0 /\ s.deadline - Budget <= t /\ t < s.deadline

Revoked(s, current, t) ==
  current = "inactive" \/ ~Authorized(s, t) \/ s.run.act # s.act

-----------------------------------------------------------------------------
(* One pass of reconcile up to its first write.                            *)

\* Fifteen seconds without verification fence the run, unless its runtime
\* proves (deferred) that it verified its authority itself.
Lapse(s, current, deferred, t) ==
  IF current # "unavailable" \/ s.run = NoRun THEN [s EXCEPT !.unverified = 0]
  ELSE IF s.unverified = 0 THEN [s EXCEPT !.unverified = t]
  ELSE IF t - s.unverified >= Verify
            /\ ~(deferred /\ s.run.phase = "running" /\ Authorized(s, t))
       THEN Stopping(s) ELSE s

Fence(s, current, t) ==
  IF s.run # NoRun /\ Revoked(s, current, t) THEN Stopping(s) ELSE s

\* Variant: a new activation supersedes any fenced run.
SupersedeKnown(s, current, t) ==
  IF /\ s.run.phase = "stopping" /\ s.run.act # s.act
     /\ current = "active" /\ Authorized(s, t)
  THEN [s EXCEPT !.run = NoRun, !.stopAt = 0] ELSE s

\* A new activation supersedes a fenced run whose MicroVM was never identified.
Supersede(s, current, t) ==
  IF /\ s.run.phase = "stopping" /\ s.run.vm = 0 /\ s.run.act # s.act
     /\ current = "active" /\ Authorized(s, t)
  THEN [s EXCEPT !.run = NoRun, !.stopAt = 0] ELSE s

\* The identity is drawn when the reservation is saved; nobody sees it before.
Reserve(s, current, t) ==
  IF s.run = NoRun /\ current = "active" /\ Authorized(s, t)
  THEN [s EXCEPT !.run = [id |-> 0, act |-> s.act, vm |-> 0, phase |-> "reserved"]]
  ELSE s

Decision(s, current, deferred, t) ==
  Reserve(Supersede(Fence(Lapse(s, current, deferred, t), current, t), current, t), current, t)

-----------------------------------------------------------------------------
(* MicroVMs (external) and the runtimes in them.                           *)

VmState == {"none", "pending", "running", "suspended", "terminating", "terminated"}
Live == {"pending", "running", "suspended"}

\* run, act and deadline are the payload of the launch request; at is the last
\* verification of the runtime or its start, ok whether it was a verification,
\* and poll the answer of a verification under way.
MicroVm ==
  [run : Nat, act : Nat, deadline : Nat, started : Nat, state : VmState,
   phase : {"waiting", "running", "failed", "stopped"}, at : Nat, ok : BOOLEAN,
   poll : {"none", "verified", "refused"}]

NoVm ==
  [run |-> 0, act |-> 0, deadline |-> 0, started |-> 0, state |-> "none",
   phase |-> "waiting", at |-> 0, ok |-> FALSE, poll |-> "none"]

Fresh(v) == vms[v].ok /\ now - vms[v].at < Verify

\* The runtime works for the device: attachments are served, control is held.
Holds(v) == vms[v].phase = "running" /\ Fresh(v)

Halted(m) == [m EXCEPT !.phase = "stopped", !.at = 0, !.ok = FALSE, !.poll = "none"]

\* Of a MicroVM that is gone, the service remembers the token.
Gone(m) == [NoVm EXCEPT !.run = m.run, !.state = "terminated"]

\* TerminateMicrovm only starts the termination.
Terminated(v) == [vms EXCEPT ![v].state = IF @ \in Live THEN "terminating" ELSE @]

-----------------------------------------------------------------------------
(* The environment.                                                        *)

Tick == now < MaxTime /\ now' = now + 1 /\ UNCHANGED <<declared, proj, shadow, issued, vms, ctl>>

\* Messages are projected in any order, some of them twice or never.
Project(i) ==
  /\ now <= LastChange /\ proj.ver < MaxVersion
  /\ proj' = [ver |-> proj.ver + 1, ts |-> i]
  /\ UNCHANGED <<now, declared, shadow, issued, vms, ctl>>

Declare ==
  /\ declared' = ~declared
  /\ UNCHANGED <<now, proj, shadow, issued, vms, ctl>>

-----------------------------------------------------------------------------
(* A controller holds the shadow it read (base) and the one it wrote or is  *)
(* about to write (next), its view of the device (cur), a time it sampled   *)
(* (t), a MicroVM (vm) and what the MicroVM or its runtime answered (host). *)

Lifecycle == {"active", "inactive", "unavailable"}

Controller ==
  [pc : {"idle", "read", "save", "launch", "request", "bind", "host", "act", "assign",
         "kill", "sample", "drain"},
   t : Nat, cur : Lifecycle, base : Shadow, next : Shadow, vm : VM \cup {0},
   host : VmState \cup {"verified", "stopped"}]

Idle ==
  [pc |-> "idle", t |-> 0, cur |-> "unavailable", base |-> StoppedShadow,
   next |-> StoppedShadow, vm |-> 0, host |-> "none"]

KillOf(v) == [Idle EXCEPT !.pc = "kill", !.vm = v]

Go(c, r) == ctl' = [ctl EXCEPT ![c] = r]
At(c, pc) == ctl[c].pc = pc

\* The run this pass is about.
SavedRun(c) == ctl[c].next.run

Begin(c) ==
  /\ At(c, "idle")
  /\ Go(c, [Idle EXCEPT !.pc = "read", !.t = now])
  /\ UNCHANGED <<env, shadow, issued, vms>>

Decide(c, s, current, deferred, t) ==
  /\ At(c, "read")
  /\ Go(c, [ctl[c] EXCEPT !.pc = "save", !.t = t, !.cur = current, !.base = shadow,
                          !.next = Decision(s, current, deferred, t)])
  /\ UNCHANGED <<env, shadow, issued, vms>>

DecideUndeclared(c) == ~declared /\ Decide(c, shadow, "inactive", FALSE, ctl[c].t)

DecideObserved(c) ==
  /\ declared /\ proj.ts # 0 /\ ~Stale(shadow, Observation)
  /\ Edge(shadow, Observation) => shadow.inactiveAt <= ctl[c].t
  /\ Decide(c, ObserveActivation(shadow, Observation, ctl[c].t),
               IF Observation.active THEN "active" ELSE "inactive", FALSE, ctl[c].t)

\* The authenticated status of the run's MicroVM proves a fresh verification.
RuntimeVerified(s) ==
  /\ s.run.vm # 0 /\ s.run.act = s.act
  /\ vms[s.run.vm].state = "running" /\ Holds(s.run.vm)

\* The registry or the projection cannot be read, or the projection is stale.
DecideUnverified(c, deferred) ==
  /\ deferred => RuntimeVerified(shadow)
  /\ Decide(c, shadow, "unavailable", deferred,
            IF shadow.run = NoRun THEN ctl[c].t ELSE now)

\* Where a pass goes after its first write.
AfterSave(c, s) ==
  IF s.run = NoRun \/ (s.run.vm = 0 /\ (s.run.phase = "stopping" \/ ctl[c].cur # "active"))
  THEN Idle
  ELSE [ctl[c] EXCEPT !.pc = IF s.run.vm = 0 THEN "launch" ELSE "host",
                      !.base = StoppedShadow, !.next = s]

Unsaved(s) == s.run.phase = "reserved" /\ s.run.id = 0

Save(c) ==
  LET n == ctl[c].next
      s == Patch([n EXCEPT !.run.id = IF Unsaved(n) THEN issued + 1 ELSE @], ctl[c].t)
  IN  /\ At(c, "save") /\ shadow = ctl[c].base
      /\ Unsaved(n) => issued < MaxRuns
      /\ issued' = IF Unsaved(n) THEN issued + 1 ELSE issued
      /\ shadow' = s
      /\ Go(c, AfterSave(c, s))
      /\ UNCHANGED <<env, vms>>

SaveConflict(c) ==
  /\ At(c, "save") /\ shadow # ctl[c].base
  /\ Go(c, Idle)
  /\ UNCHANGED <<env, shadow, issued, vms>>

-----------------------------------------------------------------------------
(* A run without MicroVM: launch, then bind the answer.                     *)

LaunchExpired(c) ==
  /\ At(c, "launch") /\ ~Authorized(ctl[c].next, now)
  /\ shadow' = IF shadow.run.id = SavedRun(c).id THEN Patch(Stopping(shadow), now) ELSE shadow
  /\ Go(c, Idle)
  /\ UNCHANGED <<env, issued, vms>>

Launch(c) ==
  /\ At(c, "launch") /\ Authorized(ctl[c].next, now)
  /\ Go(c, [ctl[c] EXCEPT !.pc = "request"])
  /\ UNCHANGED <<env, shadow, issued, vms>>

\* The service launches one MicroVM per token, and repeats its answer to a retry.
Request(c, v) ==
  LET run == SavedRun(c)
      launched == \E u \in VM : vms[u].run = run.id
      new == [NoVm EXCEPT !.run = run.id, !.act = run.act, !.deadline = ctl[c].next.deadline,
                          !.started = now, !.state = "pending"]
  IN  /\ At(c, "request")
      /\ IF launched THEN vms[v].run = run.id
         ELSE now <= LastLaunch /\ vms[v] = NoVm /\ \A u \in 1..(v - 1) : vms[u] # NoVm
      /\ vms' = IF launched THEN vms ELSE [vms EXCEPT ![v] = new]
      /\ Go(c, [ctl[c] EXCEPT !.pc = "bind", !.vm = v])
      /\ UNCHANGED <<env, shadow, issued>>

\* Variant: accept_launch without the check of the recorded phase.
AcceptUnstops(s, v, current, t) ==
  LET b == [s EXCEPT !.run.vm = v]
  IN  IF Revoked(b, current, t) THEN Stopping(b)
      ELSE IF current = "active" THEN [b EXCEPT !.run.phase = "running"]
      ELSE b

\* accept_launch, for the run the shadow names.
Accept(s, v, current, t) ==
  LET b == [s EXCEPT !.run.vm = v]
  IN  IF Revoked(b, current, t) \/ b.run.phase = "stopping" THEN Stopping(b)
      ELSE IF current = "active" THEN [b EXCEPT !.run.phase = "running"]
      ELSE b

\* Variant: what does not run at once is terminated.
AcceptImpatient(c, v, current) ==
  LET mine == shadow.run.id = SavedRun(c).id /\ shadow.run.vm \in {0, v}
      s == IF mine THEN Patch(Accept(shadow, v, current, now), now) ELSE shadow
  IN  /\ shadow' = s
      /\ Go(c, IF mine /\ s.run.phase = "running" THEN Idle ELSE KillOf(v))
      /\ UNCHANGED <<env, issued, vms>>

\* An accepted MicroVM is written to the shadow, any other one is terminated.
AcceptLaunch(c, v, current) ==
  LET mine == shadow.run.id = SavedRun(c).id /\ shadow.run.vm \in {0, v}
      s == IF mine THEN Patch(Accept(shadow, v, current, now), now) ELSE shadow
  IN  /\ shadow' = s
      /\ Go(c, IF mine /\ s.run.phase # "stopping" THEN Idle ELSE KillOf(v))
      /\ UNCHANGED <<env, issued, vms>>

\* A MicroVM that another reservation names is left alone: the pass ends (Crash).
Bind(c) ==
  /\ At(c, "bind")
  /\ ~(shadow.run.id # SavedRun(c).id /\ shadow.run.vm = ctl[c].vm)
  /\ AcceptLaunch(c, ctl[c].vm, "unavailable")

-----------------------------------------------------------------------------
(* A run with a MicroVM: look at the host, then act on its state.           *)

GetHost(c) ==
  /\ At(c, "host")
  /\ Go(c, [ctl[c] EXCEPT !.pc = "act", !.host = vms[SavedRun(c).vm].state])
  /\ UNCHANGED <<env, shadow, issued, vms>>

\* The shadow, read again, still has the run and the MicroVM of this pass.
SameRun(c) == shadow.run.id = SavedRun(c).id /\ shadow.run.vm = SavedRun(c).vm

ClearTerminated(c) ==
  /\ At(c, "act") /\ ctl[c].host = "terminated"
  /\ shadow' = IF SameRun(c) THEN Patch([shadow EXCEPT !.run = NoRun], ctl[c].t) ELSE shadow
  /\ Go(c, Idle)
  /\ UNCHANGED <<env, issued, vms>>

FenceHost(c) ==
  /\ At(c, "act") /\ SavedRun(c).phase # "stopping"
  /\ ctl[c].host \in {"suspended", "terminating"}
  /\ shadow' = IF SameRun(c) THEN Patch(Stopping(shadow), ctl[c].t) ELSE shadow
  /\ Go(c, IF SameRun(c) /\ ctl[c].host = "suspended" THEN KillOf(SavedRun(c).vm) ELSE Idle)
  /\ UNCHANGED <<env, issued, vms>>

StopHost(c) ==
  /\ At(c, "act") /\ SavedRun(c).phase = "stopping" /\ ctl[c].host # "terminated"
  /\ Go(c, IF ctl[c].host = "terminating" THEN Idle ELSE KillOf(SavedRun(c).vm))
  /\ UNCHANGED <<env, shadow, issued, vms>>

\* The projection still is the active one that the shadow s observed.
StillObserved(s) ==
  declared /\ proj.ts # 0 /\ Observation = [active |-> TRUE, ver |-> s.ver, ts |-> s.ts]

VerifyHost(c) ==
  /\ At(c, "act") /\ SavedRun(c).phase = "reserved" /\ ctl[c].host = "running"
  /\ ctl[c].cur = "active" /\ StillObserved(ctl[c].next)
  /\ Go(c, [ctl[c] EXCEPT !.pc = "assign", !.t = now])
  /\ UNCHANGED <<env, shadow, issued, vms>>

\* The run is healthy, still starting, or could not be verified.
HostSettled(c) ==
  /\ At(c, "act") /\ SavedRun(c).phase # "stopping" /\ ctl[c].host \in {"pending", "running"}
  /\ Go(c, Idle)
  /\ UNCHANGED <<env, shadow, issued, vms>>

\* A verification that is too old by now assigns nothing (AssignLate).
TooOld(c) == now - ctl[c].t >= Verify /\ Authorized(shadow, now)
StillAssignable(c) == shadow.run.id = SavedRun(c).id /\ shadow.ver = ctl[c].next.ver

Assign(c) ==
  /\ At(c, "assign") /\ StillAssignable(c) /\ ~TooOld(c)
  /\ AcceptLaunch(c, SavedRun(c).vm, "active")

AssignLate(c) ==
  /\ At(c, "assign") /\ ~(StillAssignable(c) /\ ~TooOld(c))
  /\ Go(c, Idle)
  /\ UNCHANGED <<env, shadow, issued, vms>>

Kill(c) ==
  /\ At(c, "kill")
  /\ vms' = Terminated(ctl[c].vm)
  /\ Go(c, Idle)
  /\ UNCHANGED <<env, shadow, issued>>

-----------------------------------------------------------------------------
(* Sampling, orphans, draining and failures.                                *)

\* sample_thing: the status of the running run's runtime, read and then applied.
SampleStatus(c) ==
  LET v == shadow.run.vm
  IN  /\ At(c, "idle") /\ shadow.run.phase = "running"
      /\ vms[v].state = "running" /\ (vms[v].phase = "stopped" \/ Holds(v))
      /\ Go(c, [Idle EXCEPT !.pc = "sample", !.next = shadow,
                            !.host = IF Holds(v) THEN "verified" ELSE "stopped"])
      /\ UNCHANGED <<env, shadow, issued, vms>>

StillRunning(c) == SameRun(c) /\ shadow.run.phase = "running"

SampleStopped(c) ==
  /\ At(c, "sample") /\ ctl[c].host = "stopped"
  /\ shadow' = IF StillRunning(c) THEN Patch(Stopping(shadow), now) ELSE shadow
  /\ Go(c, IF StillRunning(c) THEN KillOf(SavedRun(c).vm) ELSE Idle)
  /\ UNCHANGED <<env, issued, vms>>

SampleEndpoint(c) ==
  /\ At(c, "sample") /\ ctl[c].host = "verified"
  /\ shadow' = IF StillRunning(c) /\ ~Revoked(shadow, "active", now) /\ StillObserved(shadow)
               THEN [shadow EXCEPT !.endpoint = shadow.run.vm] ELSE shadow
  /\ Go(c, Idle)
  /\ UNCHANGED <<env, issued, vms>>

\* terminate_confirmed_orphan: a running host that tells its run.
Candidate(c, v) ==
  At(c, "idle") /\ vms[v].state = "running" /\ vms[v].phase \in {"running", "stopped"}
Claimed(v) == shadow.run.id = vms[v].run /\ shadow.run.vm \in {0, v}

\* A readable inactive projection is observed on the way.
OrphanView(readable) ==
  IF /\ readable /\ declared /\ proj.ts # 0
     /\ ~Observation.active /\ ~Stale(shadow, Observation)
  THEN ObserveActivation(shadow, Observation, now) ELSE shadow

OrphanFenced(c, v, readable) ==
  LET s == OrphanView(readable)
  IN  /\ Candidate(c, v) /\ Claimed(v)
      /\ \/ ~declared \/ vms[v].phase = "stopped" \/ s.run.phase = "stopping"
         \/ Revoked(s, "active", now)
      /\ shadow' = Patch(Stopping([s EXCEPT !.run.vm = v]), now)
      /\ Go(c, KillOf(v))
      /\ UNCHANGED <<env, issued, vms>>

OrphanUnclaimed(c, v) ==
  /\ Candidate(c, v) /\ ~Claimed(v)
  /\ Go(c, KillOf(v))
  /\ UNCHANGED <<env, shadow, issued, vms>>

\* Automation disabled.  "Termination comes first": drain_disabled terminates the
\* MicroVMs of the inventory, any of which it may miss, and then fences the run.
Drain(c) ==
  /\ At(c, "idle")
  /\ Go(c, [Idle EXCEPT !.pc = "drain"])
  /\ UNCHANGED <<env, shadow, issued, vms>>

DrainKill(c, v) ==
  /\ At(c, "drain") /\ vms[v].state \in Live
  /\ vms' = Terminated(v)
  /\ UNCHANGED <<env, shadow, issued, ctl>>

DrainFence(c) ==
  /\ At(c, "drain")
  /\ shadow' = IF shadow.run # NoRun THEN Patch(Stopping(shadow), now) ELSE shadow
  /\ Go(c, Idle)
  /\ UNCHANGED <<env, issued, vms>>

\* drain_known_assignments, without an inventory, fences the run first.
DrainKnown(c) ==
  /\ At(c, "idle") /\ shadow.run.vm # 0
  /\ shadow' = Patch(Stopping(shadow), now)
  /\ Go(c, KillOf(shadow.run.vm))
  /\ UNCHANGED <<env, issued, vms>>

\* A call fails, or the invocation ends, before the next step.
Crash(c) ==
  /\ ~At(c, "idle")
  /\ Go(c, Idle)
  /\ UNCHANGED <<env, shadow, issued, vms>>

-----------------------------------------------------------------------------
(* The runtime of MicroVM v, and its host (external).                       *)

VmStep(v, m) == vms' = [vms EXCEPT ![v] = m] /\ UNCHANGED <<env, shadow, issued, ctl>>

\* The run hook refuses a launch that is too late.
StartVm(v) ==
  /\ vms[v].state = "pending"
  /\ VmStep(v, [vms[v] EXCEPT !.state = "running", !.at = now,
                              !.phase = IF now < vms[v].deadline THEN "running" ELSE "failed"])

Polling(v) ==
  vms[v].phase = "running" /\ vms[v].poll = "none" /\ proj.ts # 0

\* The shadow assigns the runtime's activation to its run, not being stopped.
Assigned(v) ==
  /\ shadow.run.id = vms[v].run /\ shadow.run.phase # "stopping"
  /\ shadow.act = vms[v].act /\ shadow.run.act = vms[v].act

\* The projection confirms the activity that the shadow observed.
MatchesActive(s, p) ==
  /\ s.active /\ s.act # 0 /\ p.active
  /\ \/ p.ver = s.ver /\ p.ts = s.ts
     \/ p.ver > s.ver /\ p.ts > s.ts

\* Variant: any running assignment of the activation will do.
PollAnyRun(v) ==
  /\ Polling(v) /\ declared /\ shadow.run.phase = "running"
  /\ MatchesActive(shadow, Observation)
  /\ VmStep(v, [vms[v] EXCEPT !.poll = "verified"])

PollVerified(v) ==
  /\ Polling(v) /\ declared /\ Assigned(v)
  /\ shadow.run.phase = "running" /\ shadow.run.vm = v
  /\ MatchesActive(shadow, Observation)
  /\ VmStep(v, [vms[v] EXCEPT !.poll = "verified"])

\* A reservation that may become this MicroVM's is no refusal.
PollRefused(v) ==
  /\ Polling(v)
  /\ \/ ~declared \/ ~Assigned(v)
     \/ shadow.run.vm # v /\ ~(shadow.run.phase = "reserved" /\ shadow.run.vm = 0)
     \/ shadow.run.phase = "running" /\ ~Observation.active
  /\ VmStep(v, [vms[v] EXCEPT !.poll = "refused"])

\* The answer takes effect, and is dated, when it arrives.
PollDone(v) ==
  /\ vms[v].poll # "none"
  /\ VmStep(v, IF vms[v].poll = "refused" THEN Halted(vms[v])
               ELSE [vms[v] EXCEPT !.at = now, !.ok = TRUE, !.poll = "none"])

\* The main loop stops the session without verification, and at the deadline.
Expire(v) ==
  /\ vms[v].phase = "running"
  /\ now - vms[v].at >= Verify \/ now >= vms[v].deadline
  /\ VmStep(v, Halted(vms[v]))

Suspend(v) ==
  /\ vms[v].state = "running"
  /\ VmStep(v, [Halted(vms[v]) EXCEPT !.state = "suspended"])

VmTerminated(v) ==
  /\ vms[v].state = "terminating"
  /\ VmStep(v, Gone(vms[v]))

\* A failed start, a crash, or the maximum duration.
VmDies(v) ==
  /\ vms[v].state \in Live
  /\ VmStep(v, Gone(vms[v]))

-----------------------------------------------------------------------------
Init ==
  /\ now = 1 /\ declared \in BOOLEAN
  /\ proj = [ver |-> 0, ts |-> 0]
  /\ shadow = StoppedShadow /\ issued = 0
  /\ vms = [v \in VM |-> NoVm]
  /\ ctl = [c \in Controllers |-> Idle]

Environment ==
  \/ Tick \/ Declare
  \/ \E i \in DOMAIN Activity : Project(i)

ControllerStep(c) ==
  \/ Begin(c) \/ DecideUndeclared(c) \/ DecideObserved(c)
  \/ \E deferred \in BOOLEAN : DecideUnverified(c, deferred)
  \/ Save(c) \/ SaveConflict(c)
  \/ LaunchExpired(c) \/ Launch(c) \/ Bind(c)
  \/ \E v \in VM : Request(c, v)
  \/ GetHost(c) \/ ClearTerminated(c) \/ FenceHost(c) \/ StopHost(c)
  \/ VerifyHost(c) \/ HostSettled(c) \/ Assign(c) \/ AssignLate(c)
  \/ Kill(c) \/ Crash(c)
  \/ SampleStatus(c) \/ SampleStopped(c) \/ SampleEndpoint(c)
  \/ \E v \in VM, readable \in BOOLEAN : OrphanFenced(c, v, readable)
  \/ \E v \in VM : OrphanUnclaimed(c, v) \/ DrainKill(c, v)
  \/ Drain(c) \/ DrainFence(c) \/ DrainKnown(c)

VmNext(v) ==
  \/ StartVm(v) \/ PollVerified(v) \/ PollRefused(v) \/ PollDone(v) \/ Expire(v)
  \/ Suspend(v) \/ VmTerminated(v) \/ VmDies(v)

Next ==
  \/ Environment
  \/ \E c \in Controllers : ControllerStep(c)
  \/ \E v \in VM : VmNext(v)

Spec == Init /\ [][Next]_vars

-----------------------------------------------------------------------------
(* Properties.                                                             *)

\* Every variable has its type; in particular the host a controller acts on is
\* a state the service reports or an answer of the runtime.
TypeOK ==
  /\ now \in Nat \ {0} /\ declared \in BOOLEAN
  /\ proj \in [ver : Nat, ts : 0..Len(Activity)]
  /\ shadow \in Shadow /\ issued \in Nat
  /\ vms \in [VM -> MicroVm]
  /\ ctl \in [Controllers -> Controller]

\* At most one runtime works for the device.  Runtimes of older runs may still
\* be up, and no lock is shared: a runtime verifies itself against the shadow
\* (microvm.cpp, device_run), which gives up a run with a known MicroVM only
\* after its termination (reconcile.cpp).
ExclusiveAuthority == \A u, v \in VM : Holds(u) /\ Holds(v) => u = v

\* What the controller writes (controller_shadow_patch) is what its own parser,
\* parse_controller_shadow, and parseWatchShadow of the witness accept: an
\* assigned run belongs to the current activation, a running one has a MicroVM,
\* a stopping one its stop time, and only a running one an endpoint.
ShadowWellFormed ==
  LET run == shadow.run
  IN  /\ run.phase \in {"reserved", "running"} => shadow.active /\ run.act = shadow.act
      /\ run # NoRun => shadow.act # 0 /\ run.id # 0
      /\ run.phase = "running" => run.vm # 0
      /\ run.phase = "stopping" => shadow.stopAt # 0
      /\ shadow.ver # 0 /\ ~shadow.active => shadow.inactiveAt # 0
      /\ (shadow.ver = 0) = (shadow.ts = 0)
      /\ shadow.endpoint # 0 => run.phase = "running" /\ shadow.endpoint = run.vm

\* Activations, each of which may cost a launch, number at most the rises of
\* activity that the device really sent: messages that the projection shows
\* again or out of order start none (observe_activation).
Rises(n) == {i \in 2..n : Activity[i] /\ ~Activity[i - 1]}
ActivationsEarned == shadow.act <= Cardinality(Rises(shadow.ts))

\* When the controller has a MicroVM terminated, the shadow does not name it or
\* is stopping its run, whatever other invocations wrote since the decision: a
\* run is fenced before its MicroVM goes.  Only drain_disabled terminates first.
KillsFencedOnly ==
  [][\A v \in VM : vms[v].state \in Live /\ vms'[v].state = "terminating" /\ shadow.run.vm = v
       => shadow.run.phase = "stopping" \/ \E c \in Controllers : DrainKill(c, v)]_vars

\* A run whose MicroVM is known leaves the shadow only after the termination
\* of that MicroVM (docs/contracts/agent-shadow.md), whatever late answers of
\* other invocations do.
KnownVmRetained ==
  [][shadow.run.vm # 0 /\ shadow'.run.id # shadow.run.id
       => vms[shadow.run.vm].state = "terminated"]_vars

\* No late launch answer or sample revives a run that is being stopped, and no
\* write moves its stopRequestedAt, from which the watch counts its grace.
StopIsFinal ==
  [][shadow.run.phase = "stopping" /\ shadow'.run.id = shadow.run.id
       => shadow'.run.phase = "stopping" /\ shadow'.stopAt = shadow.stopAt]_vars
==============================================================================
