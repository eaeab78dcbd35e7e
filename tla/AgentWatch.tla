------------------------------ MODULE AgentWatch ------------------------------
(***************************************************************************)
(* The controller of AgentController together with the shutdown watch of   *)
(* the witness (witness/internal/witness/agent_watch.go): an independent   *)
(* reader of the agent shadow that may only terminate MicroVMs, those of   *)
(* runs that should have stopped and those no run claims, each after a     *)
(* grace period.                                                           *)
(***************************************************************************)
EXTENDS AgentController

CONSTANT Grace  \* AgentWatchGrace

ASSUME GraceAssumption == Grace \in Nat

VARIABLE watch  \* the check of one MicroVM under way

watchVars == <<vars, watch>>

Watch == [pc : {"idle", "recheck", "kill"}, vm : VM \cup {0}, known : BOOLEAN]
Rest == [pc |-> "idle", vm |-> 0, known |-> FALSE]

\* Variant: the grace is taken off instead of added.
StopDueEarly(s, t) ==
  \E since \in {s.deadline, s.stopAt} :
    /\ since # 0 /\ t >= since - Grace
    /\ since = s.deadline \/ s.run.phase = "stopping"

\* Since the deadline, if it has passed, or since the stop request.
StopDue(s, t) ==
  \E since \in {s.deadline, s.stopAt} :
    /\ since # 0 /\ t - since >= Grace
    /\ since = s.deadline \/ s.run.phase = "stopping"

\* Variant: only MicroVMs of runs are looked at.
WatchSelectKnown(v) ==
  /\ watch = Rest /\ vms[v].state \in Live
  /\ shadow.run.vm = v /\ StopDue(shadow, now)
  /\ watch' = [pc |-> "recheck", vm |-> v, known |-> TRUE]
  /\ UNCHANGED vars

\* A run that should have stopped, or a MicroVM that no run names.
WatchSelect(v) ==
  LET known == shadow.run.vm = v
  IN  /\ watch = Rest /\ vms[v].state \in Live
      /\ IF known THEN StopDue(shadow, now) ELSE now - vms[v].started >= Grace
      /\ watch' = [pc |-> "recheck", vm |-> v, known |-> known]
      /\ UNCHANGED vars

\* The second read of the shadow: a run must still be due, a MicroVM that was
\* unclaimed may have been claimed by a run that is not.
WatchRecheck ==
  /\ watch.pc = "recheck"
  /\ watch' = IF IF shadow.run.vm = watch.vm THEN StopDue(shadow, now) ELSE ~watch.known
              THEN [watch EXCEPT !.pc = "kill"] ELSE Rest
  /\ UNCHANGED vars

WatchKill ==
  /\ watch.pc = "kill"
  /\ vms' = Terminated(watch.vm)
  /\ watch' = Rest
  /\ UNCHANGED <<env, shadow, issued, ctl>>

WatchFails == watch # Rest /\ watch' = Rest /\ UNCHANGED vars

WatchStep == (\E v \in VM : WatchSelect(v)) \/ WatchRecheck \/ WatchKill \/ WatchFails

WatchInit == Init /\ watch = Rest
WatchNext == (Next /\ UNCHANGED watch) \/ WatchStep
WatchSpec == WatchInit /\ [][WatchNext]_watchVars

\* The watch, which shares no lock with the controller, never terminates the
\* MicroVM of a run it selected as overdue (stopKnown) while that run is
\* neither stopping nor past its deadline: new activations of the controller
\* between its reads and its call do not turn the decision into a wrong one.
WatchSparesHealthy ==
  watch.pc = "kill" /\ watch.known /\ shadow.run.vm = watch.vm
    => shadow.run.phase = "stopping" \/ now >= shadow.deadline

-----------------------------------------------------------------------------
(* The clock advances and the service completes a termination.  The sweep   *)
(* visits every MicroVM once a minute and does not fail every time.  Nothing *)
(* is assumed of the controllers and of the runtimes.                        *)
Fairness ==
  /\ WF_watchVars(Tick /\ UNCHANGED watch)
  /\ SF_watchVars(WatchRecheck) /\ SF_watchVars(WatchKill)
  /\ \A v \in VM : /\ SF_watchVars(WatchSelect(v))
                   /\ WF_watchVars(VmTerminated(v) /\ UNCHANGED watch)

LiveSpec == WatchSpec /\ Fairness

\* Every MicroVM that was launched terminates, even if no controller ever runs
\* again, whether or not a run came to name it (Sweep).
VmsStop == \A v \in VM : vms[v] # NoVm ~> vms[v].state = "terminated"
===============================================================================
