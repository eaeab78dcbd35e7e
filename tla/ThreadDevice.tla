---------------------------- MODULE ThreadDevice ----------------------------
(***************************************************************************)
(* The firmware of the nRF54LM20A Thread devices                           *)
(* (devices/common/mcu/xiao_nrf54lm20a/src/thread_device.c) in its release *)
(* profile: REDCON commands over CoAP, the transitions between the         *)
(* receiver-on and the sleepy mode of the Thread link, and the recovery of *)
(* a sleepy device that lost its parent or its registration.               *)
(*                                                                         *)
(* Two threads: OpenThread, which runs the CoAP handlers and the callbacks *)
(* with its mutex held, and the system work queue, which runs the three    *)
(* delayed work items one at a time.  Both are cooperative at the          *)
(* priorities Zephyr gives them, so they alternate only where one blocks:  *)
(* OpenThread when it is idle and while an answer samples the battery, the *)
(* work queue when it waits for the mutex.  A delay is the freedom of a    *)
(* queued item to run at any time; the recovery backoff only selects one.  *)
(* An item that is cancelled while its handler waits stays K_WORK_CANCELING *)
(* until the handler returns, and k_work_schedule refuses it until then.   *)
(* A request that fails to parse, or whose outputs cannot be set, changes  *)
(* nothing.                                                                *)
(***************************************************************************)
EXTENDS Naturals

Works == {"sed", "sleep", "recovery"}

VARIABLES
  level,     \* redcon_level
  mode,      \* the link mode: receiver on, and receiver_on_when_idle
  net,       \* the Thread interface: enabled, attached as a child
  notify,    \* a role change that thread_state_changed has not been told of
  accepted,  \* srp_registration_accepted
  sed,       \* sed_mode_active
  work,      \* queued work items; redcon_sleep_pending; recovery_pending;
             \* history: lost, the items whose scheduling was refused last
  worker,    \* the work item that waits for the mutex
  canceling, \* that item was cancelled meanwhile (K_WORK_CANCELING)
  ot,        \* the OpenThread thread: out (mutex free), in a handler, in the
             \* battery sample of an answer, or in that of a REDCON 4 answer
  refused    \* history: OpenThread refused the mode the last command asked for

vars == <<level, mode, net, notify, accepted, sed, work, worker, canceling, ot, refused>>

TypeOK ==
  /\ level \in {3, 4}
  /\ mode \in [rx : BOOLEAN, expected : BOOLEAN]
  /\ net \in [enabled : BOOLEAN, child : BOOLEAN]
  /\ notify \in BOOLEAN /\ accepted \in BOOLEAN /\ sed \in BOOLEAN
  /\ work \in [queued : SUBSET Works, lost : SUBSET Works, sleep : BOOLEAN, recovery : BOOLEAN]
  /\ worker \in Works \cup {"idle"} /\ canceling \in BOOLEAN
  /\ ot \in {"out", "in", "answer", "answer4"}
  /\ refused \in BOOLEAN

NoWork == [queued |-> {}, lost |-> {}, sleep |-> FALSE, recovery |-> FALSE]

\* start_thread: receiver-on until the first registration.
Init ==
  /\ level = 4 /\ mode = [rx |-> TRUE, expected |-> TRUE]
  /\ net = [enabled |-> TRUE, child |-> FALSE]
  /\ notify = FALSE /\ accepted = FALSE /\ sed = FALSE
  /\ work = NoWork /\ worker = "idle" /\ canceling = FALSE /\ ot = "out" /\ refused = FALSE

-----------------------------------------------------------------------------
(* Helpers.                                                                *)

\* configure_thread_mode_locked: the mode is refused, or set while the poll
\* period is refused, or both are set and the expectation with them.
Refused(on) == {mode, [mode EXCEPT !.rx = on]}
Configured(on) == [rx |-> on, expected |-> on]

\* k_work_schedule and k_work_cancel_delayable (Zephyr); an item that waits is
\* both cancelled and marked (canceling).
Schedule(w, item) ==
  IF worker = item /\ canceling
  THEN [w EXCEPT !.lost = @ \cup {item}]
  ELSE [w EXCEPT !.queued = @ \cup {item}, !.lost = @ \ {item}]
Cancel(w, item) == [w EXCEPT !.queued = @ \ {item}, !.lost = @ \ {item}]

\* schedule_recovery, where sd is the value of sed_mode_active it reads.
ScheduleRecovery(w, sd) ==
  IF sd /\ level = 4 /\ ~w.recovery
  THEN [Schedule(w, "recovery") EXCEPT !.recovery = TRUE] ELSE w

-----------------------------------------------------------------------------
(* The OpenThread thread.  Who waits for the mutex gets it when it is      *)
(* given back, so OpenThread returns only to an idle work queue.           *)

OtEnters ==
  /\ ot = "out" /\ worker = "idle" /\ ot' = "in"
  /\ UNCHANGED <<level, mode, net, notify, accepted, sed, work, worker, canceling, refused>>

OtLeaves ==
  /\ ot = "in" /\ ot' = "out"
  /\ UNCHANGED <<level, mode, net, notify, accepted, sed, work, worker, canceling, refused>>

StateHandler ==
  /\ ot = "in" /\ net.child /\ ot' = "answer"
  /\ UNCHANGED <<level, mode, net, notify, accepted, sed, work, worker, canceling, refused>>

AnswerSent ==
  /\ ot = "answer" /\ ot' = "in"
  /\ UNCHANGED <<level, mode, net, notify, accepted, sed, work, worker, canceling, refused>>

\* A PUT of REDCON 3 whose change of the mode succeeds.
RedconOn ==
  /\ ot = "in" /\ net.child
  /\ level' = 3 /\ mode' = Configured(TRUE)
  /\ work' = NoWork /\ canceling' = (worker # "idle")
  /\ ot' = "answer" /\ refused' = FALSE
  /\ UNCHANGED <<net, notify, accepted, sed, worker>>

\* The mode is refused: the outputs go back, the cancelled work does not.
RedconOnRefused ==
  /\ ot = "in" /\ net.child /\ refused' = TRUE
  /\ mode' \in Refused(TRUE)
  /\ level' \in {level, 3}
  /\ work' = NoWork /\ canceling' = (worker # "idle")
  /\ UNCHANGED <<net, notify, accepted, sed, worker, ot>>

RedconOff ==
  /\ ot = "in" /\ net.child
  /\ level' = 4 /\ work' = [work EXCEPT !.sleep = TRUE] /\ ot' = "answer4"
  /\ refused' = FALSE
  /\ UNCHANGED <<mode, net, notify, accepted, sed, worker, canceling>>

\* "The response must leave while the parent link remains receiver-on."
RedconOffAnswered ==
  /\ ot = "answer4" /\ ot' = "in"
  /\ work' = Schedule(work, "sleep")
  /\ UNCHANGED <<level, mode, net, notify, accepted, sed, worker, canceling, refused>>

RoleChanges ==
  /\ ot = "in" /\ net.enabled
  /\ net' = [net EXCEPT !.child = ~@] /\ notify' = TRUE
  /\ UNCHANGED <<level, mode, accepted, sed, work, worker, canceling, ot, refused>>

ThreadStateChanged ==
  /\ ot = "in"
  /\ notify' = FALSE /\ work' = ScheduleRecovery(work, sed)
  /\ UNCHANGED <<level, mode, net, accepted, sed, worker, canceling, ot, refused>>

ScheduleSed(w) == IF level = 4 /\ ~sed THEN Schedule(w, "sed") ELSE w

\* Variant: the recovery is cancelled and its flag stays.
SrpAcceptedKeepsFlag ==
  /\ ot = "in" /\ net.child
  /\ accepted' = TRUE
  /\ work' = ScheduleSed(Cancel(work, "recovery"))
  /\ canceling' = (canceling \/ worker = "recovery")
  /\ UNCHANGED <<level, mode, net, notify, sed, worker, ot, refused>>

\* srp_client_callback without an error.
SrpAccepted ==
  /\ ot = "in" /\ net.child
  /\ accepted' = TRUE
  /\ work' = ScheduleSed([Cancel(work, "recovery") EXCEPT !.recovery = FALSE])
  /\ canceling' = (canceling \/ worker = "recovery")
  /\ UNCHANGED <<level, mode, net, notify, sed, worker, ot, refused>>

SrpFails ==
  /\ ot = "in"
  /\ accepted' = FALSE /\ work' = ScheduleRecovery(work, sed)
  /\ UNCHANGED <<level, mode, net, notify, sed, worker, canceling, ot, refused>>

-----------------------------------------------------------------------------
(* The work queue.  An item starts when OpenThread blocks, gives up on its *)
(* first checks, or waits for the mutex.                                   *)

Dequeued(w) == [work EXCEPT !.queued = @ \ {w}]

Starts(w) == worker = "idle" /\ ot # "in" /\ w \in work.queued

SedStarts ==
  /\ Starts("sed") /\ work' = Dequeued("sed")
  /\ worker' = IF accepted /\ level = 4 /\ ~sed THEN "sed" ELSE "idle"
  /\ UNCHANGED <<level, mode, net, notify, accepted, sed, canceling, ot, refused>>

SleepStarts ==
  /\ Starts("sleep")
  /\ work' = [Dequeued("sleep") EXCEPT !.sleep = FALSE]
  /\ worker' = IF work.sleep THEN "sleep" ELSE "idle"
  /\ UNCHANGED <<level, mode, net, notify, accepted, sed, canceling, ot, refused>>

RecoveryStarts ==
  /\ Starts("recovery")
  /\ work' = [Dequeued("recovery") EXCEPT !.recovery = FALSE]
  /\ worker' = IF sed THEN "recovery" ELSE "idle"
  /\ UNCHANGED <<level, mode, net, notify, accepted, sed, canceling, ot, refused>>

\* The handler gets the mutex and runs to its end.
Locked(w) == worker = w /\ ot = "out" /\ worker' = "idle" /\ canceling' = FALSE

FallAsleep ==
  /\ mode' = Configured(FALSE) /\ sed' = TRUE
  /\ work' = ScheduleRecovery(work, TRUE)
  /\ UNCHANGED <<level, net, notify, accepted, ot, refused>>

SedTransition == Locked("sed") /\ net.child /\ FallAsleep

\* Variant: a transition that fails is not tried again.
SedGivesUp ==
  /\ Locked("sed")
  /\ \/ ~net.child /\ mode' = mode
     \/ net.child /\ mode' \in Refused(FALSE)
  /\ UNCHANGED <<level, net, notify, accepted, sed, work, ot, refused>>

SedRetries ==
  /\ Locked("sed")
  /\ \/ ~net.child /\ mode' = mode
     \/ net.child /\ mode' \in Refused(FALSE)
  /\ work' = Schedule(work, "sed")
  /\ UNCHANGED <<level, net, notify, accepted, sed, ot, refused>>

SleepTransition == Locked("sleep") /\ FallAsleep

SleepRefused ==
  /\ Locked("sleep") /\ refused' = TRUE /\ mode' \in Refused(FALSE)
  /\ UNCHANGED <<level, net, notify, accepted, sed, work, ot>>

\* Awake again, or attached and registered in the sleepy mode.
NothingToRecover ==
  level # 4 \/ mode.expected \/ (net.child /\ ~mode.rx /\ accepted)

RecoveryNotNeeded ==
  /\ Locked("recovery") /\ NothingToRecover
  /\ UNCHANGED <<level, mode, net, notify, accepted, sed, work, ot, refused>>

\* restart_thread_mode_locked: the interface cannot be disabled, or stays
\* disabled with the mode refused or set, or is enabled again.
Restarted ==
  \/ mode' = Configured(FALSE) /\ net' = [enabled |-> TRUE, child |-> FALSE]
  \/ UNCHANGED <<mode, net>>
  \/ /\ mode' \in Refused(FALSE) \cup {Configured(FALSE)}
     /\ net' = [enabled |-> FALSE, child |-> FALSE]

\* Variant: recovery is scheduled again by the next role change only.
RecoveryOnce ==
  /\ Locked("recovery") /\ ~NothingToRecover
  /\ accepted' = FALSE /\ Restarted
  /\ notify' = (notify \/ net'.child # net.child)
  /\ UNCHANGED <<level, sed, work, ot, refused>>

Recovery ==
  /\ Locked("recovery") /\ ~NothingToRecover
  /\ accepted' = FALSE /\ Restarted
  /\ notify' = (notify \/ net'.child # net.child)
  /\ work' = ScheduleRecovery(work, sed)
  /\ UNCHANGED <<level, sed, ot, refused>>

-----------------------------------------------------------------------------
OtStep ==
  \/ OtEnters \/ OtLeaves \/ StateHandler \/ AnswerSent
  \/ RedconOn \/ RedconOnRefused \/ RedconOff \/ RedconOffAnswered
  \/ RoleChanges \/ ThreadStateChanged \/ SrpAccepted \/ SrpFails

WorkStep ==
  \/ SedStarts \/ SleepStarts \/ RecoveryStarts
  \/ SedTransition \/ SedRetries \/ SleepTransition \/ SleepRefused
  \/ RecoveryNotNeeded \/ Recovery

Next == OtStep \/ WorkStep

Spec == Init /\ [][Next]_vars

\* OpenThread handles finitely many events at a stretch and delivers its
\* notifications; the kernel runs every queued item; a change of the mode that
\* is tried again and again succeeds at last.
FairSpec ==
  /\ Spec
  /\ WF_vars(OtEnters) /\ SF_vars(OtLeaves)
  /\ WF_vars(AnswerSent) /\ WF_vars(RedconOffAnswered)
  /\ SF_vars(notify /\ ThreadStateChanged)
  /\ SF_vars(SedStarts) /\ SF_vars(SleepStarts) /\ SF_vars(RecoveryStarts)
  /\ SF_vars(SedTransition) /\ WF_vars(SedRetries) /\ WF_vars(SleepTransition)
  /\ WF_vars(RecoveryNotNeeded) /\ WF_vars(Recovery)

-----------------------------------------------------------------------------
(* Properties.                                                             *)

\* A pending flag stands for work that is queued, or about to be: both threads
\* set, clear and cancel the two separately, and schedule_recovery does nothing
\* while its flag is set.  The one way to a flag without its work is to cancel
\* an item whose handler waits for the mutex and to schedule it again before
\* the handler returns: Zephyr refuses, and the code does not look (lost).
PendingIsQueued ==
  /\ work.recovery => "recovery" \in work.queued \cup work.lost
  /\ work.sleep => "sleep" \in work.queued \cup work.lost \/ ot = "answer4"

\* "The shared nRF54LM20A Thread firmware must recover a lost Sleepy End Device
\* attachment": a device that stays asleep without its parent or its
\* registration makes one recovery attempt after the other, unless the mode its
\* last command asked for was refused, which cancels the recovery, or Zephyr
\* refused to schedule the recovery again.
RecoveryGoesOn ==
  <>[](/\ level = 4 /\ ~refused /\ "recovery" \notin work.lost
       /\ sed /\ ~mode.expected /\ ~(net.child /\ accepted))
    => []<>(worker = "recovery")

\* A device that stays at REDCON 4, attached and registered, ends in the sleepy
\* mode, whatever commands, failures and recoveries came before (unless the mode
\* its last command asked for was refused, which nothing tries again).
FallsAsleep ==
  <>[](level = 4 /\ ~refused /\ net.child /\ accepted) => <>[](~mode.rx)
=============================================================================
