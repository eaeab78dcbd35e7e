------------------------- MODULE ThreadDeviceProofs -------------------------
(***************************************************************************)
(* Proofs about the Thread firmware: the two pending flags and the work    *)
(* they stand for agree under every interleaving of OpenThread and the     *)
(* system work queue, but for work that Zephyr refused to schedule while   *)
(* it was cancelling it.  PendingIsQueued is inductive given the types.    *)
(***************************************************************************)
EXTENDS ThreadDevice, TLAPS

IInv == TypeOK /\ PendingIsQueued

WorkType == [queued : SUBSET Works, lost : SUBSET Works, sleep : BOOLEAN, recovery : BOOLEAN]

-----------------------------------------------------------------------------
(* The helpers.                                                            *)

\* Scheduling queues the item or loses it, and leaves the rest alone.
LEMMA ScheduleKeeps ==
  ASSUME NEW w \in WorkType, NEW item \in Works
  PROVE  LET v == Schedule(w, item)
         IN  /\ v \in WorkType /\ v.sleep = w.sleep /\ v.recovery = w.recovery
             /\ item \in v.queued \cup v.lost
             /\ w.queued \cup w.lost \subseteq v.queued \cup v.lost
<1>1. CASE worker = item /\ canceling
  BY <1>1 DEF Schedule, WorkType
<1>2. CASE ~(worker = item /\ canceling)
  BY <1>2 DEF Schedule, WorkType
<1> QED BY Zenon, <1>1, <1>2

\* schedule_recovery sets its flag and schedules its work together, and leaves
\* the rest of the record alone.
LEMMA ScheduleRecoveryKeeps ==
  ASSUME NEW w \in WorkType, NEW sd \in BOOLEAN,
         w.recovery => "recovery" \in w.queued \cup w.lost
  PROVE  LET v == ScheduleRecovery(w, sd)
         IN  /\ v \in WorkType /\ v.sleep = w.sleep
             /\ v.recovery => "recovery" \in v.queued \cup v.lost
             /\ w.queued \cup w.lost \subseteq v.queued \cup v.lost
<1>1. CASE sd /\ level = 4 /\ ~w.recovery
  <2>1. PICK u : u = Schedule(w, "recovery") OBVIOUS
  <2>2. /\ u \in WorkType /\ u.sleep = w.sleep /\ "recovery" \in u.queued \cup u.lost
        /\ w.queued \cup w.lost \subseteq u.queued \cup u.lost
    BY Zenon, <2>1, ScheduleKeeps DEF Works
  <2>3. ScheduleRecovery(w, sd) = [u EXCEPT !.recovery = TRUE]
    BY Zenon, <1>1, <2>1 DEF ScheduleRecovery
  <2> QED BY <2>2, <2>3 DEF WorkType
<1>2. CASE ~(sd /\ level = 4 /\ ~w.recovery)
  BY Zenon, <1>2 DEF ScheduleRecovery
<1> QED BY Zenon, <1>1, <1>2

\* Both ways a change of the mode can end leave a mode.
LEMMA ModeType ==
  ASSUME TypeOK, NEW on \in BOOLEAN
  PROVE  /\ Configured(on) \in [rx : BOOLEAN, expected : BOOLEAN]
         /\ Refused(on) \subseteq [rx : BOOLEAN, expected : BOOLEAN]
BY DEF TypeOK, Configured, Refused

-----------------------------------------------------------------------------
(* The steps.                                                              *)

\* The device boots with no work queued.
LEMMA InitIInv == Init => IInv
<1> SUFFICES ASSUME Init PROVE IInv OBVIOUS
<1>1. work \in WorkType BY Zenon DEF Init, NoWork, WorkType
<1>2. PendingIsQueued BY DEF Init, NoWork, PendingIsQueued
<1> QED BY <1>1, <1>2 DEF Init, IInv, TypeOK, WorkType

\* The handlers and callbacks of the OpenThread thread.
LEMMA OtStepIInv == IInv /\ OtStep => IInv'
<1> SUFFICES ASSUME IInv, OtStep PROVE IInv' OBVIOUS
<1> USE DEF IInv, TypeOK, PendingIsQueued
<1>1. CASE OtEnters BY <1>1 DEF OtEnters
<1>2. CASE OtLeaves BY <1>2 DEF OtLeaves
<1>3. CASE StateHandler BY <1>3 DEF StateHandler
<1>4. CASE AnswerSent BY <1>4 DEF AnswerSent
<1>5. CASE RedconOn
  BY <1>5, ModeType DEF RedconOn, NoWork
<1>6. CASE RedconOnRefused
  BY <1>6, ModeType DEF RedconOnRefused, NoWork
<1>7. CASE RedconOff BY <1>7 DEF RedconOff
<1>8. CASE RedconOffAnswered
  <2>1. LET v == work'
        IN  /\ v \in WorkType /\ v.recovery = work.recovery /\ "sleep" \in v.queued \cup v.lost
            /\ work.queued \cup work.lost \subseteq v.queued \cup v.lost
    BY Zenon, <1>8, ScheduleKeeps DEF RedconOffAnswered, WorkType, Works
  <2> QED BY <1>8, <2>1 DEF RedconOffAnswered, WorkType
<1>9. CASE RoleChanges
  <2>1. net' \in [enabled : BOOLEAN, child : BOOLEAN] BY <1>9 DEF RoleChanges
  <2> QED BY <1>9, <2>1 DEF RoleChanges
<1>10. CASE ThreadStateChanged
  <2>1. LET v == work'
        IN  /\ v \in WorkType /\ v.sleep = work.sleep
            /\ work.queued \cup work.lost \subseteq v.queued \cup v.lost
            /\ v.recovery => "recovery" \in v.queued \cup v.lost
    BY <1>10, ScheduleRecoveryKeeps DEF ThreadStateChanged, WorkType
  <2>2. /\ accepted' \in BOOLEAN /\ notify' \in BOOLEAN
        /\ UNCHANGED <<level, mode, net, sed, worker, canceling, ot, refused>>
    BY <1>10 DEF ThreadStateChanged
  <2> QED BY <2>1, <2>2 DEF WorkType
<1>11. CASE SrpAccepted
  <2>1. PICK u : u = [Cancel(work, "recovery") EXCEPT !.recovery = FALSE] OBVIOUS
  <2>2. /\ u \in WorkType /\ u.recovery = FALSE /\ u.sleep = work.sleep
        /\ u.queued = work.queued \ {"recovery"} /\ u.lost = work.lost \ {"recovery"}
    BY <2>1 DEF Cancel, WorkType
  <2>3. LET v == work'
        IN  /\ v \in WorkType /\ v.recovery = FALSE /\ v.sleep = work.sleep
            /\ u.queued \cup u.lost \subseteq v.queued \cup v.lost
    BY Zenon, <1>11, <2>1, <2>2, ScheduleKeeps DEF SrpAccepted, ScheduleSed, Works
  <2>4. /\ accepted' \in BOOLEAN /\ canceling' \in BOOLEAN
        /\ UNCHANGED <<level, mode, net, notify, sed, worker, ot, refused>>
    BY Zenon, <1>11 DEF SrpAccepted
  <2> QED BY <2>2, <2>3, <2>4 DEF WorkType
<1>12. CASE SrpFails
  <2>1. LET v == work'
        IN  /\ v \in WorkType /\ v.sleep = work.sleep
            /\ work.queued \cup work.lost \subseteq v.queued \cup v.lost
            /\ v.recovery => "recovery" \in v.queued \cup v.lost
    BY <1>12, ScheduleRecoveryKeeps DEF SrpFails, WorkType
  <2>2. /\ accepted' \in BOOLEAN /\ notify' \in BOOLEAN
        /\ UNCHANGED <<level, mode, net, sed, worker, canceling, ot, refused>>
    BY <1>12 DEF SrpFails
  <2> QED BY <2>1, <2>2 DEF WorkType
<1> QED
  BY <1>1, <1>2, <1>3, <1>4, <1>5, <1>6, <1>7, <1>8, <1>9, <1>10, <1>11, <1>12 DEF OtStep

\* The work items: an item's start clears its flag with its queue entry, and
\* only schedule_recovery sets one again.
LEMMA WorkStepIInv == IInv /\ WorkStep => IInv'
<1> SUFFICES ASSUME IInv, WorkStep PROVE IInv' OBVIOUS
<1> USE DEF IInv, TypeOK, PendingIsQueued
<1>1. CASE SedStarts BY <1>1 DEF SedStarts, Dequeued, Works
<1>2. CASE SleepStarts
  <2> DEFINE d == Dequeued("sleep")
  <2>1. /\ d \in WorkType /\ d.sleep = work.sleep /\ d.recovery = work.recovery
        /\ d.queued = work.queued \ {"sleep"} /\ d.lost = work.lost
    BY DEF Dequeued, WorkType
  <2>2. work' = [d EXCEPT !.sleep = FALSE] BY Zenon, <1>2 DEF SleepStarts
  <2> HIDE DEF d
  <2>3. /\ work' \in WorkType /\ work'.sleep = FALSE /\ work'.recovery = work.recovery
        /\ work'.queued = work.queued \ {"sleep"} /\ work'.lost = work.lost
    BY <2>1, <2>2 DEF WorkType
  <2>4. /\ worker' \in Works \cup {"idle"}
        /\ UNCHANGED <<level, mode, net, notify, accepted, sed, canceling, ot, refused>>
    BY Zenon, <1>2 DEF SleepStarts, Works
  <2> QED BY <2>3, <2>4 DEF WorkType
<1>3. CASE RecoveryStarts
  <2> DEFINE d == Dequeued("recovery")
  <2>1. /\ d \in WorkType /\ d.sleep = work.sleep /\ d.recovery = work.recovery
        /\ d.queued = work.queued \ {"recovery"} /\ d.lost = work.lost
    BY DEF Dequeued, WorkType
  <2>2. work' = [d EXCEPT !.recovery = FALSE] BY Zenon, <1>3 DEF RecoveryStarts
  <2> HIDE DEF d
  <2>3. /\ work' \in WorkType /\ work'.recovery = FALSE /\ work'.sleep = work.sleep
        /\ work'.queued = work.queued \ {"recovery"} /\ work'.lost = work.lost
    BY <2>1, <2>2 DEF WorkType
  <2>4. /\ worker' \in Works \cup {"idle"}
        /\ UNCHANGED <<level, mode, net, notify, accepted, sed, canceling, ot, refused>>
    BY Zenon, <1>3 DEF RecoveryStarts, Works
  <2> QED BY <2>3, <2>4 DEF WorkType
<1>4. ASSUME FallAsleep, worker' = "idle", canceling' = FALSE PROVE IInv'
  <2>1. LET v == work'
        IN  /\ v \in WorkType /\ v.sleep = work.sleep
            /\ work.queued \cup work.lost \subseteq v.queued \cup v.lost
            /\ v.recovery => "recovery" \in v.queued \cup v.lost
    BY <1>4, ScheduleRecoveryKeeps DEF FallAsleep, WorkType
  <2>2. /\ mode' \in [rx : BOOLEAN, expected : BOOLEAN] /\ sed' \in BOOLEAN
        /\ worker' \in Works \cup {"idle"} /\ canceling' \in BOOLEAN
        /\ UNCHANGED <<level, net, notify, accepted, ot, refused>>
    BY Zenon, <1>4, ModeType DEF FallAsleep
  <2> QED BY <2>1, <2>2 DEF WorkType
<1>5. CASE SedTransition BY <1>4, <1>5 DEF SedTransition, Locked
<1>6. CASE SedRetries
  <2>1. LET v == work'
        IN  /\ v \in WorkType /\ v.recovery = work.recovery /\ v.sleep = work.sleep
            /\ work.queued \cup work.lost \subseteq v.queued \cup v.lost
    BY Zenon, <1>6, ScheduleKeeps DEF SedRetries, WorkType, Works
  <2>2. mode' \in [rx : BOOLEAN, expected : BOOLEAN] BY <1>6, ModeType DEF SedRetries
  <2> QED BY <1>6, <2>1, <2>2 DEF SedRetries, Locked, WorkType
<1>7. CASE SleepTransition BY <1>4, <1>7 DEF SleepTransition, Locked
<1>8. CASE SleepRefused
  <2>1. mode' \in [rx : BOOLEAN, expected : BOOLEAN] BY Zenon, <1>8, ModeType DEF SleepRefused
  <2> QED BY <1>8, <2>1 DEF SleepRefused, Locked
<1>9. CASE RecoveryNotNeeded
  <2>1. worker' \in Works \cup {"idle"} /\ canceling' \in BOOLEAN
    BY Zenon, <1>9 DEF RecoveryNotNeeded, Locked
  <2>2. UNCHANGED <<level, mode, net, notify, accepted, sed, work, ot, refused>>
    BY Zenon, <1>9 DEF RecoveryNotNeeded
  <2> QED BY <2>1, <2>2
<1>10. CASE Recovery
  <2>1. mode' \in [rx : BOOLEAN, expected : BOOLEAN]
        /\ net' \in [enabled : BOOLEAN, child : BOOLEAN]
    <3>1. CASE mode' = Configured(FALSE) /\ net' = [enabled |-> TRUE, child |-> FALSE]
      BY <3>1, ModeType
    <3>2. CASE UNCHANGED <<mode, net>> BY <3>2
    <3>3. CASE /\ mode' \in Refused(FALSE) \cup {Configured(FALSE)}
               /\ net' = [enabled |-> FALSE, child |-> FALSE]
      BY <3>3, ModeType
    <3> QED BY <1>10, <3>1, <3>2, <3>3 DEF Recovery, Restarted
  <2>2. LET v == work'
        IN  /\ v \in WorkType /\ v.sleep = work.sleep
            /\ work.queued \cup work.lost \subseteq v.queued \cup v.lost
            /\ v.recovery => "recovery" \in v.queued \cup v.lost
    BY <1>10, ScheduleRecoveryKeeps DEF Recovery, WorkType
  <2> QED BY <1>10, <2>1, <2>2 DEF Recovery, Locked, WorkType
<1> QED
  BY <1>1, <1>2, <1>3, <1>5, <1>6, <1>7, <1>8, <1>9, <1>10 DEF WorkStep

\* In every state of every behaviour pending work is queued.
THEOREM Inductive == Spec => []IInv
<1>1. IInv /\ UNCHANGED vars => IInv'
  BY DEF vars, IInv, TypeOK, PendingIsQueued
<1>2. IInv /\ [Next]_vars => IInv' BY <1>1, OtStepIInv, WorkStepIInv DEF Next
<1> QED BY InitIInv, <1>2, PTL DEF Spec

\* Modes, levels and work items keep their ranges whatever the callbacks do.
THEOREM TypeCorrect == Spec => []TypeOK
BY Inductive, PTL DEF IInv

\* redcon_sleep_pending and recovery_pending are never set without the work that
\* clears them, although two threads set, cancel and start the two, unless that
\* work was scheduled while Zephyr was still cancelling it.
THEOREM PendingIsQueuedAlways == Spec => []PendingIsQueued
BY Inductive, PTL DEF IInv
=============================================================================
