------------------------------ MODULE BleSession ------------------------------
(***************************************************************************)
(* The BLE adapter's session of one device                                 *)
(* (rig/cmd/txing-ble-connectivity): advertisements, the GATT connection,  *)
(* REDCON commands with their confirmation, notifications, and the         *)
(* capability state that it publishes for the device manager.              *)
(*                                                                         *)
(* One goroutine runs the handlers one after the other.  The device, the   *)
(* radio link and the clock act in between.  The age of advertisements and *)
(* the guard after a command are flags that time clears; how long a        *)
(* reconnect is put off, and whether a recent read or connect lets a       *)
(* device count as present, is left open.  An inventory change stops a     *)
(* session, which finishes the handler it is in, may begin another, and    *)
(* may not have ended when the next session starts.                        *)
(***************************************************************************)
EXTENDS Naturals, Sequences

CONSTANTS
  NotesCap,    \* capacity of the queue of notifications
  Attempts     \* commandWriteMaxAttempts

ASSUME BleAssumption == NotesCap \in Nat /\ Attempts \in Nat \ {0}

Redcons == {3, 4}     \* what a BLE device knows; Offline in a published state
Offline == 0
None    == 0

VARIABLES
  s,        \* deviceSession
  dev,      \* the device: its REDCON, its link, and whether it was heard lately
  flight,   \* REDCON of a write that has not reached the device
  notes,    \* state notifications not yet drained
  inbox,    \* an advertisement in the session's channel
  command,  \* a command in the session's channel
  old,      \* the session before, until it has ended
  pub,      \* the retained capability state
  had       \* history: REDCONs of the device since the write of the command under way

bleVars == <<s, dev, flight, notes, inbox, command, old, pub, had>>

Commands == Redcons \cup {None}
Places == {"idle", "connect", "command", "write", "confirm", "report"}

NewSession ==
  [on |-> TRUE, at |-> "idle", connected |-> FALSE, ad |-> "none", lastRedcon |-> None,
   guarded |-> None, offlinePublished |-> FALSE, target |-> None, attempt |-> 0]

NoOld == [on |-> FALSE, connected |-> FALSE]

TypeOK ==
  /\ s \in [on : BOOLEAN, at : Places, connected : BOOLEAN, ad : {"none", "stale", "fresh"},
            lastRedcon : Commands, guarded : Commands, offlinePublished : BOOLEAN,
            target : Commands, attempt : 0..Attempts]
  /\ dev \in [redcon : Redcons, link : BOOLEAN, heard : BOOLEAN]
  /\ flight \in Commands /\ command \in Commands /\ inbox \in BOOLEAN
  /\ notes \in Seq(Redcons) /\ Len(notes) <= NotesCap
  /\ old \in [on : BOOLEAN, connected : BOOLEAN]
  /\ pub \in Redcons \cup {Offline} /\ had \subseteq Redcons

Init ==
  /\ s = NewSession /\ old = NoOld
  /\ dev = [redcon |-> 4, link |-> FALSE, heard |-> FALSE]
  /\ flight = None /\ notes = <<>> /\ inbox = FALSE /\ command = None
  /\ pub = Offline /\ had = {}

-----------------------------------------------------------------------------
(* What handlers do to the session.  t is the session so far.               *)

Linked(t) == t.connected /\ dev.link

Alone(at) == s.on /\ s.at = at /\ UNCHANGED <<command, old, had>>

\* publishGattUnavailable
Unavailable(t) ==
  s' = [t EXCEPT !.lastRedcon = None, !.offlinePublished = TRUE] /\ pub' = Offline

Observed(t) == [t EXCEPT !.ad = "fresh", !.offlinePublished = FALSE]

\* A read that finds the link gone checks for a cached advertisement first.
Rechecked(t) == IF dev.heard THEN {t, Observed(t)} ELSE {t}

\* publishGattUnavailableUnlessRecovering: a device that was read lately may count
\* as present, for an advertisement or for the connect that kept it from being heard.
UnavailableUnlessRecovering(t) ==
  \/ Unavailable(t)
  \/ /\ t.lastRedcon # None /\ (t.ad # "none" \/ dev.heard)
     /\ s' = IF t.ad # "fresh" /\ dev.heard THEN Observed(t) ELSE t
     /\ UNCHANGED pub

\* Disconnecting ends the link, and with it what is under way on it.
Disconnected == dev' = [dev EXCEPT !.link = FALSE] /\ notes' = <<>> /\ flight' = None

\* Connecting fails before or after there is a link.
NotConnected == Disconnected \/ (~Linked(s) /\ UNCHANGED <<dev, flight, notes>>)

\* refreshConnectedState, when the read succeeds
Read(t) ==
  s' = [t EXCEPT !.lastRedcon = dev.redcon] /\ pub' = dev.redcon

\* ConnectBLE and the reads that seed the state
ConnectedAndRead(t) ==
  /\ s' = [t EXCEPT !.connected = TRUE, !.lastRedcon = dev.redcon] /\ pub' = dev.redcon
  /\ dev' = [dev EXCEPT !.link = TRUE] /\ notes' = <<>> /\ UNCHANGED flight

-----------------------------------------------------------------------------
(* Handlers of advertisements.                                              *)

\* handleAdvertisement up to connect, which may be put off; and the advertisements
\* that the waits of a command take from the channel.
HandleAdvertisement ==
  /\ s.on /\ s.at \in {"idle", "command", "confirm"} /\ inbox /\ inbox' = FALSE
  /\ \/ s' = IF dev.heard THEN Observed(s) ELSE s
     \/ /\ s.at = "idle" /\ dev.heard /\ ~Linked(s)
        /\ s' = [Observed(s) EXCEPT !.at = "connect"]
  /\ UNCHANGED <<dev, flight, notes, command, old, pub, had>>

\* The connection is made; there is no capacity for it; or it fails.
FinishConnect ==
  LET t == [s EXCEPT !.at = "idle", !.connected = FALSE] IN
  /\ Alone("connect") /\ UNCHANGED inbox
  /\ \/ ConnectedAndRead(t)
     \/ s' = t /\ UNCHANGED <<dev, flight, notes, pub>>
     \/ UnavailableUnlessRecovering(t) /\ NotConnected

-----------------------------------------------------------------------------
(* handleCommand.                                                           *)

\* publishCommandResult
Result(t) == [t EXCEPT !.at = "idle", !.target = None, !.attempt = 0]

\* Its deadline may have passed; otherwise it is accepted.
AcceptCommand ==
  /\ s.on /\ s.at = "idle" /\ command # None /\ command' = None
  /\ LET t == [s EXCEPT !.at = "command", !.target = command, !.attempt = 1]
     IN  s' \in {t, Result(t)}
  /\ UNCHANGED <<dev, flight, notes, inbox, old, pub, had>>

\* connectForCommand: an attempt fails and is repeated, or is the last.
ConnectForCommand ==
  LET gone == [s EXCEPT !.connected = FALSE]
      ready(t) == [t EXCEPT !.at = "write"]
  IN  /\ Alone("command") /\ UNCHANGED inbox
      /\ \/ Linked(s) /\ Read(ready(s)) /\ UNCHANGED <<dev, flight, notes>>
         \/ ~Linked(s) /\ s.ad = "fresh" /\ ConnectedAndRead(ready(s))
         \/ NotConnected /\ s' = gone /\ UNCHANGED pub
         \/ NotConnected /\ \E t \in Rechecked(gone) : Unavailable(Result(t))

\* WriteRedcon is not answered: it may not have arrived yet, and may get lost.
WriteRedcon ==
  /\ s.on /\ s.at = "write" /\ UNCHANGED <<inbox, command, old>>
  /\ \/ /\ dev.link /\ s' = [s EXCEPT !.at = "confirm"]
        /\ flight' = s.target /\ had' = {dev.redcon} /\ UNCHANGED <<dev, notes, pub>>
     \/ /\ Disconnected /\ UNCHANGED had
        /\ LET t == [s EXCEPT !.connected = FALSE] IN
           \/ /\ s.attempt < Attempts /\ UNCHANGED pub
              /\ s' = [t EXCEPT !.at = "command", !.attempt = @ + 1]
           \/ Unavailable(Result(t))

DeadlineExpired ==
  /\ Alone("write") /\ s' = Result(s)
  /\ UNCHANGED <<dev, flight, notes, inbox, pub>>

\* Variant: the state known from before the write will do.
ConfirmUnread ==
  /\ s.on /\ s.at = "confirm" /\ UNCHANGED <<inbox, dev, flight, notes, command, old, pub>>
  /\ s' = IF s.lastRedcon = s.target THEN [s EXCEPT !.at = "report", !.guarded = s.target]
          ELSE Result(s)
  /\ had' = IF s'.at = "idle" THEN {} ELSE had

\* confirmCommandState reads until the target is there, an error ends it, or the
\* attempts are used up; each read is published.
ConfirmCommandState ==
  /\ s.on /\ s.at = "confirm" /\ UNCHANGED <<inbox, command, old>>
  /\ \/ /\ Linked(s) /\ UNCHANGED <<dev, flight, notes>>
        /\ IF dev.redcon = s.target
           THEN Read([s EXCEPT !.at = "report", !.guarded = s.target])
           ELSE Read(s) \/ Read(Result(s))
     \/ /\ Disconnected
        /\ \E t \in Rechecked([s EXCEPT !.connected = FALSE]) : Unavailable(Result(t))
  /\ had' = IF s'.at = "idle" THEN {} ELSE had

ReportSuccess ==
  /\ s.on /\ s.at = "report" /\ s' = Result(s) /\ had' = {}
  /\ UNCHANGED <<dev, flight, notes, inbox, command, old, pub>>

-----------------------------------------------------------------------------
(* The tickers.                                                             *)

\* Variant: the heartbeat publishes what it has.
HeartbeatUnread ==
  /\ Alone("idle") /\ Linked(s) /\ UNCHANGED <<inbox, dev, flight, notes, s>>
  /\ pub' = s.lastRedcon

ConnectedHeartbeat ==
  /\ Alone("idle") /\ Linked(s) /\ UNCHANGED inbox
  /\ \/ Read(s) /\ UNCHANGED <<dev, flight, notes>>
     \/ /\ UnavailableUnlessRecovering([s EXCEPT !.connected = FALSE])
        /\ Disconnected

\* drainNotifications: after a command, states other than the one it confirmed are
\* passed over for a while.
DrainNotifications ==
  LET heeded == SelectSeq(notes, LAMBDA r : s.guarded \in {None, r})
      last == heeded[Len(heeded)]
  IN  /\ Alone("idle") /\ Linked(s) /\ notes # <<>> /\ notes' = <<>>
      /\ IF heeded = <<>> THEN UNCHANGED <<s, pub>>
         ELSE s' = [s EXCEPT !.lastRedcon = last] /\ pub' = last
      /\ UNCHANGED <<dev, flight, inbox>>

\* checkStale and drainNotifications find the connection lost.
FindDisconnected ==
  /\ Alone("idle") /\ s.connected /\ ~dev.link
  /\ UnavailableUnlessRecovering([s EXCEPT !.connected = FALSE])
  /\ Disconnected /\ UNCHANGED inbox

\* Variant: recent connects hold the device's presence without end.
CheckStaleHeld ==
  /\ Alone("idle") /\ ~s.connected /\ s.ad # "fresh"
  /\ \/ dev.heard /\ s' = Observed(s) /\ UNCHANGED pub
     \/ /\ ~dev.heard /\ s.ad # "stale" /\ ~s.offlinePublished
        /\ Unavailable(s)
  /\ UNCHANGED <<dev, flight, notes, inbox>>

CheckStale ==
  /\ Alone("idle") /\ ~s.connected /\ s.ad # "fresh"
  /\ \/ dev.heard /\ s' = Observed(s) /\ UNCHANGED pub
     \/ /\ ~dev.heard /\ ~s.offlinePublished
        /\ Unavailable(s)
  /\ UNCHANGED <<dev, flight, notes, inbox>>

\* A measurement arrives or becomes too old: the state is published as it is known.
PublishAggregateSample ==
  /\ Alone("idle") /\ Linked(s)
  /\ pub' = IF s.lastRedcon = None THEN 4 ELSE s.lastRedcon
  /\ UNCHANGED <<s, dev, flight, notes, inbox>>

Handler ==
  \/ HandleAdvertisement \/ FinishConnect
  \/ AcceptCommand \/ ConnectForCommand \/ WriteRedcon \/ DeadlineExpired
  \/ ConfirmCommandState \/ ReportSuccess
  \/ ConnectedHeartbeat \/ DrainNotifications \/ FindDisconnected \/ CheckStale
  \/ PublishAggregateSample

-----------------------------------------------------------------------------
(* The device, the link and the clock.                                      *)

\* The device is at r from now on.
Becomes(r) ==
  /\ dev' = [dev EXCEPT !.redcon = r]
  /\ had' = IF s.at \in {"confirm", "report"} THEN had \cup {r} ELSE had
  /\ notes' = IF Linked(s) /\ r # dev.redcon /\ Len(notes) < NotesCap THEN Append(notes, r) ELSE notes

\* A device advertises while it is not connected; the session's channel or the
\* scanner's rate limit may drop the advertisement, the cache has it.
Advertises ==
  /\ ~dev.link /\ dev' = [dev EXCEPT !.heard = TRUE]
  /\ inbox' \in {inbox, s.on}
  /\ UNCHANGED <<s, flight, notes, command, old, pub, had>>

DeviceChanges(r) ==
  /\ Becomes(r)
  /\ UNCHANGED <<s, flight, inbox, command, old, pub>>

WriteArrives ==
  /\ flight # None /\ dev.link /\ flight' = None
  /\ \/ Becomes(flight)
     \/ UNCHANGED <<dev, notes, had>>
  /\ UNCHANGED <<s, inbox, command, old, pub>>

LinkLost ==
  /\ dev.link /\ Disconnected
  /\ UNCHANGED <<s, inbox, command, old, pub, had>>

AdvertisementAges ==
  /\ \/ s.ad = "fresh" /\ s' = [s EXCEPT !.ad = "stale"] /\ UNCHANGED dev
     \/ s.ad # "fresh" /\ dev.heard /\ dev' = [dev EXCEPT !.heard = FALSE] /\ UNCHANGED s
  /\ UNCHANGED <<flight, notes, inbox, command, old, pub, had>>

GuardEnds ==
  /\ s.guarded # None /\ s' = [s EXCEPT !.guarded = None]
  /\ UNCHANGED <<dev, flight, notes, inbox, command, old, pub, had>>

-----------------------------------------------------------------------------
(* Inventory and commands.                                                  *)

DispatchCommand(r) ==
  /\ s.on /\ command = None /\ command' = r
  /\ UNCHANGED <<s, dev, flight, notes, inbox, old, pub, had>>

\* updateInventorySessions stops the session; its queues go with it.
StopSession ==
  /\ s.on /\ old = NoOld
  /\ s' = [NewSession EXCEPT !.on = FALSE]
  /\ old' = [on |-> TRUE, connected |-> s.connected]
  /\ notes' = <<>> /\ inbox' = FALSE /\ command' = None /\ had' = {}
  /\ UNCHANGED <<dev, flight, pub>>

StartSession ==
  /\ ~s.on /\ s' = NewSession /\ inbox' = dev.heard
  /\ UNCHANGED <<dev, flight, notes, command, old, pub, had>>

\* The stopped session publishes a state that it reads or read before, or that the
\* device is offline.  Nothing it publishes depends on its being stopped, and select
\* may pick another ready case before ctx.Done.
OldPublishes ==
  /\ old.on
  /\ pub' = Offline \/ (old.connected /\ dev.link /\ pub' \in Redcons)
  /\ UNCHANGED <<s, dev, flight, notes, inbox, command, old, had>>

\* Connecting is not cancelled either.
OldConnects ==
  /\ old.on /\ ~old.connected /\ ~dev.link
  /\ old' = [old EXCEPT !.connected = TRUE]
  /\ dev' = [dev EXCEPT !.link = TRUE] /\ pub' = dev.redcon
  /\ UNCHANGED <<s, flight, notes, inbox, command, had>>

\* It returns from run, disconnects, and the link is gone for its successor too.
OldEnds ==
  /\ old # NoOld /\ old' = NoOld
  /\ IF old.connected THEN Disconnected ELSE UNCHANGED <<dev, flight, notes>>
  /\ UNCHANGED <<s, inbox, command, pub, had>>

Next ==
  \/ Handler
  \/ Advertises \/ WriteArrives \/ LinkLost \/ AdvertisementAges \/ GuardEnds
  \/ (\E r \in Redcons : DeviceChanges(r) \/ DispatchCommand(r))
  \/ StopSession \/ StartSession \/ OldPublishes \/ OldConnects \/ OldEnds

Spec == Init /\ [][Next]_bleVars

\* The tickers tick, and a handler that has begun comes to its end.
FairSpec ==
  /\ Spec
  /\ WF_bleVars(ConnectedHeartbeat) /\ WF_bleVars(FindDisconnected) /\ WF_bleVars(CheckStale)
  /\ WF_bleVars(FinishConnect)
  /\ WF_bleVars(s.at = "command" /\ ConnectForCommand /\ s'.at # "command")
  /\ WF_bleVars(WriteRedcon) /\ WF_bleVars(ConfirmCommandState /\ s'.at # "confirm")
  /\ WF_bleVars(ReportSuccess) /\ WF_bleVars(OldEnds)

-----------------------------------------------------------------------------
(* Properties.                                                              *)

\* A command is reported as succeeded only when the device was at its target at
\* some time after the command was written: confirmCommandState does not take the
\* state for confirmed that was read before the write, or that was published.
SuccessIsConfirmed ==
  s.at = "report" => s.target \in had

\* While the session is connected the retained state comes to be the REDCON that the
\* device has and stays it: lost, late and passed over notifications, the guard
\* after a command, and whatever an earlier session still publishes are made good.
PublishedFollowsDevice ==
  \A r \in Redcons :
    <>[](s.on /\ Linked(s) /\ dev.redcon = r /\ flight = None) => <>[](pub = r)

Gone == s.on /\ ~dev.link /\ ~dev.heard

\* A device that is not connected and not heard any more comes to be published as
\* offline, unless the session takes it for published while a later publication
\* says otherwise: that of a connection made since without an advertisement, or of
\* a stopped session after its successor's.
SilenceIsPublished ==
  <>[](Gone /\ (s.offlinePublished => pub = Offline)) => <>[](pub = Offline)
===============================================================================
