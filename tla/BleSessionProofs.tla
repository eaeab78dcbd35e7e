--------------------------- MODULE BleSessionProofs ---------------------------
(***************************************************************************)
(* Proof that a BLE session reports a command as succeeded on the device's *)
(* own word only, for every number of attempts and every capacity of the   *)
(* queue of notifications.                                                 *)
(***************************************************************************)
EXTENDS BleSession, TLAPS

\* t has the fields of a deviceSession.  What they hold plays no part: that a
\* filtered notification is a REDCON is induction over the queue.
IsSession(t) ==
  t \in [on : {t.on}, at : {t.at}, connected : {t.connected}, ad : {t.ad},
         lastRedcon : {t.lastRedcon}, guarded : {t.guarded},
         offlinePublished : {t.offlinePublished}, target : {t.target}, attempt : {t.attempt}]
IsDevice(d) == d \in [redcon : {d.redcon}, link : {d.link}, heard : {d.heard}]

\* From the write to the result the history has where the device is now.
HistoryCurrent == s.at \in {"confirm", "report"} => dev.redcon \in had

ConfirmInv == IsSession(s) /\ IsDevice(dev) /\ HistoryCurrent /\ SuccessIsConfirmed

-----------------------------------------------------------------------------
(* What handlers do to the session.                                         *)

\* t becomes u and is at the same place of the same command.
Stays(t, u) == IsSession(u) /\ u.at = t.at /\ u.target = t.target

\* Other fields change.
LEMMA EditStays ==
  ASSUME NEW t, IsSession(t), NEW v
  PROVE  /\ Stays(t, t)
         /\ Stays(t, [t EXCEPT !.connected = v]) /\ Stays(t, [t EXCEPT !.ad = v])
         /\ Stays(t, [t EXCEPT !.lastRedcon = v]) /\ Stays(t, [t EXCEPT !.guarded = v])
         /\ Stays(t, [t EXCEPT !.offlinePublished = v]) /\ Stays(t, [t EXCEPT !.attempt = v])
BY Zenon DEF Stays, IsSession

\* The handler goes on elsewhere.
LEMMA EditMoves ==
  ASSUME NEW t, IsSession(t), NEW p
  PROVE  /\ IsSession([t EXCEPT !.at = p]) /\ [t EXCEPT !.at = p].at = p
         /\ [t EXCEPT !.at = p].target = t.target
BY Zenon DEF IsSession

\* The helpers of the handlers.
LEMMA HelpersStay ==
  ASSUME NEW t, IsSession(t)
  PROVE  /\ Stays(t, Observed(t))
         /\ Unavailable(t) \/ Read(t) \/ UnavailableUnlessRecovering(t) \/ ConnectedAndRead(t)
              => Stays(t, s')
         /\ IsSession(Result(t)) /\ Result(t).at = "idle"
<1>1. Stays(t, Observed(t)) BY Zenon DEF Observed, Stays, IsSession
<1>2. Unavailable(t) => Stays(t, s') BY Zenon DEF Unavailable, Stays, IsSession
<1>3. Read(t) => Stays(t, s') BY Zenon DEF Read, Stays, IsSession
<1>4. ConnectedAndRead(t) => Stays(t, s') BY Zenon DEF ConnectedAndRead, Stays, IsSession
<1>5. UnavailableUnlessRecovering(t) => Stays(t, s')
  BY Zenon, <1>1, <1>2, EditStays DEF UnavailableUnlessRecovering
<1>6. IsSession(Result(t)) /\ Result(t).at = "idle" BY Zenon DEF Result, IsSession
<1> QED BY Zenon, <1>1, <1>2, <1>3, <1>4, <1>5, <1>6

\* A command that fails for its link is at its end.
LEMMA GivenUpIdle ==
  ASSUME NEW t, IsSession(t), \E u \in Rechecked(t) : Unavailable(Result(u))
  PROVE  IsSession(s') /\ s'.at = "idle"
<1>1. PICK u \in Rechecked(t) : Unavailable(Result(u)) OBVIOUS
<1>2. u = t \/ u = Observed(t) BY Zenon, <1>1 DEF Rechecked
<1>3. IsSession(u) BY Zenon, <1>2, HelpersStay DEF Stays
<1>4. IsSession(Result(u)) /\ Result(u).at = "idle" BY Zenon, <1>3, HelpersStay
<1> QED BY Zenon, <1>1, <1>4, HelpersStay DEF Stays

\* The link, the advertisements: the device keeps its REDCON.
SameRedcon == IsDevice(dev') /\ dev'.redcon = dev.redcon

\* Disconnecting and being heard leave it where it is.
LEMMA DeviceKeeps ==
  ASSUME IsDevice(dev)
  PROVE  /\ UNCHANGED dev => SameRedcon
         /\ \A v : /\ dev' = [dev EXCEPT !.link = v] => SameRedcon
                   /\ dev' = [dev EXCEPT !.heard = v] => SameRedcon
         /\ Disconnected \/ NotConnected => SameRedcon
<1>1. UNCHANGED dev => SameRedcon BY Zenon DEF SameRedcon
<1>2. \A v : dev' = [dev EXCEPT !.link = v] => SameRedcon BY Zenon DEF SameRedcon, IsDevice
<1>3. \A v : dev' = [dev EXCEPT !.heard = v] => SameRedcon BY Zenon DEF SameRedcon, IsDevice
<1> QED BY Zenon, <1>1, <1>2, <1>3 DEF Disconnected, NotConnected

-----------------------------------------------------------------------------
(* Steps.                                                                   *)

\* A step that leaves the command where it is, and one that ends outside of
\* confirmation and report.
LEMMA QuietKeeps ==
  ASSUME ConfirmInv,
         \/ Stays(s, s') /\ SameRedcon /\ had' = had
         \/ IsSession(s') /\ IsDevice(dev') /\ s'.at \notin {"confirm", "report"}
  PROVE  ConfirmInv'
BY Zenon DEF ConfirmInv, HistoryCurrent, SuccessIsConfirmed, Stays, SameRedcon

\* The device takes a REDCON of its own or of a write, and the history has it.
LEMMA BecomesKeeps ==
  ASSUME ConfirmInv, NEW r, Becomes(r), UNCHANGED s
  PROVE  ConfirmInv'
<1>1. IsDevice(dev') /\ dev'.redcon = r BY Zenon DEF Becomes, ConfirmInv, IsDevice
<1>2. had \subseteq had' /\ (s.at \in {"confirm", "report"} => r \in had') BY Zenon DEF Becomes
<1> QED BY Zenon, <1>1, <1>2 DEF ConfirmInv, HistoryCurrent, SuccessIsConfirmed

\* Handlers of advertisements and connections.
LEMMA AdvertisementKeeps ==
  ASSUME ConfirmInv, HandleAdvertisement \/ FinishConnect
  PROVE  ConfirmInv'
<1>0. IsSession(s) /\ IsDevice(dev) BY Zenon DEF ConfirmInv
<1>1. CASE HandleAdvertisement
  <2>1. had' = had /\ SameRedcon BY Zenon, <1>0, <1>1, DeviceKeeps DEF HandleAdvertisement
  <2>2. CASE s' \in {s, Observed(s)}
    <3>1. Stays(s, s') BY Zenon, <1>0, <2>2, HelpersStay, EditStays
    <3> QED BY Zenon, <2>1, <3>1, QuietKeeps
  <2>3. CASE s' = [Observed(s) EXCEPT !.at = "connect"]
    <3>1. IsSession(Observed(s)) BY Zenon, <1>0, HelpersStay DEF Stays
    <3>2. IsSession(s') /\ s'.at = "connect" BY Zenon, <2>3, <3>1, EditMoves
    <3> QED BY Zenon, <2>1, <3>2, QuietKeeps DEF SameRedcon
  <2> QED BY Zenon, <1>1, <2>2, <2>3 DEF HandleAdvertisement
<1>2. CASE FinishConnect
  <2> DEFINE t == [s EXCEPT !.at = "idle", !.connected = FALSE]
  <2>1. IsSession(t) /\ t.at = "idle" BY Zenon, <1>0 DEF IsSession
  <2>2. /\ ConnectedAndRead(t) \/ s' = t \/ UnavailableUnlessRecovering(t)
        /\ dev' = [dev EXCEPT !.link = TRUE] \/ UNCHANGED dev \/ NotConnected
    BY Zenon, <1>2 DEF FinishConnect, ConnectedAndRead
  <2> HIDE DEF t
  <2>3. IsSession(s') /\ s'.at = "idle"
    BY Zenon, <2>1, <2>2, HelpersStay DEF Stays
  <2>4. SameRedcon BY Zenon, <1>0, <2>2, DeviceKeeps
  <2> QED BY Zenon, <2>3, <2>4, QuietKeeps DEF SameRedcon
<1> QED BY Zenon, <1>1, <1>2

\* A command up to its write.
LEMMA CommandKeeps ==
  ASSUME ConfirmInv, AcceptCommand \/ ConnectForCommand \/ DeadlineExpired
  PROVE  ConfirmInv'
<1>0. IsSession(s) /\ IsDevice(dev) BY Zenon DEF ConfirmInv
<1>1. CASE AcceptCommand
  <2> DEFINE t == [s EXCEPT !.at = "command", !.target = command, !.attempt = 1]
  <2>1. IsSession(t) /\ t.at = "command" BY Zenon, <1>0 DEF IsSession
  <2>2. s' \in {t, Result(t)} /\ UNCHANGED dev BY Zenon, <1>1 DEF AcceptCommand
  <2> HIDE DEF t
  <2>3. IsSession(s') /\ s'.at \in {"command", "idle"} BY Zenon, <2>1, <2>2, HelpersStay
  <2> QED BY Zenon, <1>0, <2>2, <2>3, QuietKeeps
<1>2. CASE ConnectForCommand
  <2> DEFINE gone == [s EXCEPT !.connected = FALSE]
             ready == [s EXCEPT !.at = "write"]
  <2>1. s.at = "command" BY Zenon, <1>2 DEF ConnectForCommand, Alone
  <2>2. IsSession(gone) /\ gone.at = "command" BY Zenon, <1>0, <2>1, EditStays DEF Stays
  <2>3. IsSession(ready) /\ ready.at = "write" BY Zenon, <1>0, EditMoves
  <2>4. /\ \/ Read(ready) \/ ConnectedAndRead(ready) \/ s' = gone
           \/ \E t \in Rechecked(gone) : Unavailable(Result(t))
        /\ dev' = [dev EXCEPT !.link = TRUE] \/ UNCHANGED dev \/ NotConnected
    BY Zenon, <1>2 DEF ConnectForCommand, ConnectedAndRead
  <2> HIDE DEF gone, ready
  <2>5. (\E t \in Rechecked(gone) : Unavailable(Result(t))) => IsSession(s') /\ s'.at = "idle"
    BY Zenon, <2>2, GivenUpIdle
  <2>6. IsSession(s') /\ s'.at \in {"write", "command", "idle"}
    BY Zenon, <2>2, <2>3, <2>4, <2>5, HelpersStay DEF Stays
  <2>7. SameRedcon BY Zenon, <1>0, <2>4, DeviceKeeps
  <2> QED BY Zenon, <2>6, <2>7, QuietKeeps DEF SameRedcon
<1>3. CASE DeadlineExpired
  <2>1. s' = Result(s) /\ UNCHANGED dev BY Zenon, <1>3 DEF DeadlineExpired
  <2> QED BY Zenon, <1>0, <2>1, HelpersStay, QuietKeeps
<1> QED BY Zenon, <1>1, <1>2, <1>3

\* The write begins the history with where the device is.
LEMMA WriteKeeps ==
  ASSUME ConfirmInv, WriteRedcon
  PROVE  ConfirmInv'
<1>0. IsSession(s) /\ IsDevice(dev) BY Zenon DEF ConfirmInv
<1>1. CASE s' = [s EXCEPT !.at = "confirm"] /\ had' = {dev.redcon} /\ UNCHANGED dev
  <2>1. IsSession(s') /\ s'.at = "confirm" BY Zenon, <1>0, <1>1, EditMoves
  <2> QED BY Zenon, <1>0, <1>1, <2>1 DEF ConfirmInv, HistoryCurrent, SuccessIsConfirmed
<1>2. CASE /\ Disconnected
           /\ LET t == [s EXCEPT !.connected = FALSE] IN
                \/ s' = [t EXCEPT !.at = "command", !.attempt = @ + 1]
                \/ Unavailable(Result(t))
  <2> DEFINE t == [s EXCEPT !.connected = FALSE]
  <2>1. IsSession(t) BY Zenon, <1>0, EditStays DEF Stays
  <2>2. s' = [t EXCEPT !.at = "command", !.attempt = @ + 1] \/ Unavailable(Result(t))
    BY Zenon, <1>2
  <2> HIDE DEF t
  <2>3. IsSession(Result(t)) /\ Result(t).at = "idle" BY Zenon, <2>1, HelpersStay
  <2>4. Unavailable(Result(t)) => IsSession(s') /\ s'.at = "idle"
    BY Zenon, <2>3, HelpersStay DEF Stays
  <2>5. s' = [t EXCEPT !.at = "command", !.attempt = @ + 1] => IsSession(s') /\ s'.at = "command"
    BY Zenon, <2>1 DEF IsSession
  <2>6. SameRedcon BY Zenon, <1>0, <1>2, DeviceKeeps
  <2> QED BY Zenon, <2>2, <2>4, <2>5, <2>6, QuietKeeps DEF SameRedcon
<1> QED BY Zenon, <1>1, <1>2 DEF WriteRedcon

\* A read that confirms is of the device as it is now, which the history has.
LEMMA ConfirmKeeps ==
  ASSUME ConfirmInv, ConfirmCommandState \/ ReportSuccess
  PROVE  ConfirmInv'
<1>0. IsSession(s) /\ IsDevice(dev) BY Zenon DEF ConfirmInv
<1>1. IsSession(Result(s)) /\ Result(s).at = "idle" BY Zenon, <1>0, HelpersStay
<1>2. CASE ReportSuccess BY Zenon, <1>0, <1>1, <1>2, QuietKeeps DEF ReportSuccess
<1>3. CASE ConfirmCommandState
  <2>0. s.at = "confirm" /\ had' = IF s'.at = "idle" THEN {} ELSE had
    BY Zenon, <1>3 DEF ConfirmCommandState
  <2>1. CASE /\ UNCHANGED dev /\ dev.redcon = s.target
             /\ Read([s EXCEPT !.at = "report", !.guarded = s.target])
    <3> DEFINE t == [s EXCEPT !.at = "report", !.guarded = s.target]
    <3>1. IsSession(t) /\ t.at = "report" /\ t.target = s.target BY Zenon, <1>0 DEF IsSession
    <3>2. Read(t) BY Zenon, <2>1
    <3> HIDE DEF t
    <3>3. IsSession(s') /\ s'.at = "report" /\ s'.target = s.target
      BY Zenon, <3>1, <3>2, HelpersStay DEF Stays
    <3>4. had' = had /\ dev.redcon \in had
      BY Zenon, <2>0, <3>3 DEF ConfirmInv, HistoryCurrent
    <3> QED BY Zenon, <1>0, <2>1, <3>3, <3>4 DEF ConfirmInv, HistoryCurrent, SuccessIsConfirmed
  <2>2. CASE UNCHANGED dev /\ Read(s)
    <3>1. Stays(s, s') BY Zenon, <1>0, <2>2, HelpersStay
    <3>2. had' = had BY Zenon, <2>0, <3>1 DEF Stays
    <3>3. SameRedcon BY Zenon, <1>0, <2>2, DeviceKeeps
    <3> QED BY Zenon, <3>1, <3>2, <3>3, QuietKeeps
  <2>3. CASE UNCHANGED dev /\ Read(Result(s))
    <3>1. IsSession(s') /\ s'.at = "idle" BY Zenon, <1>1, <2>3, HelpersStay DEF Stays
    <3> QED BY Zenon, <1>0, <2>3, <3>1, QuietKeeps
  <2>4. CASE /\ Disconnected
             /\ \E t \in Rechecked([s EXCEPT !.connected = FALSE]) : Unavailable(Result(t))
    <3>1. IsSession([s EXCEPT !.connected = FALSE]) BY Zenon, <1>0, EditStays DEF Stays
    <3>2. IsSession(s') /\ s'.at = "idle" BY Zenon, <2>4, <3>1, GivenUpIdle
    <3>3. SameRedcon BY Zenon, <1>0, <2>4, DeviceKeeps
    <3> QED BY Zenon, <3>2, <3>3, QuietKeeps DEF SameRedcon
  <2> QED BY Zenon, <1>3, <2>1, <2>2, <2>3, <2>4 DEF ConfirmCommandState
<1> QED BY Zenon, <1>2, <1>3

\* The tickers act on an idle session.
LEMMA TickerKeeps ==
  ASSUME ConfirmInv,
         \/ ConnectedHeartbeat \/ DrainNotifications \/ FindDisconnected \/ CheckStale
         \/ PublishAggregateSample
  PROVE  ConfirmInv'
<1> DEFINE t == [s EXCEPT !.connected = FALSE]
<1>0. IsSession(s) /\ IsDevice(dev) /\ IsSession(t) /\ Stays(s, s) /\ Stays(s, t)
  BY Zenon, EditStays DEF ConfirmInv, Stays
<1>1. had' = had
  BY Zenon DEF ConnectedHeartbeat, DrainNotifications, FindDisconnected, CheckStale,
               PublishAggregateSample, Alone
<1>2. UNCHANGED dev \/ Disconnected
  BY Zenon DEF ConnectedHeartbeat, DrainNotifications, FindDisconnected, CheckStale,
               PublishAggregateSample
<1>3. \/ Read(s) \/ UnavailableUnlessRecovering(t) \/ UNCHANGED s \/ Unavailable(s)
      \/ s' = Observed(s) \/ \E v : s' = [s EXCEPT !.lastRedcon = v]
  BY Zenon DEF ConnectedHeartbeat, DrainNotifications, FindDisconnected, CheckStale,
               PublishAggregateSample
<1> HIDE DEF t
<1>4. Stays(s, s')
  <2>1. Stays(t, s') => Stays(s, s') BY Zenon, <1>0 DEF Stays
  <2>2. (\E v : s' = [s EXCEPT !.lastRedcon = v]) => Stays(s, s')
    BY Zenon, <1>0 DEF Stays, IsSession
  <2>3. UNCHANGED s => Stays(s, s') BY Zenon, <1>0
  <2> QED BY Zenon, <1>0, <1>3, <2>1, <2>2, <2>3, HelpersStay
<1>5. SameRedcon BY Zenon, <1>0, <1>2, DeviceKeeps
<1> QED BY Zenon, <1>1, <1>4, <1>5, QuietKeeps

\* The device, the link, the clock, and what comes and goes around the session.
LEMMA OutsideKeeps ==
  ASSUME ConfirmInv,
         \/ Advertises \/ WriteArrives \/ LinkLost \/ AdvertisementAges \/ GuardEnds
         \/ \E r \in Redcons : DeviceChanges(r) \/ DispatchCommand(r)
         \/ StopSession \/ StartSession \/ OldPublishes \/ OldConnects \/ OldEnds
  PROVE  ConfirmInv'
<1>0. IsSession(s) /\ IsDevice(dev) /\ Stays(s, s)
  BY Zenon, EditStays DEF ConfirmInv
<1>1. CASE WriteArrives \/ \E r \in Redcons : DeviceChanges(r)
  <2>1. UNCHANGED s /\ ((\E r : Becomes(r)) \/ UNCHANGED <<dev, had>>)
    BY Zenon, <1>1 DEF WriteArrives, DeviceChanges
  <2>2. CASE UNCHANGED <<dev, had>>
    BY Zenon, <1>0, <2>1, <2>2, DeviceKeeps, QuietKeeps
  <2> QED BY Zenon, <2>1, <2>2, BecomesKeeps
<1>2. CASE \/ Advertises \/ LinkLost \/ AdvertisementAges \/ GuardEnds
           \/ (\E r \in Redcons : DispatchCommand(r))
           \/ OldPublishes \/ OldConnects \/ OldEnds
  <2>1. had' = had
    BY Zenon, <1>2 DEF Advertises, LinkLost, AdvertisementAges, GuardEnds, DispatchCommand,
                       OldPublishes, OldConnects, OldEnds
  <2>2. \/ UNCHANGED dev \/ Disconnected
        \/ \E v : dev' = [dev EXCEPT !.heard = v] \/ dev' = [dev EXCEPT !.link = v]
    BY Zenon, <1>2 DEF Advertises, LinkLost, AdvertisementAges, GuardEnds, DispatchCommand,
                       OldPublishes, OldConnects, OldEnds
  <2>3. UNCHANGED s \/ \E v : s' = [s EXCEPT !.ad = v] \/ s' = [s EXCEPT !.guarded = v]
    BY Zenon, <1>2 DEF Advertises, LinkLost, AdvertisementAges, GuardEnds, DispatchCommand,
                       OldPublishes, OldConnects, OldEnds
  <2>4. Stays(s, s')
    <3>1. UNCHANGED s => Stays(s, s') BY Zenon, <1>0
    <3>2. (\E v : s' = [s EXCEPT !.ad = v] \/ s' = [s EXCEPT !.guarded = v]) => Stays(s, s')
      BY Zenon, <1>0 DEF Stays, IsSession
    <3> QED BY Zenon, <2>3, <3>1, <3>2
  <2>5. SameRedcon BY Zenon, <1>0, <2>2, DeviceKeeps
  <2> QED BY Zenon, <2>1, <2>4, <2>5, QuietKeeps
<1>3. CASE StopSession \/ StartSession
  <2>1. s' \in {NewSession, [NewSession EXCEPT !.on = FALSE]} /\ UNCHANGED dev
    BY Zenon, <1>3 DEF StopSession, StartSession
  <2>2. IsSession(s') /\ s'.at = "idle" BY <2>1 DEF NewSession, IsSession
  <2> QED BY Zenon, <1>0, <2>1, <2>2, QuietKeeps
<1> QED BY Zenon, <1>1, <1>2, <1>3

-----------------------------------------------------------------------------
(* The theorem.                                                             *)

\* Every command that is reported as succeeded was written, and the device was at
\* its target after that, whatever the device, the link and a session that was
\* stopped do meanwhile.
THEOREM SuccessIsConfirmedAlways == Spec => []SuccessIsConfirmed
<1>1. Init => ConfirmInv
  <2> SUFFICES ASSUME Init PROVE ConfirmInv OBVIOUS
  <2>1. IsSession(s) /\ s.at = "idle" BY Zenon DEF Init, NewSession, IsSession
  <2>2. IsDevice(dev) BY Zenon DEF Init, IsDevice
  <2> QED BY Zenon, <2>1, <2>2 DEF ConfirmInv, HistoryCurrent, SuccessIsConfirmed
<1>2. ConfirmInv /\ [Next]_bleVars => ConfirmInv'
  <2> SUFFICES ASSUME ConfirmInv, [Next]_bleVars PROVE ConfirmInv' OBVIOUS
  <2>1. CASE UNCHANGED bleVars
    BY Zenon, <2>1 DEF bleVars, ConfirmInv, HistoryCurrent, SuccessIsConfirmed
  <2>2. CASE Handler
    BY Zenon, <2>2, AdvertisementKeeps, CommandKeeps, WriteKeeps, ConfirmKeeps, TickerKeeps
       DEF Handler
  <2> QED BY Zenon, <2>1, <2>2, OutsideKeeps DEF Next
<1>3. ConfirmInv => SuccessIsConfirmed BY Zenon DEF ConfirmInv
<1> QED BY <1>1, <1>2, <1>3, PTL DEF Spec
===============================================================================
