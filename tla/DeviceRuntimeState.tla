------------------------- MODULE DeviceRuntimeState -------------------------
(***************************************************************************)
(* What the Sparkplug manager knows of one device                          *)
(* (rig/internal/manager/manager.go, DeviceRuntimeState): the last state   *)
(* of every adapter, ordered by the adapters' own timestamps, the snapshot *)
(* derived from the states that are still fresh, and the lifecycle message *)
(* DecidePublication derives from the snapshot.                            *)
(*                                                                         *)
(* The capability "control" stands for mcp or mavlink, whichever the type  *)
(* of the device declares.  No manifest has metric rules, so a REDCON      *)
(* level is decided by capabilities alone.                                 *)
(***************************************************************************)
EXTENDS Integers, FiniteSets

CONSTANTS
  Transports,  \* adapters of the watch layer (BLE, Thread, mac daemon)
  Boards,      \* adapters that publish the board's retained state
  Link,        \* link capability of the device type: "ble", "thread" or "none"
  Inventory,   \* capabilities the device type declares
  Rules,       \* commandable REDCON level -> the capabilities it requires
  TTL,         \* StateTTLMS in ticks
  MaxTime      \* bound: ticks in one behaviour

Adapters  == Transports \cup Boards
BoardCaps == {"board", "control", "video"}
Caps      == {"sparkplug", "ble", "thread", "power", "agent"} \cup BoardCaps

ASSUME InventoryAssumption ==
  /\ Transports \cap Boards = {}
  /\ Link \in {"ble", "thread", "none"}
  /\ Inventory \subseteq Caps /\ "sparkplug" \in Inventory
  /\ \E levels \in SUBSET (1..4) : Rules \in [levels -> SUBSET Inventory]
  /\ \A level \in DOMAIN Rules : level < 4 => "power" \in Rules[level]
  /\ TTL \in Nat /\ MaxTime \in Nat

\* Every manifest asks for the board and its control at REDCON 2 and 1.
ASSUME LadderAssumption ==
  \A level \in DOMAIN Rules : level < 3 => {"board", "control"} \subseteq Rules[level]

VARIABLES
  now,                   \* the manager's clock
  adapterStates,         \* s.adapterStates
  born,                  \* s.born
  unavailablePublished,  \* s.unavailablePublished
  lastPublished,         \* s.lastPublishedRedcon and s.lastPublishedCapabilities
  announced              \* history: the last message decided since the last reset

pubVars == <<born, unavailablePublished, lastPublished, announced>>
vars == <<now, adapterStates, pubVars>>

-----------------------------------------------------------------------------
(* Capability states.  redcon is the transport REDCON metric, 0 if absent. *)

Time  == 0..MaxTime
State == [declared : SUBSET Caps, available : SUBSET Caps, redcon : 0..4, at : Time]

\* An adapter that has no entry: Validate admits no state without capabilities.
NoState == [declared |-> {}, available |-> {}, redcon |-> 0, at |-> 0]

LinkCaps  == {Link} \ {"none"}
WatchCaps == {"sparkplug", "power"} \cup LinkCaps

\* A state read or a confirmed command of the watch layer.
DeviceState(redcon, t) ==
  [declared |-> WatchCaps,
   available |-> IF redcon < 4 THEN WatchCaps ELSE WatchCaps \ {"power"},
   redcon |-> redcon, at |-> t]

\* An adapter that lost the device: everything false and no metric.
OfflineState(t) == [declared |-> WatchCaps, available |-> {}, redcon |-> 0, at |-> t]

\* Reachability without device state.  The manager provides for it, whichever
\* adapter sends it.
ScannerState(t) ==
  [declared |-> WatchCaps, available |-> {"sparkplug", "ble"}, redcon |-> 0, at |-> t]

BoardState(available, t) ==
  [declared |-> BoardCaps, available |-> available, redcon |-> 0, at |-> t]

TransportStates ==
  {DeviceState(r, t) : r \in {3, 4}, t \in Time} \cup {OfflineState(t) : t \in Time}
    \cup (IF Link = "ble" THEN {ScannerState(t) : t \in Time} ELSE {})

BoardStates == {BoardState(C, t) : C \in SUBSET BoardCaps, t \in Time}

\* Transports stamp with the rig's clock and a board with its own; both may be
\* delivered late.
Stamped(a, s) == a \in Transports => s.at <= now

Declares(s, c) == c \in s.declared
Has(s, c)      == c \in s.available

ReportsRedcon4(s) ==
  Declares(s, "power") /\ ~Has(s, "power") /\ s.redcon = 4

\* "a transport boundary after which board status must be freshly observed"
InvalidatesBoardEvidence(s) ==
  \/ ReportsRedcon4(s)
  \/ /\ Declares(s, "power") /\ ~Has(s, "power")
     /\ Declares(s, "thread") /\ ~Has(s, "thread")

DeclaresBoardOwned(s) == s.declared \cap BoardCaps # {}

OnlyScannerReachability(s) == s.redcon = 0 /\ s.available = {"sparkplug", "ble"}

CarriesEvidence(s) == s.redcon # 0 \/ s.available \ {"sparkplug", "ble"} # {}

\* stateFreshAt: the age of s seen from t, in either direction.
FreshAt(s, t) == s.at <= t + TTL /\ t <= s.at + TTL

-----------------------------------------------------------------------------
(* Snapshot.                                                               *)

Fresh == {a \in Adapters : adapterStates[a].at + TTL >= now}

\* REDCON 4 evidence that no fresh board state is newer than.
Redcon4Observed ==
  \E a \in Fresh : /\ ReportsRedcon4(adapterStates[a])
                   /\ \A b \in Fresh : DeclaresBoardOwned(adapterStates[b]) =>
                        adapterStates[a].at >= adapterStates[b].at

\* Variant: a capability is reported whatever it depends on.
Ungated(C, head, tail) == C

\* A declared capability that is unavailable takes those built on it along.
Gate(C, head, tail) == IF head \in Inventory \ C THEN C \ tail ELSE C

\* The first two clauses of applyCapabilityDependencyGates: REDCON 4 clears
\* power and board, and without it board evidence implies power.
PowerGate(C) ==
  IF Redcon4Observed THEN C \ ({"power"} \cup BoardCaps)
  ELSE IF "power" \in Inventory /\ C \cap BoardCaps # {} THEN C \cup {"power"} ELSE C

CapabilityGates(C) ==
  LET power == Gate(PowerGate(C), "power", BoardCaps)
      board == Gate(power, "board", {"control", "video"})
  IN  Gate(board, "control", {"video"})

\* Variant: expired states still count.
EvidenceEver == Inventory \cap UNION {adapterStates[a].available : a \in Adapters}

Evidence == Inventory \cap UNION {adapterStates[a].available : a \in Fresh}

\* SelectBestRedconWithMetrics: the lowest level whose capabilities are there;
\* DecidePublication reports 4 when there is none.
BestRedcon(C) ==
  LET ready == {level \in DOMAIN Rules : Rules[level] \subseteq C}
  IN  IF ready = {} THEN 4 ELSE CHOOSE l \in ready : \A k \in ready : l <= k

WithAgent(C) ==
  IF "agent" \in Inventory /\ "sparkplug" \in C /\ BestRedcon(C) <= 2
  THEN C \cup {"agent"} ELSE C \ {"agent"}

Snapshot ==
  LET C == CapabilityGates(Evidence)
  IN  [redcon |-> BestRedcon(C), caps |-> WithAgent(C)]

SparkplugAvailable == "sparkplug" \in Snapshot.caps

Report == [redcon : 1..4, caps : SUBSET Caps]
NoReport == [redcon |-> 0, caps |-> {}]
Dead     == [redcon |-> 5, caps |-> {}]

TypeOK ==
  /\ now \in Time
  /\ adapterStates \in [Adapters -> State]
  /\ born \in BOOLEAN /\ unavailablePublished \in BOOLEAN
  /\ lastPublished \in Report \cup {NoReport}
  /\ announced \in Report \cup {NoReport, Dead}

Init ==
  /\ now = 0
  /\ adapterStates = [a \in Adapters |-> NoState]
  /\ born = FALSE /\ unavailablePublished = FALSE
  /\ lastPublished = NoReport /\ announced = NoReport

-----------------------------------------------------------------------------
(* ObserveState, one action per way through it.                            *)

Ignored(a, s) ==
  OnlyScannerReachability(s) /\ CarriesEvidence(adapterStates[a]) /\ FreshAt(adapterStates[a], s.at)

ObserveIgnored(a, s) ==
  /\ Stamped(a, s) /\ Ignored(a, s)
  /\ UNCHANGED vars

\* Variant: an invalidating state leaves the board's older evidence in place.
ObserveInvalidatingKeepsBoard(a, s) ==
  /\ Stamped(a, s) /\ ~Ignored(a, s) /\ InvalidatesBoardEvidence(s)
  /\ adapterStates' = [adapterStates EXCEPT ![a] = s]
  /\ UNCHANGED <<now, pubVars>>

ObserveInvalidating(a, s) ==
  /\ Stamped(a, s) /\ ~Ignored(a, s) /\ InvalidatesBoardEvidence(s)
  /\ adapterStates' =
       [b \in Adapters |->
          IF b = a THEN s
          ELSE IF DeclaresBoardOwned(adapterStates[b]) /\ adapterStates[b].at <= s.at THEN NoState
          ELSE adapterStates[b]]
  /\ UNCHANGED <<now, pubVars>>

Outdated(s) ==
  \E b \in Adapters : /\ InvalidatesBoardEvidence(adapterStates[b])
                      /\ adapterStates[b].at >= s.at

ObserveOutdatedBoard(a, s) ==
  /\ Stamped(a, s) /\ ~Ignored(a, s) /\ ~InvalidatesBoardEvidence(s)
  /\ DeclaresBoardOwned(s) /\ Outdated(s)
  /\ adapterStates' = [adapterStates EXCEPT ![a] = NoState]
  /\ UNCHANGED <<now, pubVars>>

ObserveStore(a, s) ==
  /\ Stamped(a, s) /\ ~Ignored(a, s) /\ ~InvalidatesBoardEvidence(s)
  /\ ~(DeclaresBoardOwned(s) /\ Outdated(s))
  /\ adapterStates' = [adapterStates EXCEPT ![a] = s]
  /\ UNCHANGED <<now, pubVars>>

ObserveState(a, s) ==
  \/ ObserveIgnored(a, s) \/ ObserveInvalidating(a, s)
  \/ ObserveOutdatedBoard(a, s) \/ ObserveStore(a, s)

-----------------------------------------------------------------------------
(* DecidePublication.                                                      *)

DecideDeath ==
  /\ ~SparkplugAvailable /\ (born \/ ~unavailablePublished)
  /\ born' = FALSE /\ unavailablePublished' = TRUE
  /\ lastPublished' = NoReport
  /\ announced' = Dead
  /\ UNCHANGED <<now, adapterStates>>

\* DBIRTH for a device that is not born, DDATA for a snapshot that changed.
DecideReport ==
  /\ SparkplugAvailable /\ (~born \/ lastPublished # Snapshot)
  /\ born' = TRUE /\ unavailablePublished' = FALSE
  /\ lastPublished' = Snapshot
  /\ announced' = Snapshot
  /\ UNCHANGED <<now, adapterStates>>

\* The decision is to publish nothing.
Suppressed ==
  IF SparkplugAvailable THEN born /\ lastPublished = Snapshot
                        ELSE ~born /\ unavailablePublished

DecideNone ==
  /\ Suppressed
  /\ unavailablePublished' = ~SparkplugAvailable
  /\ lastPublished' = IF SparkplugAvailable THEN lastPublished ELSE NoReport
  /\ UNCHANGED <<now, adapterStates, born, announced>>

DecidePublication == DecideDeath \/ DecideReport \/ DecideNone

\* Variant: a reset leaves the death of an unavailable device as published.
ResetPublicationKeepsDeath ==
  /\ born' = FALSE /\ lastPublished' = NoReport /\ announced' = NoReport
  /\ UNCHANGED <<now, adapterStates, unavailablePublished>>

\* Callers reset after a failed publication, a reconnect, a changed inventory:
\* whatever was announced before may not have arrived.
ResetPublication ==
  /\ born' = FALSE /\ unavailablePublished' = FALSE
  /\ lastPublished' = NoReport /\ announced' = NoReport
  /\ UNCHANGED <<now, adapterStates>>

Tick ==
  /\ now < MaxTime /\ now' = now + 1
  /\ UNCHANGED <<adapterStates, pubVars>>

Next ==
  \/ \E a \in Transports : \E s \in TransportStates : ObserveState(a, s)
  \/ \E a \in Boards : \E s \in BoardStates : ObserveState(a, s)
  \/ DecidePublication \/ ResetPublication \/ Tick

Spec == Init /\ [][Next]_vars

-----------------------------------------------------------------------------
(* Properties.                                                             *)

\* s is newer than every invalidating state on record.
ObservedSince(s) ==
  \A a \in Adapters : InvalidatesBoardEvidence(adapterStates[a]) => adapterStates[a].at < s.at

\* ObserveState's ordering: every stored board state is newer than every
\* stored transport state that invalidates board evidence.
EvidenceOrder ==
  \A b \in Adapters : DeclaresBoardOwned(adapterStates[b]) => ObservedSince(adapterStates[b])

\* Fresh REDCON 4 evidence of any transport clears power and all that is built
\* on it, whatever another adapter says, unless the board spoke after every
\* sleep or loss of the transport that is still on record.
SleepClears ==
  (\E a \in Fresh : ReportsRedcon4(adapterStates[a])) =>
    \/ Snapshot.caps \cap ({"power"} \cup BoardCaps) = {} /\ Snapshot.redcon = 4
    \/ \E b \in Boards \cap Fresh : ObservedSince(adapterStates[b])

\* A board-owned capability in the snapshot was reported, within the TTL, by a
\* board state newer than every sleep or loss of the transport on record.
BoardEvidenceCurrent ==
  \A c \in Snapshot.caps \cap BoardCaps :
    \E b \in Boards \cap Fresh : Has(adapterStates[b], c) /\ ObservedSince(adapterStates[b])

\* Losing a Thread device is a boundary too, although its offline state has no
\* REDCON metric: no stored board state is as old as the loss.
LossInvalidates ==
  \A a \in Transports, b \in Boards :
    /\ Declares(adapterStates[a], "thread") /\ adapterStates[a].available = {}
    /\ DeclaresBoardOwned(adapterStates[b])
    => adapterStates[a].at < adapterStates[b].at

\* "Cloud agent availability follows device authority": it is offered only while
\* a fresh board state that is newer than the last sleep or loss offers control.
AgentFollowsAuthority ==
  "agent" \in Snapshot.caps =>
    /\ {"power", "board", "control"} \subseteq Snapshot.caps
    /\ \E b \in Boards \cap Fresh :
         Has(adapterStates[b], "control") /\ ObservedSince(adapterStates[b])

\* The dependency gates leave a chain: video needs control, control needs the
\* board, the board needs power, as far as the type declares them.
LadderCoherent ==
  LET has(c) == c \in Inventory => c \in Snapshot.caps IN
  /\ "video" \in Snapshot.caps => has("control") /\ has("board") /\ has("power")
  /\ "control" \in Snapshot.caps => has("board") /\ has("power")
  /\ "board" \in Snapshot.caps => has("power")

\* "unchanged-state suppression": where DecidePublication would publish nothing,
\* a message decided since the last reset says what the snapshot says now, in
\* whatever order evidence, its expiry, births, deaths and resets came.
SuppressionSound ==
  Suppressed => announced = (IF SparkplugAvailable THEN Snapshot ELSE Dead)

=============================================================================
