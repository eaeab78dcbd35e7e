---------------------- MODULE DeviceRuntimeStateProofs ----------------------
(***************************************************************************)
(* The safety properties of DeviceRuntimeState for any number of adapters, *)
(* any manifest, any TTL and any length of run.  ShapeInv says which       *)
(* adapter can hold which kind of state; PubInv ties the flags of          *)
(* DecidePublication to the last message.                                  *)
(***************************************************************************)
EXTENDS DeviceRuntimeState, TLAPS

\* What ShapeInv says of the state s of adapter a.
Shape(a, s) ==
  /\ s.available \subseteq s.declared
  /\ a \in Transports => s.declared \cap BoardCaps = {}
  /\ a \in Transports /\ "thread" \in s.declared => "power" \in s.declared
  /\ a \in Boards => s.declared \subseteq BoardCaps

ShapeInv == \A a \in Adapters : Shape(a, adapterStates[a])

PubInv ==
  /\ born => announced = lastPublished
  /\ ~born /\ unavailablePublished => announced = Dead

IInv == TypeOK /\ ShapeInv /\ EvidenceOrder /\ PubInv

-----------------------------------------------------------------------------
(* Lemmas on the inputs and the snapshot.                                  *)

\* Every state a transport sends is a State and declares nothing the board owns.
LEMMA TransportInput ==
  ASSUME NEW a \in Transports, NEW s \in TransportStates
  PROVE  s \in State /\ Shape(a, s) /\ ~DeclaresBoardOwned(s)
<1>1. WatchCaps \subseteq Caps /\ WatchCaps \cap BoardCaps = {} /\ "power" \in WatchCaps
  BY Zenon, InventoryAssumption DEF WatchCaps, LinkCaps, Caps, BoardCaps
<1>2. a \notin Boards
  BY Zenon, InventoryAssumption
<1>3. CASE \E r \in {3, 4}, t \in Time : s = DeviceState(r, t)
  BY <1>1, <1>2, <1>3 DEF DeviceState, State, Shape, DeclaresBoardOwned
<1>4. CASE \E t \in Time : s = OfflineState(t)
  BY <1>1, <1>2, <1>4 DEF OfflineState, State, Shape, DeclaresBoardOwned
<1>5. CASE Link = "ble" /\ \E t \in Time : s = ScannerState(t)
  <2>1. {"sparkplug", "ble"} \subseteq WatchCaps
    BY Zenon, <1>5 DEF WatchCaps, LinkCaps
  <2> QED
    BY <1>1, <1>2, <1>5, <2>1 DEF ScannerState, State, Shape, DeclaresBoardOwned
<1> QED
  BY <1>3, <1>4, <1>5 DEF TransportStates

\* Every state a board sends is a State that says nothing of power.
LEMMA BoardInput ==
  ASSUME NEW a \in Boards, NEW s \in BoardStates
  PROVE  s \in State /\ Shape(a, s) /\ ~InvalidatesBoardEvidence(s)
<1>1. PICK C \in SUBSET BoardCaps, t \in Time : s = BoardState(C, t)
  BY DEF BoardStates
<1>2. a \notin Transports
  BY Zenon, InventoryAssumption
<1>3. BoardCaps \subseteq Caps /\ "power" \notin BoardCaps
  BY Zenon DEF Caps, BoardCaps
<1> QED
  BY <1>1, <1>2, <1>3
  DEF BoardState, State, Shape, InvalidatesBoardEvidence, ReportsRedcon4, Declares

\* No entry is a State of every adapter's shape and of no consequence.
LEMMA NoStateFacts ==
  /\ NoState \in State
  /\ \A a : Shape(a, NoState)
  /\ ~DeclaresBoardOwned(NoState) /\ ~InvalidatesBoardEvidence(NoState)
BY InventoryAssumption
DEF NoState, State, Time, Shape, DeclaresBoardOwned, InvalidatesBoardEvidence,
    ReportsRedcon4, Declares

\* The gates only take capabilities away, except that they add power.
LEMMA GatesBound ==
  ASSUME NEW C \in SUBSET Inventory
  PROVE  /\ CapabilityGates(C) \subseteq Inventory
         /\ CapabilityGates(C) \subseteq C \cup {"power"}
<1>1. PowerGate(C) \subseteq C \cup {"power"} /\ PowerGate(C) \subseteq Inventory
  BY Zenon DEF PowerGate
<1> QED
  BY Zenon, <1>1 DEF CapabilityGates, Gate

\* The level reported is a REDCON level.
LEMMA BestRedconLevel ==
  ASSUME NEW C \in SUBSET Inventory
  PROVE  /\ BestRedcon(C) \in 1..4
         /\ BestRedcon(C) < 4 =>
              BestRedcon(C) \in DOMAIN Rules /\ Rules[BestRedcon(C)] \subseteq C
<1> DEFINE ready == {level \in DOMAIN Rules : Rules[level] \subseteq C}
<1>1. ready \subseteq 1..4
  BY Zenon, InventoryAssumption
<1>2. CASE ready = {}
  BY <1>2 DEF BestRedcon
<1>3. CASE ready # {}
  <2>1. \E l \in ready : \A k \in ready : l <= k
    <3> HIDE DEF ready
    <3>1. \A k \in ready : k = 1 \/ k = 2 \/ k = 3 \/ k = 4
      BY <1>1
    <3>2. CASE 1 \in ready
      BY <3>1, <3>2
    <3>3. CASE 1 \notin ready /\ 2 \in ready
      BY <3>1, <3>3
    <3>4. CASE 1 \notin ready /\ 2 \notin ready /\ 3 \in ready
      BY <3>1, <3>4
    <3>5. CASE 1 \notin ready /\ 2 \notin ready /\ 3 \notin ready
      BY <1>3, <3>1, <3>5
    <3> QED
      BY Zenon, <3>2, <3>3, <3>4, <3>5
  <2>2. BestRedcon(C) \in ready
    BY Zenon, <1>3, <2>1 DEF BestRedcon
  <2> QED
    BY Zenon, <1>1, <2>2
<1> QED
  BY Zenon, <1>2, <1>3

\* The snapshot is a report.
LEMMA SnapshotType == Snapshot \in Report
<1>1. Evidence \in SUBSET Inventory
  BY Zenon DEF Evidence
<1>2. CapabilityGates(Evidence) \in SUBSET Inventory
  BY Zenon, <1>1, GatesBound
<1>3. WithAgent(CapabilityGates(Evidence)) \subseteq Inventory
  BY Zenon, <1>2 DEF WithAgent
<1>4. BestRedcon(CapabilityGates(Evidence)) \in 1..4
  BY Zenon, <1>2, BestRedconLevel
<1> QED
  BY Zenon, <1>3, <1>4, InventoryAssumption DEF Snapshot, Report

-----------------------------------------------------------------------------
(* The inductive invariant, one step per action.                           *)

\* ObserveState keeps the order of board evidence and transport boundaries.
LEMMA ObserveStep ==
  ASSUME IInv, NEW a \in Adapters, NEW s \in State, Shape(a, s),
         ~DeclaresBoardOwned(s) \/ ~InvalidatesBoardEvidence(s),
         ObserveState(a, s)
  PROVE  IInv'
<1> USE DEF IInv
<1>1. UNCHANGED <<now, pubVars>>
  BY Zenon DEF ObserveState, ObserveIgnored, ObserveInvalidating, ObserveOutdatedBoard,
         ObserveStore, vars
<1>2. PubInv'
  BY Zenon, <1>1 DEF PubInv, pubVars
<1>3. \A b \in Adapters : \/ adapterStates'[b] = adapterStates[b]
                          \/ adapterStates'[b] = NoState
                          \/ b = a /\ adapterStates'[b] = s
  BY Zenon DEF ObserveState, ObserveIgnored, ObserveInvalidating, ObserveOutdatedBoard,
         ObserveStore, vars, TypeOK
<1>4. adapterStates' \in [Adapters -> State]
  <2>1. \E f : adapterStates' = [b \in Adapters |-> f[b]]
    BY Zenon DEF ObserveState, ObserveIgnored, ObserveInvalidating, ObserveOutdatedBoard,
           ObserveStore, vars, TypeOK
  <2> QED
    BY Zenon, <1>3, <2>1, NoStateFacts DEF TypeOK
<1>5. TypeOK'
  BY Zenon, <1>1, <1>4 DEF TypeOK, pubVars
<1>6. ShapeInv'
  BY Zenon, <1>3, NoStateFacts DEF ShapeInv
<1>7. EvidenceOrder'
  <2> SUFFICES ASSUME NEW b \in Adapters, DeclaresBoardOwned(adapterStates'[b]),
                      NEW c \in Adapters, InvalidatesBoardEvidence(adapterStates'[c])
               PROVE  adapterStates'[c].at < adapterStates'[b].at
    BY Zenon DEF EvidenceOrder, ObservedSince, DeclaresBoardOwned, InvalidatesBoardEvidence,
           ReportsRedcon4, Declares, Has
  <2>1. adapterStates'[b] # NoState /\ adapterStates'[c] # NoState
    BY Zenon, NoStateFacts
  <2>2. CASE adapterStates'[b] = adapterStates[b] /\ adapterStates'[c] = adapterStates[c]
    BY Zenon, <2>2 DEF EvidenceOrder, ObservedSince
  <2>3. CASE c = a /\ adapterStates'[c] = s /\ adapterStates'[b] = adapterStates[b] /\ b # a
    <3>1. InvalidatesBoardEvidence(s)
      BY Zenon, <2>3
    <3>2. \/ ObserveIgnored(a, s)
          \/ ObserveInvalidating(a, s)
      BY Zenon, <3>1 DEF ObserveState, ObserveOutdatedBoard, ObserveStore
    <3>3. CASE ObserveIgnored(a, s)
      BY Zenon, <2>2, <2>3, <3>3 DEF ObserveIgnored, vars
    <3>4. CASE ObserveInvalidating(a, s)
      <4>1. ~(DeclaresBoardOwned(adapterStates[b]) /\ adapterStates[b].at <= s.at)
        BY Zenon, <2>1, <2>3, <3>4 DEF ObserveInvalidating
      <4>2. adapterStates[b].at \in Int /\ s.at \in Int
        BY InventoryAssumption DEF TypeOK, State, Time
      <4> QED
        BY <2>3, <4>1, <4>2
    <3> QED
      BY Zenon, <3>2, <3>3, <3>4
  <2>4. CASE b = a /\ adapterStates'[b] = s /\ adapterStates'[c] = adapterStates[c] /\ c # a
    <3>1. DeclaresBoardOwned(s) /\ ~InvalidatesBoardEvidence(s)
      BY Zenon, <2>4
    <3>2. ObserveIgnored(a, s) \/ ObserveOutdatedBoard(a, s) \/ ObserveStore(a, s)
      BY Zenon, <3>1 DEF ObserveState, ObserveInvalidating
    <3>3. CASE ObserveIgnored(a, s)
      BY Zenon, <2>2, <2>4, <3>3 DEF ObserveIgnored, vars
    <3>4. CASE ObserveOutdatedBoard(a, s)
      BY Zenon, <2>1, <2>4, <3>4 DEF ObserveOutdatedBoard, TypeOK
    <3>5. CASE ObserveStore(a, s)
      <4>1. ~Outdated(s)
        BY Zenon, <3>1, <3>5 DEF ObserveStore
      <4>2. adapterStates[c].at \in Int /\ s.at \in Int
        BY InventoryAssumption DEF TypeOK, State, Time
      <4> QED
        BY <2>4, <4>1, <4>2 DEF Outdated
    <3> QED
      BY Zenon, <3>2, <3>3, <3>4, <3>5
  <2>5. CASE b = a /\ c = a /\ adapterStates'[a] = s
    BY Zenon, <2>5
  <2> QED
    BY Zenon, <1>3, <2>1, <2>2, <2>3, <2>4, <2>5
<1> QED
  BY Zenon, <1>2, <1>5, <1>6, <1>7

\* The publication decision keeps its flags in step with the last message.
LEMMA DecideStep == ASSUME IInv, DecidePublication \/ ResetPublication PROVE IInv'
<1> USE DEF IInv
<1>1. UNCHANGED <<now, adapterStates>>
  BY Zenon DEF DecidePublication, DecideDeath, DecideReport, DecideNone, Suppressed, ResetPublication
<1>2. TypeOK'
  BY Zenon, <1>1, SnapshotType
  DEF TypeOK, DecidePublication, DecideDeath, DecideReport, DecideNone, Suppressed, ResetPublication
<1>3. PubInv'
  BY DEF PubInv, TypeOK, DecidePublication, DecideDeath, DecideReport, DecideNone, Suppressed, ResetPublication
<1> QED
  BY Zenon, <1>1, <1>2, <1>3 DEF ShapeInv, EvidenceOrder, ObservedSince

\* The clock changes no evidence.
LEMMA TickStep == ASSUME IInv, Tick PROVE IInv'
BY InventoryAssumption
DEF IInv, Tick, TypeOK, Time, ShapeInv, EvidenceOrder, ObservedSince, PubInv, pubVars

\* IInv is an invariant of the specification.
THEOREM Inductive == Spec => []IInv
<1>1. Init => IInv
  <2> SUFFICES ASSUME Init PROVE IInv
    OBVIOUS
  <2>1. 0 \in Time
    BY InventoryAssumption DEF Time
  <2>2. TypeOK
    BY Zenon, <2>1, NoStateFacts DEF Init, TypeOK
  <2> QED
    BY Zenon, <2>2, NoStateFacts DEF Init, IInv, ShapeInv, EvidenceOrder, PubInv
<1>2. IInv /\ [Next]_vars => IInv'
  <2> SUFFICES ASSUME IInv, [Next]_vars PROVE IInv'
    OBVIOUS
  <2>1. CASE \E a \in Transports : \E s \in TransportStates : ObserveState(a, s)
    BY Zenon, <2>1, TransportInput, ObserveStep DEF Adapters
  <2>2. CASE \E a \in Boards : \E s \in BoardStates : ObserveState(a, s)
    BY Zenon, <2>2, BoardInput, ObserveStep DEF Adapters
  <2>3. CASE DecidePublication \/ ResetPublication
    BY Zenon, <2>3, DecideStep
  <2>4. CASE Tick
    BY Zenon, <2>4, TickStep
  <2>5. CASE UNCHANGED vars
    BY Zenon, <2>5 DEF vars, pubVars, IInv, TypeOK, ShapeInv, EvidenceOrder, ObservedSince, PubInv
  <2> QED
    BY Zenon, <2>1, <2>2, <2>3, <2>4, <2>5 DEF Next
<1> QED
  BY <1>1, <1>2, PTL DEF Spec

-----------------------------------------------------------------------------
(* The properties.                                                         *)

\* The flags, the clock and the stored states keep their types.
THEOREM TypeCorrect == Spec => []TypeOK
BY Inductive, PTL DEF IInv

\* Board evidence on record is newer than every sleep or loss on record.
THEOREM EvidenceOrderAlways == Spec => []EvidenceOrder
BY Inductive, PTL DEF IInv

\* A board-owned capability comes from a fresh board state.
LEMMA BoardCapability ==
  ASSUME IInv, NEW c \in Evidence \cap BoardCaps
  PROVE  \E b \in Boards \cap Fresh :
           Has(adapterStates[b], c) /\ ObservedSince(adapterStates[b])
<1>1. PICK a \in Fresh : c \in adapterStates[a].available
  BY Zenon DEF Evidence
<1>2. a \in Adapters /\ Shape(a, adapterStates[a])
  BY Zenon DEF Fresh, IInv, ShapeInv
<1>3. c \in adapterStates[a].declared
  BY Zenon, <1>1, <1>2 DEF Shape
<1>4. a \in Boards
  BY Zenon, <1>2, <1>3 DEF Shape, Adapters
<1>5. ObservedSince(adapterStates[a])
  BY Zenon, <1>2, <1>3 DEF IInv, EvidenceOrder, DeclaresBoardOwned
<1> QED
  BY Zenon, <1>1, <1>4, <1>5 DEF Has

\* The snapshot has no board-owned capability without evidence.
LEMMA SnapshotEvidence ==
  ASSUME NEW c \in Snapshot.caps \cap BoardCaps
  PROVE  c \in Evidence
<1>1. CapabilityGates(Evidence) \subseteq Evidence \cup {"power"}
  BY Zenon, GatesBound DEF Evidence
<1>2. Snapshot.caps \subseteq CapabilityGates(Evidence) \cup {"agent"}
  BY Zenon DEF Snapshot, WithAgent
<1> QED
  BY Zenon, <1>1, <1>2 DEF BoardCaps

\* Snapshot reports no board capability on stale or outdated board evidence.
THEOREM BoardEvidenceCurrentAlways == Spec => []BoardEvidenceCurrent
<1>1. IInv => BoardEvidenceCurrent
  BY Zenon, BoardCapability, SnapshotEvidence DEF BoardEvidenceCurrent
<1> QED
  BY <1>1, Inductive, PTL

\* Losing a Thread device invalidates the board evidence before it.
THEOREM LossInvalidatesAlways == Spec => []LossInvalidates
<1>1. IInv => LossInvalidates
  <2> SUFFICES ASSUME IInv, NEW a \in Transports, NEW b \in Boards,
                      "thread" \in adapterStates[a].declared,
                      adapterStates[a].available = {},
                      DeclaresBoardOwned(adapterStates[b])
               PROVE  adapterStates[a].at < adapterStates[b].at
    BY Zenon DEF LossInvalidates, Declares
  <2>1. a \in Adapters /\ b \in Adapters
    BY Zenon DEF Adapters
  <2>2. "power" \in adapterStates[a].declared
    BY Zenon, <2>1 DEF IInv, ShapeInv, Shape
  <2>3. InvalidatesBoardEvidence(adapterStates[a])
    BY Zenon, <2>2 DEF InvalidatesBoardEvidence, Declares, Has
  <2> QED
    BY Zenon, <2>1, <2>3 DEF IInv, EvidenceOrder, ObservedSince
<1> QED
  BY <1>1, Inductive, PTL

\* REDCON 4 evidence clears the snapshot, or the board spoke after it.
THEOREM SleepClearsAlways == Spec => []SleepClears
<1>1. IInv => SleepClears
  <2> SUFFICES ASSUME IInv, NEW a \in Fresh, ReportsRedcon4(adapterStates[a]),
                      ~ \E b \in Boards \cap Fresh : ObservedSince(adapterStates[b])
               PROVE  /\ Snapshot.caps \cap ({"power"} \cup BoardCaps) = {}
                      /\ Snapshot.redcon = 4
    BY Zenon DEF SleepClears
  <2> DEFINE C == CapabilityGates(Evidence)
  <2>1. \A b \in Fresh : ~DeclaresBoardOwned(adapterStates[b])
    <3> SUFFICES ASSUME NEW b \in Fresh, DeclaresBoardOwned(adapterStates[b])
                 PROVE  FALSE
      OBVIOUS
    <3>1. b \in Adapters /\ Shape(b, adapterStates[b])
      BY Zenon DEF Fresh, IInv, ShapeInv
    <3>2. b \in Boards
      BY Zenon, <3>1 DEF Shape, Adapters, DeclaresBoardOwned
    <3>3. ObservedSince(adapterStates[b])
      BY Zenon, <3>1 DEF IInv, EvidenceOrder
    <3> QED
      BY Zenon, <3>2, <3>3
  <2>2. Redcon4Observed
    BY Zenon, <2>1 DEF Redcon4Observed
  <2>3. PowerGate(Evidence) \cap ({"power"} \cup BoardCaps) = {}
    BY Zenon, <2>2 DEF PowerGate
  <2>4. C \cap ({"power"} \cup BoardCaps) = {}
    BY Zenon, <2>3 DEF CapabilityGates, Gate
  <2>5. Evidence \in SUBSET Inventory
    BY Zenon DEF Evidence
  <2>6. C \in SUBSET Inventory
    BY Zenon, <2>5, GatesBound
  <2>7. Snapshot.redcon = BestRedcon(C) /\ Snapshot.caps \subseteq C \cup {"agent"}
    BY Zenon DEF Snapshot, WithAgent
  <2>8. BestRedcon(C) = 4
    <3> HIDE DEF C
    <3>1. BestRedcon(C) \in 1..4
      BY Zenon, <2>6, BestRedconLevel
    <3>2. ~(BestRedcon(C) < 4)
      BY SMTT(30), <2>4, <2>6, BestRedconLevel, InventoryAssumption
    <3> QED
      BY <3>1, <3>2
  <2> QED
    BY Zenon, <2>4, <2>7, <2>8 DEF BoardCaps
<1> QED
  BY <1>1, Inductive, PTL

\* The gates leave a chain, whatever the evidence.
LEMMA GateChain ==
  ASSUME NEW C \in SUBSET Inventory
  PROVE  LET G == CapabilityGates(C) IN
         /\ "video" \in G => {"control", "board", "power"} \cap Inventory \subseteq G
         /\ "control" \in G => {"board", "power"} \cap Inventory \subseteq G
         /\ "board" \in G => {"power"} \cap Inventory \subseteq G
BY Zenon DEF CapabilityGates, Gate, BoardCaps

\* No capability is reported without those it depends on.
THEOREM LadderCoherentAlways == Spec => []LadderCoherent
<1>1. LadderCoherent
  <2>1. Evidence \in SUBSET Inventory
    BY Zenon DEF Evidence
  <2>2. \A c \in {"video", "control", "board", "power"} :
          c \in Snapshot.caps <=> c \in CapabilityGates(Evidence)
    BY Zenon DEF Snapshot, WithAgent
  <2> QED
    BY Zenon, <2>1, <2>2, GateChain DEF LadderCoherent
<1> QED
  BY <1>1, PTL

\* The cloud agent is offered on current board evidence only.
THEOREM AgentFollowsAuthorityAlways == Spec => []AgentFollowsAuthority
<1>1. IInv => AgentFollowsAuthority
  <2> SUFFICES ASSUME IInv, "agent" \in Snapshot.caps
               PROVE  /\ {"power", "board", "control"} \subseteq Snapshot.caps
                      /\ \E b \in Boards \cap Fresh :
                           Has(adapterStates[b], "control") /\ ObservedSince(adapterStates[b])
    BY Zenon DEF AgentFollowsAuthority
  <2> DEFINE C == CapabilityGates(Evidence)
  <2>1. BestRedcon(C) <= 2 /\ Snapshot.caps = C \cup {"agent"}
    BY Zenon DEF Snapshot, WithAgent
  <2>2. Evidence \in SUBSET Inventory
    BY Zenon DEF Evidence
  <2>3. C \in SUBSET Inventory
    BY Zenon, <2>2, GatesBound
  <2>4. {"power", "board", "control"} \subseteq C
    <3> HIDE DEF C
    <3>1. BestRedcon(C) \in 1..4 /\ BestRedcon(C) \in DOMAIN Rules /\ Rules[BestRedcon(C)] \subseteq C
      BY <2>1, <2>3, BestRedconLevel
    <3> QED
      BY <2>1, <3>1, InventoryAssumption, LadderAssumption
  <2>5. "control" \in Evidence \cap BoardCaps
    BY Zenon, <2>1, <2>4, SnapshotEvidence DEF BoardCaps
  <2> QED
    BY Zenon, <2>1, <2>4, <2>5, BoardCapability
<1> QED
  BY <1>1, Inductive, PTL

\* In every state in which DecidePublication would publish nothing, the last
\* message since the last reset says what the snapshot says.
THEOREM SuppressionAlways == Spec => []SuppressionSound
<1>1. IInv => SuppressionSound
  BY Zenon DEF IInv, PubInv, SuppressionSound, Suppressed
<1> QED
  BY <1>1, Inductive, PTL
=============================================================================
