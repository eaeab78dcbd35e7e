-------------------------- MODULE BoardRuntimeProofs --------------------------
(***************************************************************************)
(* Proofs about the control of a board, for all sets of peers and sessions *)
(* and all values of the timers and capacities: first the MAVLink lease,   *)
(* then what the agent sends under it, then MCP control and the motors.    *)
(***************************************************************************)
EXTENDS BoardRuntime, TLAPS

-----------------------------------------------------------------------------
(* The MAVLink lease.  The bounds on epochs and timers play no part.        *)

Active == [session : Peers \cup {Nobody}, epoch : Nat, left : Nat]
Lease == [active : Active, nextEpoch : Nat, idle : Nat, tripped : BOOLEAN]

\* Somebody has control, under the epoch that was granted last, or nobody has.
GoodLease(l) ==
  /\ l \in Lease
  /\ l.active = NoLease \/ (l.active.session \in Peers /\ l.active.epoch = l.nextEpoch)

\* What may become of a lease: renewed, ended, or granted under the next epoch.
Moves(l, m) ==
  /\ GoodLease(m)
  /\ \/ m.active.session = l.active.session /\ m.nextEpoch = l.nextEpoch
        /\ (l.active = NoLease => m.active = NoLease)
     \/ m.active = NoLease /\ m.nextEpoch = l.nextEpoch
     \/ m.active.session \in peers /\ m.nextEpoch = l.nextEpoch + 1

\* The holder of the lease is a peer of the daemon.
MavInv == peers \subseteq Peers /\ GoodLease(lease) /\ OwnerIsPeer

\* The constants, as the lemmas need them.
LEMMA MavConstants ==
  /\ Nobody \notin Peers /\ LeaseTTL \in Nat /\ Gap \in Nat
  /\ NoInput \in Nat /\ NoLease \in Active /\ NoLease.session = Nobody
  /\ AgentPeers \subseteq Peers /\ OfficePeers \subseteq Peers
<1>1. /\ Nobody \notin Peers /\ LeaseTTL \in Nat /\ Gap \in Nat
      /\ AgentPeers \subseteq Peers
  BY Zenon, MavAssumption, AgentAssumption
<1> QED BY <1>1 DEF NoInput, NoLease, Active, OfficePeers

\* Clear gives control up and keeps the epoch.
LEMMA ClearedMoves ==
  ASSUME NEW l, GoodLease(l)
  PROVE  Moves(l, Cleared(l)) /\ Cleared(l).active = NoLease
         /\ Cleared(l).nextEpoch = l.nextEpoch
<1>1. Cleared(l) = [l EXCEPT !.active = NoLease, !.idle = NoInput, !.tripped = FALSE]
  BY Zenon DEF Cleared
<1> QED BY Zenon, <1>1, MavConstants DEF GoodLease, Moves, Lease

\* clearExpired does that to a lease that ran out and nothing to another.
LEMMA ClearExpiredMoves ==
  ASSUME NEW l, GoodLease(l)
  PROVE  /\ Moves(l, ClearExpired(l)) /\ GoodLease(ClearExpired(l))
         /\ ClearExpired(l) = l \/ ClearExpired(l).active = NoLease
         /\ ClearExpired(l).nextEpoch = l.nextEpoch
<1>1. Moves(l, l) BY Zenon DEF Moves, GoodLease
<1> QED BY Zenon, <1>1, ClearedMoves DEF ClearExpired, Moves

\* A renewal leaves control where it is.
LEMMA ExtendedMoves ==
  ASSUME NEW l, GoodLease(l), l.active # NoLease
  PROVE  Moves(l, Extended(l))
<1>1. /\ Extended(l) \in Lease /\ Extended(l).active.session = l.active.session
      /\ Extended(l).nextEpoch = l.nextEpoch /\ Extended(l).active.epoch = l.active.epoch
  BY Zenon, MavConstants DEF Extended, GoodLease, Lease, Active
<1> QED BY Zenon, <1>1 DEF Moves, GoodLease

\* A grant takes the next epoch.
LEMMA GrantedMoves ==
  ASSUME NEW l, GoodLease(l), NEW s \in peers, peers \subseteq Peers
  PROVE  Moves(l, Granted(l, s))
<1> DEFINE c == Cleared(l)
           g == [session |-> s, epoch |-> l.nextEpoch + 1, left |-> LeaseTTL]
<1>1. c \in Lease /\ c.nextEpoch = l.nextEpoch BY Zenon, ClearedMoves DEF Moves, GoodLease
<1>2. g \in Active /\ g.session = s /\ g.epoch = l.nextEpoch + 1
  BY MavConstants DEF Active, GoodLease, Lease
<1>3. Granted(l, s) = [c EXCEPT !.active = g, !.nextEpoch = @ + 1] BY Zenon DEF Granted
<1> HIDE DEF c, g
<1>4. [c EXCEPT !.active = g] \in Lease /\ c.nextEpoch + 1 \in Nat BY <1>1, <1>2 DEF Lease
<1>5. /\ Granted(l, s) \in Lease /\ Granted(l, s).active = g
      /\ Granted(l, s).nextEpoch = l.nextEpoch + 1
  BY Zenon, <1>1, <1>2, <1>3, <1>4 DEF Lease
<1> QED BY Zenon, <1>2, <1>5 DEF Moves, GoodLease

\* Whatever a client asks for, a peer is granted the lease or nobody is.
LEMMA ControlMoves ==
  ASSUME MavInv, NEW s \in Peers, NEW r
  PROVE  Moves(lease, HandleControlMessage(s, r))
<1> DEFINE l == ClearExpired(lease)
<1>1. /\ GoodLease(l) /\ Moves(lease, l) /\ Moves(lease, lease)
      /\ l = lease \/ l.active = NoLease
      /\ l.nextEpoch = lease.nextEpoch
  BY Zenon, ClearExpiredMoves DEF MavInv, Moves, GoodLease
<1> HIDE DEF l
<1>2. ASSUME NEW m, Moves(l, m) PROVE Moves(lease, m)
  BY Zenon, <1>1, <1>2 DEF Moves
<1>3. HandleControlMessage(s, r) =
        IF r.type = "get_state" THEN lease
        ELSE IF ~Accepted(l, s, r) THEN l
        ELSE IF r.type = "release" THEN Cleared(l)
        ELSE IF r.type = "renew" \/ l.active.session = s THEN Extended(l)
        ELSE Granted(l, s)
  BY Zenon DEF HandleControlMessage, l
<1>4. CASE r.type = "get_state" \/ ~Accepted(l, s, r)
  BY Zenon, <1>1, <1>3, <1>4
<1>5. CASE r.type # "get_state" /\ Accepted(l, s, r) /\ r.type = "release"
  BY Zenon, <1>1, <1>2, <1>3, <1>5, ClearedMoves
<1>6. CASE r.type \notin {"get_state", "release"} /\ l.active.session = s
  <2>1. l.active # NoLease BY Zenon, <1>6, MavConstants
  <2> QED BY Zenon, <1>1, <1>2, <1>3, <1>4, <1>6, <2>1, ExtendedMoves
<1>7. CASE /\ r.type \notin {"get_state", "release"} /\ Accepted(l, s, r)
           /\ l.active.session # s
  <2>1. r.type = "activate" /\ s \in peers BY Zenon, <1>7 DEF Accepted, Owns, MayActivate
  <2> QED BY Zenon, <1>1, <1>2, <1>3, <1>7, <2>1, GrantedMoves DEF MavInv
<1> QED BY Zenon, <1>4, <1>5, <1>6, <1>7

-----------------------------------------------------------------------------
(* Steps of the MAVLink side.                                               *)

\* A lease that moves while no peer goes is still that of a peer.
LEMMA MoveKeepsOwner ==
  ASSUME MavInv, Moves(lease, lease'), peers \subseteq peers', peers' \subseteq Peers
  PROVE  MavInv'
BY Zenon DEF MavInv, Moves, OwnerIsPeer, NoLease

\* A peer opens.
LEMMA OpenPeerStep ==
  ASSUME MavInv, NEW s \in Peers, NEW a \in BOOLEAN, OpenPeer(s, a)
  PROVE  Moves(lease, lease') /\ MavInv'
<1>1. Moves(lease, lease') BY Zenon DEF MavInv, OpenPeer, Moves
<1>2. peers \subseteq peers' /\ peers' \subseteq Peers BY Zenon DEF OpenPeer, MavInv
<1> QED BY Zenon, <1>1, <1>2, MoveKeepsOwner

\* The daemon handles a control message.
LEMMA DaemonControlStep ==
  ASSUME MavInv, NEW s \in Peers, NEW r, NEW a \in BOOLEAN, DaemonControl(s, r, a)
  PROVE  Moves(lease, lease') /\ MavInv'
<1>1. lease' = HandleControlMessage(s, r) /\ peers' = peers BY Zenon DEF DaemonControl
<1>2. Moves(lease, lease') BY Zenon, <1>1, ControlMoves
<1>3. peers \subseteq peers' /\ peers' \subseteq Peers BY Zenon, <1>1 DEF MavInv
<1> QED BY Zenon, <1>2, <1>3, MoveKeepsOwner

\* A frame ends a lease that ran out, or counts as input.
LEMMA HandleFrameStep ==
  ASSUME MavInv, NEW s \in Peers, NEW stamp, HandleFrame(s, stamp)
  PROVE  Moves(lease, lease') /\ MavInv'
<1>1. Moves(lease, lease) /\ Moves(lease, ClearExpired(lease))
  BY Zenon, ClearExpiredMoves DEF MavInv, Moves
<1>2. Moves(lease, [lease EXCEPT !.idle = 0, !.tripped = FALSE])
  <2> DEFINE m == [lease EXCEPT !.idle = 0, !.tripped = FALSE]
  <2>1. m \in Lease /\ m.active = lease.active /\ m.nextEpoch = lease.nextEpoch
    BY Zenon DEF MavInv, GoodLease, Lease
  <2> HIDE DEF m
  <2>2. Moves(lease, m) BY Zenon, <2>1 DEF MavInv, Moves, GoodLease
  <2> QED BY Zenon, <2>2 DEF m
<1>3. peers' = peers /\ Moves(lease, lease')
  <2>1. CASE FrameDropped(s, stamp) BY Zenon, <1>1, <2>1 DEF FrameDropped
  <2>2. CASE FrameFails(s, stamp) BY Zenon, <1>1, <2>2 DEF FrameFails, daemonVars
  <2>3. CASE \E manual \in BOOLEAN : FrameAccepted(s, stamp, manual)
    <3>1. PICK manual \in BOOLEAN : FrameAccepted(s, stamp, manual) BY Zenon, <2>3
    <3>2. /\ lease' = IF manual THEN [lease EXCEPT !.idle = 0, !.tripped = FALSE] ELSE lease
          /\ peers' = peers
      BY Zenon, <3>1 DEF FrameAccepted
    <3>3. CASE manual BY Zenon, <1>2, <3>2, <3>3
    <3>4. CASE ~manual BY Zenon, <1>1, <3>2, <3>4
    <3> QED BY Zenon, <3>3, <3>4
  <2> QED BY Zenon, <2>1, <2>2, <2>3 DEF HandleFrame
<1> QED BY Zenon, <1>3, MoveKeepsOwner DEF MavInv

\* The lease of a peer ends with the peer.
LEMMA ClosePeerStep ==
  ASSUME MavInv, NEW s \in Peers, ClosePeer(s)
  PROVE  Moves(lease, lease') /\ MavInv'
<1>1. /\ lease' = IF lease.active.session = s THEN Cleared(lease) ELSE lease
      /\ peers' = peers \ {s}
  BY Zenon DEF ClosePeer
<1>2. Moves(lease, Cleared(lease)) /\ Cleared(lease).active = NoLease
  BY Zenon, ClearedMoves DEF MavInv
<1>3. CASE lease.active.session = s
  BY Zenon, <1>1, <1>2, <1>3 DEF MavInv, Moves, OwnerIsPeer, NoLease
<1>4. CASE lease.active.session # s
  BY Zenon, <1>1, <1>4 DEF MavInv, Moves, OwnerIsPeer, NoLease
<1> QED BY Zenon, <1>3, <1>4

\* The daemon's own steps: the watchdogs, the flight controller's queue, time.
LEMMA DaemonStepStep ==
  ASSUME MavInv, DaemonStep
  PROVE  Moves(lease, lease') /\ MavInv'
<1>1. Moves(lease, lease') /\ peers' = peers
  <2>1. Moves(lease, lease) BY Zenon DEF MavInv, Moves
  <2>2. CASE FlightSafe BY Zenon, <2>1, <2>2 DEF FlightSafe
  <2>3. CASE Advance
    <3> DEFINE n == IF lease.active.left > 0 THEN lease.active.left - 1 ELSE 0
               i == IF lease.idle < Gap THEN lease.idle + 1 ELSE lease.idle
    <3>1. n \in Nat /\ i \in Nat BY DEF MavInv, GoodLease, Lease, Active
    <3>2. lease' = [lease EXCEPT !.active.left = n, !.idle = i] BY Zenon, <2>3 DEF Advance
    <3> HIDE DEF n, i
    <3>3. /\ lease' \in Lease /\ lease'.active.session = lease.active.session
          /\ lease'.nextEpoch = lease.nextEpoch /\ lease'.active.epoch = lease.active.epoch
      BY Zenon, <3>1, <3>2 DEF MavInv, GoodLease, Lease, Active
    <3>4. lease.active # NoLease /\ peers' = peers BY Zenon, <2>3 DEF Advance
    <3> QED BY Zenon, <3>3, <3>4 DEF MavInv, Moves, GoodLease
  <2>4. CASE TickWatchdogs
    <3>1. peers' = peers BY Zenon, <2>4 DEF TickWatchdogs
    <3>2. CASE lease' = Cleared(lease) BY Zenon, <3>1, <3>2, ClearedMoves DEF MavInv
    <3>3. CASE lease' = [lease EXCEPT !.tripped = TRUE]
      <4>1. /\ lease' \in Lease /\ lease'.active = lease.active
            /\ lease'.nextEpoch = lease.nextEpoch
        BY Zenon, <3>3 DEF MavInv, GoodLease, Lease
      <4> QED BY Zenon, <3>1, <4>1 DEF MavInv, Moves, GoodLease
    <3> QED BY Zenon, <2>4, <3>2, <3>3 DEF TickWatchdogs
  <2> QED BY Zenon, <2>2, <2>3, <2>4 DEF DaemonStep
<1> QED BY Zenon, <1>1, MoveKeepsOwner DEF MavInv

\* The workers, the channels and the agent's threads leave the daemon's own
\* state alone; DaemonGone ends the lease with everything else.
LEMMA MavNextStep ==
  ASSUME MavInv, [Next]_boardVars
  PROVE  Moves(lease, lease') /\ MavInv'
<1>0. ASSUME UNCHANGED <<lease, peers>> PROVE Moves(lease, lease') /\ MavInv'
  BY Zenon, <1>0 DEF MavInv, Moves, OwnerIsPeer
<1>1. CASE UNCHANGED boardVars
  BY Zenon, <1>0, <1>1 DEF boardVars, agentVars, mavVars, daemonVars
<1>2. CASE McpNext
  BY Zenon, <1>0, <1>2 DEF McpNext, agentVars, mavVars, daemonVars
<1>3. CASE PublishOffline \/ DaemonCrash
  <2>1. lease' = Cleared(lease) /\ peers' = {}
    BY Zenon, <1>3 DEF PublishOffline, DaemonCrash, DaemonGone
  <2> QED BY Zenon, <2>1, ClearedMoves DEF MavInv, Moves, OwnerIsPeer
<1>4. CASE AgentStep
  <2>1. UNCHANGED <<lease, peers>>
    <3> USE DEF mavVars, daemonVars
    <3>1. CASE AgentAcquires BY Zenon, <3>1 DEF AgentAcquires
    <3>2. CASE AgentRenews BY Zenon, <3>2 DEF AgentRenews
    <3>3. CASE AgentTimeout BY Zenon, <3>3 DEF AgentTimeout
    <3>4. CASE AgentGivesUp BY Zenon, <3>4 DEF AgentGivesUp
    <3>5. CASE AgentReceives BY Zenon, <3>5 DEF AgentReceives
    <3>6. CASE AgentSends BY Zenon, <3>6 DEF AgentSends
    <3>7. CASE AgentDisconnects BY Zenon, <3>7 DEF AgentDisconnects
    <3>8. CASE SendReads BY Zenon, <3>8 DEF SendReads
    <3> QED BY Zenon, <1>4, <3>1, <3>2, <3>3, <3>4, <3>5, <3>6, <3>7, <3>8 DEF AgentStep
  <2> QED BY Zenon, <1>0, <2>1
<1>5. ASSUME NEW s \in AgentPeers, ChannelStep(s) PROVE Moves(lease, lease') /\ MavInv'
  <2>1. s \in Peers BY Zenon, MavConstants
  <2>2. CASE \E a \in BOOLEAN : AgentConnects(s, a)
    BY Zenon, <2>1, <2>2, OpenPeerStep DEF AgentConnects
  <2>3. CASE \E a \in BOOLEAN : ControlAnswered(s, a)
    <3>1. PICK a \in BOOLEAN : DaemonControl(s, call[s], a)
      BY Zenon, <2>3 DEF ControlAnswered
    <3> QED BY Zenon, <2>1, <3>1, DaemonControlStep
  <2>4. CASE ChannelDelivers(s)
    BY Zenon, <1>0, <2>4 DEF ChannelDelivers, WorkerFrame, WorkerControl, daemonVars
  <2> QED BY Zenon, <1>5, <2>2, <2>3, <2>4 DEF ChannelStep
<1>6. ASSUME NEW s \in Peers, PeerStep(s) PROVE Moves(lease, lease') /\ MavInv'
  <2>1. CASE CloseMavlinkDataChannel(s) \/ StreamBreaks(s) \/ CloseLost(s)
    BY Zenon, <1>0, <2>1 DEF CloseMavlinkDataChannel, StreamBreaks, CloseLost, daemonVars
  <2>2. CASE ClosePeer(s) BY Zenon, <2>2, ClosePeerStep
  <2>3. CASE HandleFrame(s, Head(stream[s]).stamp) BY Zenon, <2>3, HandleFrameStep
  <2> QED BY Zenon, <1>6, <2>1, <2>2, <2>3 DEF PeerStep
<1>7. ASSUME NEW s \in OfficePeers, ClientStep(s) PROVE Moves(lease, lease') /\ MavInv'
  <2>1. s \in Peers BY Zenon, MavConstants
  <2>2. CASE \E a \in BOOLEAN : OpenPeer(s, a) BY Zenon, <2>1, <2>2, OpenPeerStep
  <2>3. CASE \E r \in Request : DaemonControl(s, r, FALSE)
    <3>1. PICK r \in Request : DaemonControl(s, r, FALSE) BY Zenon, <2>3
    <3> QED BY Zenon, <2>1, <3>1, DaemonControlStep
  <2>4. CASE \E stamp \in Epochs : HandleFrame(s, stamp)
    <3>1. PICK stamp \in Epochs : HandleFrame(s, stamp) BY Zenon, <2>4
    <3> QED BY Zenon, <2>1, <3>1, HandleFrameStep
  <2> QED BY Zenon, <1>7, <2>2, <2>3, <2>4 DEF ClientStep
<1>8. CASE BoardStep BY Zenon, <1>6, <1>7, <1>8, DaemonStepStep DEF BoardStep
<1>9. CASE MavlinkNext BY Zenon, <1>4, <1>5, <1>8, <1>9 DEF MavlinkNext
<1> QED BY Zenon, <1>1, <1>2, <1>3, <1>9 DEF Next

\* The daemon starts with nobody in control.
LEMMA InitMavInv == Init => MavInv
<1> SUFFICES ASSUME Init PROVE MavInv OBVIOUS
<1>1. lease = [active |-> NoLease, nextEpoch |-> 0, idle |-> NoInput, tripped |-> FALSE]
      /\ peers = {}
  BY Zenon DEF Init, MavInit
<1> QED BY Zenon, <1>1, MavConstants DEF MavInv, GoodLease, Lease, OwnerIsPeer

\* In every state of every behaviour the MAVLink lease is well formed and its owner
\* is a peer of the daemon.
THEOREM MavInductive == Spec => []MavInv
<1>1. MavInv /\ [Next]_boardVars => MavInv' BY Zenon, MavNextStep
<1> QED BY InitMavInv, <1>1, PTL DEF Spec

\* Whatever is opened, closed, broken or lost, and in whatever order the events
\* reach the daemon's loop, the lease is that of one of its peers.
THEOREM OwnerIsPeerAlways == Spec => []OwnerIsPeer
BY MavInductive, PTL DEF MavInv

\* MAVLinkControlState implements the abstract lease: every step of the board
\* grants it under the next epoch, ends it, or leaves owner and epoch alone.
THEOREM MavlinkImplementsLease == Spec => MavlinkLease!Exclusive
<1>1. Init => MavlinkLease!Free
  BY DEF Init, MavInit, NoLease, MavlinkLease!Free
<1>2. MavInv /\ [Next]_boardVars
        => [MavlinkLease!End \/ \E s \in Peers : MavlinkLease!Grant(s)]_(MavlinkLease!leaseVars)
  <2> SUFFICES ASSUME MavInv, [Next]_boardVars
               PROVE  \/ MavlinkLease!End
                      \/ \E s \in Peers : MavlinkLease!Grant(s)
                      \/ UNCHANGED MavlinkLease!leaseVars
    OBVIOUS
  <2>1. Moves(lease, lease') BY Zenon, MavNextStep
  <2> QED BY Zenon, <2>1, MavConstants
          DEF Moves, MavInv, MavlinkLease!End, MavlinkLease!Grant, MavlinkLease!leaseVars
<1> QED BY MavInductive, <1>1, <1>2, PTL DEF Spec, MavlinkLease!Exclusive

-----------------------------------------------------------------------------
(* What the agent sends.  The bounds on channels and epochs play no part.   *)

Sent ==
  [type : {"activate", "renew", "release"}, epoch : Nat, current : BOOLEAN]
    \cup [type : {"frame"}, asked : Nat]
Answer ==
  [type : {"error", "activate", "renew", "release"}, current : BOOLEAN,
   owner : Peers \cup {Nobody}, epoch : Nat]

Agent ==
  [link : AgentPeers \cup {Nobody}, held : BOOLEAN, epoch : Nat,
   pending : {"none", "activate", "renew"}, gen : Nat, auth : Nat]

SessionTypes ==
  /\ agent \in Agent
  /\ operator \in [gen : Nat, asked : Nat]
  /\ up \in [AgentPeers -> Seq(Sent)] /\ down \in [AgentPeers -> Seq(Answer)]
  /\ worker \in [Peers -> Nat] /\ stream \in [Peers -> Seq([stamp : Nat, asked : Nat])]
  /\ call \in [Peers -> {NoCall} \cup {Asked(m) : m \in Sent}]

\* m is a frame or a renewal under epoch e.
Under(m, e) == (m.type = "frame" /\ m.asked = e) \/ (m.type = "renew" /\ m.epoch = e)

\* Before a frame a channel has only what was sent under the same epoch, which is
\* the one the worker, if it still serves the channel, stamps frames with.
Framed(q, w) ==
  \A j \in 1..Len(q) : q[j].type = "frame" =>
    /\ w \in {q[j].asked, NoPeer}
    /\ \A i \in 1..j : Under(q[i], q[j].asked)

\* A call under way is the message at the head of the channel.
Called(q, r) == r # NoCall => q # <<>> /\ q[1].type # "frame" /\ r = Asked(q[1])

Stamped(q) == \A i \in 1..Len(q) : q[i].stamp = q[i].asked

IsCurrent(m) == m.type # "frame" /\ m.current
Past0(q) == \A i \in 1..Len(q) : ~IsCurrent(q[i])

\* One message at most is the pending request or its answer.
OneCurrent(q, d) ==
  /\ \A i, j \in 1..Len(q) : IsCurrent(q[i]) /\ IsCurrent(q[j]) => i = j
  /\ \A i, j \in 1..Len(d) : IsCurrent(d[i]) /\ IsCurrent(d[j]) => i = j
  /\ Past0(q) \/ Past0(d)

\* An activation is the last thing that was sent, and when its answer is there the
\* worker has the epoch that the answer tells.
Activating(q, d, w) ==
  /\ \A i \in 1..Len(q) : IsCurrent(q[i]) => i = Len(q)
  /\ \A i \in 1..Len(d) : IsCurrent(d[i]) =>
       q = <<>> /\ (d[i].type = "activate" => w \in {d[i].epoch, NoPeer})

ChannelInv(s) ==
  /\ Framed(up[s], worker[s]) /\ Called(up[s], call[s]) /\ Stamped(stream[s])
  /\ s \notin opened => up[s] = <<>>
  /\ OneCurrent(up[s], down[s])
  /\ agent.pending = "none" \/ s # agent.link => Past0(up[s]) /\ Past0(down[s])
  /\ agent.pending = "activate" /\ s = agent.link => Activating(up[s], down[s], worker[s])

\* While the agent believes in its control everything under way is of that control,
\* and a command read under its generation is, too.
Holding ==
  /\ worker[agent.link] \in {agent.epoch, NoPeer}
  /\ \A i \in 1..Len(up[agent.link]) : Under(up[agent.link][i], agent.epoch)
  /\ agent.auth = agent.gen
  /\ operator # NoAsk /\ operator.gen = agent.auth => operator.asked = agent.epoch

AgentInv ==
  /\ agent.link # Nobody => agent.link \in opened
  /\ agent.pending # "none" \/ agent.held => agent.link # Nobody
  /\ agent.pending = "activate" => ~agent.held
  /\ agent.held => Holding
  /\ ~agent.held => agent.auth = 0
  /\ operator.gen <= agent.gen

FrameInv == SessionTypes /\ AgentInv /\ \A s \in AgentPeers : ChannelInv(s)

\* A request that is given up is kept but for its being awaited.
LEMMA PastSent ==
  ASSUME NEW q \in Seq(Sent)
  PROVE  /\ Past(q) \in Seq(Sent) /\ Len(Past(q)) = Len(q) /\ Past0(Past(q))
         /\ \A i \in 1..Len(q) :
              /\ Past(q)[i].type = q[i].type
              /\ q[i].type = "frame" => Past(q)[i] = q[i]
              /\ q[i].type # "frame" => Past(q)[i].epoch = q[i].epoch
<1> DEFINE p(m) == IF "current" \in DOMAIN m THEN [m EXCEPT !.current = FALSE] ELSE m
<1>1. ASSUME NEW m \in Sent
      PROVE  /\ p(m) \in Sent /\ p(m).type = m.type /\ ~IsCurrent(p(m))
             /\ m.type = "frame" => p(m) = m
             /\ m.type # "frame" => p(m).epoch = m.epoch
  <2>1. CASE m \in [type : {"activate", "renew", "release"}, epoch : Nat, current : BOOLEAN]
    <3>1. p(m) = [m EXCEPT !.current = FALSE] BY Zenon, <2>1
    <3> QED BY Zenon, <2>1, <3>1 DEF Sent, IsCurrent
  <2>2. CASE m \in [type : {"frame"}, asked : Nat]
    <3>1. p(m) = m BY Zenon, <2>2
    <3> QED BY Zenon, <2>2, <3>1 DEF Sent, IsCurrent
  <2> QED BY Zenon, <2>1, <2>2 DEF Sent
<1>2. Past(q) = [i \in 1..Len(q) |-> p(q[i])]
  BY DEF Past
<1> HIDE DEF p
<1>3. \A i \in 1..Len(q) : q[i] \in Sent
  OBVIOUS
<1>4. Len(q) \in Nat OBVIOUS
<1>5. Past(q) \in Seq(Sent) /\ Len(Past(q)) = Len(q) BY <1>1, <1>2, <1>3, <1>4
<1>6. \A i \in 1..Len(q) : Past(q)[i] = p(q[i]) BY Zenon, <1>2
<1>7. \A i \in 1..Len(q) :
        /\ Past(q)[i].type = q[i].type /\ ~IsCurrent(Past(q)[i])
        /\ q[i].type = "frame" => Past(q)[i] = q[i]
        /\ q[i].type # "frame" => Past(q)[i].epoch = q[i].epoch
  BY Zenon, <1>1, <1>3, <1>6
<1>8. Past0(Past(q)) BY Zenon, <1>5, <1>7 DEF Past0
<1> QED BY Zenon, <1>5, <1>7, <1>8

\* So is an answer.
LEMMA PastAnswer ==
  ASSUME NEW q \in Seq(Answer)
  PROVE  Past(q) \in Seq(Answer) /\ Past0(Past(q))
<1> DEFINE p(m) == IF "current" \in DOMAIN m THEN [m EXCEPT !.current = FALSE] ELSE m
<1>1. ASSUME NEW m \in Answer PROVE p(m) \in Answer /\ ~p(m).current
  <2>1. p(m) = [m EXCEPT !.current = FALSE] BY Zenon DEF Answer
  <2> QED BY Zenon, <2>1 DEF Answer
<1>2. Past(q) = [i \in 1..Len(q) |-> p(q[i])]
  BY DEF Past
<1> HIDE DEF p
<1>3. \A i \in 1..Len(q) : q[i] \in Answer
  OBVIOUS
<1>4. Len(q) \in Nat OBVIOUS
<1>5. Past(q) \in Seq(Answer) /\ Len(Past(q)) = Len(q) BY <1>1, <1>2, <1>3, <1>4
<1>6. \A i \in 1..Len(q) : Past(q)[i] = p(q[i]) BY Zenon, <1>2
<1> QED BY Zenon, <1>1, <1>3, <1>5, <1>6 DEF Past0, IsCurrent

\* A channel p that has what q has, awaited or not, and then perhaps a control
\* message.
Follows(q, p) ==
  /\ p \in Seq(Sent) /\ Len(p) \in {Len(q), Len(q) + 1}
  /\ \A i \in 1..Len(q) : /\ p[i].type = q[i].type
                          /\ q[i].type = "frame" => p[i] = q[i]
                          /\ q[i].type # "frame" => p[i].epoch = q[i].epoch
  /\ Len(p) # Len(q) => p[Len(p)].type # "frame"

\* No frame comes behind what it was not sent under.
LEMMA FollowsKeeps ==
  ASSUME NEW q \in Seq(Sent), NEW p, Follows(q, p), NEW w, NEW r,
         Framed(q, w), Called(q, r)
  PROVE  Framed(p, w) /\ Called(p, r)
<1>1. Len(q) \in Nat /\ Len(p) \in Nat BY DEF Follows
<1>2. Framed(p, w)
  <2> SUFFICES ASSUME NEW j \in 1..Len(p), p[j].type = "frame"
               PROVE  w \in {p[j].asked, NoPeer} /\ \A i \in 1..j : Under(p[i], p[j].asked)
    BY Zenon DEF Framed
  <2>1. j \in 1..Len(q) BY <1>1 DEF Follows
  <2>2. p[j] = q[j] BY Zenon, <2>1 DEF Follows
  <2>3. ASSUME NEW i \in 1..j PROVE Under(p[i], p[j].asked)
    <3>1. i \in 1..Len(q) BY <1>1, <2>1
    <3>2. Under(q[i], q[j].asked) BY Zenon, <2>1, <2>2 DEF Framed
    <3> QED BY Zenon, <2>2, <3>1, <3>2 DEF Follows, Under
  <2> QED BY Zenon, <2>1, <2>2, <2>3 DEF Framed
<1>3. Called(p, r)
  <2> SUFFICES ASSUME r # NoCall PROVE p # <<>> /\ p[1].type # "frame" /\ r = Asked(p[1])
    BY Zenon DEF Called
  <2>1. q # <<>> /\ q[1].type # "frame" /\ r = Asked(q[1]) BY Zenon DEF Called
  <2>2. 1 \in 1..Len(q) /\ p # <<>> BY <1>1, <2>1 DEF Follows
  <2>3. p[1].type = q[1].type /\ p[1].epoch = q[1].epoch BY Zenon, <2>1, <2>2 DEF Follows
  <2> QED BY Zenon, <2>1, <2>2, <2>3 DEF Asked
<1> QED BY Zenon, <1>2, <1>3

\* Giving up, with or without a release, is such a change.
LEMMA PastFollows ==
  ASSUME NEW q \in Seq(Sent), NEW m \in Sent, m.type # "frame", ~m.current
  PROVE  /\ Follows(q, Past(q)) /\ Past0(Past(q))
         /\ Follows(q, Append(Past(q), m)) /\ Past0(Append(Past(q), m))
<1>1. /\ Past(q) \in Seq(Sent) /\ Len(Past(q)) = Len(q) /\ Past0(Past(q)) /\ Len(q) \in Nat
      /\ \A i \in 1..Len(q) :
           /\ Past(q)[i].type = q[i].type
           /\ q[i].type = "frame" => Past(q)[i] = q[i]
           /\ q[i].type # "frame" => Past(q)[i].epoch = q[i].epoch
  BY PastSent
<1> DEFINE x == Past(q)
<1> HIDE DEF x
<1>2. /\ Append(x, m) \in Seq(Sent) /\ Len(Append(x, m)) = Len(x) + 1
      /\ Append(x, m)[Len(x) + 1] = m /\ \A i \in 1..Len(x) : Append(x, m)[i] = x[i]
  BY <1>1 DEF x
<1>3. Follows(q, x) BY Zenon, <1>1 DEF Follows, x
<1>4. Follows(q, Append(x, m)) BY Zenon, <1>1, <1>2 DEF Follows, x
<1>5. Past0(Append(x, m))
  <2>1. ASSUME NEW i \in 1..(Len(x) + 1) PROVE ~IsCurrent(Append(x, m)[i])
    <3>1. i = Len(x) + 1 \/ i \in 1..Len(x) BY <1>1 DEF x
    <3> QED BY Zenon, <1>1, <1>2, <3>1 DEF Past0, IsCurrent, x
  <2> QED BY Zenon, <1>2, <2>1 DEF Past0
<1> QED BY Zenon, <1>1, <1>3, <1>4, <1>5 DEF x

\* Whoever gives up what it asked for and holds is held to nothing.
LEMMA GivesUp ==
  ASSUME FrameInv, UNCHANGED mavVars, operator' \in {operator, NoAsk},
         up' \in [AgentPeers -> Seq(Sent)], down' \in [AgentPeers -> Seq(Answer)],
         agent' \in Agent, ~agent'.held, agent'.pending = "none", agent'.auth = 0,
         agent'.gen = agent.gen, agent'.link \in {Nobody, agent.link},
         \A s \in AgentPeers : /\ Follows(up[s], up'[s]) /\ Past0(up'[s]) /\ Past0(down'[s])
                               /\ s \notin opened => up'[s] = <<>>
  PROVE  FrameInv'
<1>1. UNCHANGED <<worker, stream, call, opened>>
  BY Zenon DEF mavVars, bridgeVars
<1>0. operator' \in [gen : Nat, asked : Nat] /\ operator'.gen <= agent.gen
  BY DEF FrameInv, SessionTypes, AgentInv, Agent, NoAsk
<1>2. SessionTypes' BY Zenon, <1>0, <1>1 DEF FrameInv, SessionTypes
<1>3. AgentInv' BY Zenon, <1>0, <1>1 DEF FrameInv, AgentInv
<1>4. ASSUME NEW s \in AgentPeers PROVE ChannelInv(s)'
  <2>1. up[s] \in Seq(Sent) BY Zenon DEF FrameInv, SessionTypes
  <2>2. Framed(up[s], worker[s]) /\ Called(up[s], call[s]) /\ Stamped(stream[s])
    BY Zenon DEF FrameInv, ChannelInv
  <2>3. Framed(up'[s], worker'[s]) /\ Called(up'[s], call'[s]) /\ Stamped(stream'[s])
    BY Zenon, <1>1, <2>1, <2>2, FollowsKeeps
  <2>4. OneCurrent(up'[s], down'[s]) BY Zenon DEF OneCurrent, Past0
  <2> QED BY Zenon, <1>1, <2>3, <2>4 DEF ChannelInv
<1> QED BY Zenon, <1>2, <1>3, <1>4 DEF FrameInv

\* The types of one channel.
LEMMA ChannelTypes ==
  ASSUME SessionTypes, NEW s \in AgentPeers
  PROVE  /\ s \in Peers /\ s # Nobody /\ up[s] \in Seq(Sent) /\ down[s] \in Seq(Answer)
         /\ worker[s] \in Nat /\ stream[s] \in Seq([stamp : Nat, asked : Nat])
         /\ DOMAIN up = AgentPeers /\ DOMAIN down = AgentPeers
BY Zenon, MavConstants DEF SessionTypes

\* lose.
LEMMA LoseKeeps ==
  ASSUME FrameInv, UNCHANGED mavVars, operator' \in {operator, NoAsk}, NEW release \in BOOLEAN,
         NEW d \in [AgentPeers -> Seq(Answer)], Lose(release, d)
  PROVE  FrameInv'
<1> DEFINE m == [type |-> "release", epoch |-> agent.epoch, current |-> FALSE]
           sent == agent.held /\ release /\ CanText
<1>1. m \in Sent /\ m.type # "frame" /\ ~m.current
  BY Zenon DEF FrameInv, SessionTypes, Sent, Agent
<1>2. /\ agent' = [agent EXCEPT !.held = FALSE, !.epoch = 0, !.pending = "none", !.auth = 0]
      /\ up' = [s \in AgentPeers |-> IF sent /\ s = agent.link THEN Append(Past(up[s]), m)
                                     ELSE Past(up[s])]
      /\ down' = [s \in AgentPeers |-> Past(d[s])]
  BY Zenon DEF Lose
<1> HIDE DEF m, sent
<1>3. /\ agent' \in Agent /\ ~agent'.held /\ agent'.pending = "none" /\ agent'.auth = 0
      /\ agent'.gen = agent.gen /\ agent'.link = agent.link
  BY Zenon, <1>2 DEF FrameInv, SessionTypes, Agent
<1>4. ASSUME NEW s \in AgentPeers
      PROVE  /\ Follows(up[s], up'[s]) /\ Past0(up'[s]) /\ up'[s] \in Seq(Sent)
             /\ Past0(down'[s]) /\ down'[s] \in Seq(Answer)
             /\ s \notin opened => up'[s] = <<>>
  <2>1. up[s] \in Seq(Sent) /\ d[s] \in Seq(Answer) /\ s # Nobody
    BY Zenon, ChannelTypes DEF FrameInv
  <2>2. up'[s] = Past(up[s]) \/ (s = agent.link /\ up'[s] = Append(Past(up[s]), m))
    BY Zenon, <1>2
  <2>3. Follows(up[s], up'[s]) /\ Past0(up'[s])
    BY Zenon, <1>1, <2>1, <2>2, PastFollows
  <2>4. down'[s] = Past(d[s]) BY Zenon, <1>2
  <2>5. ASSUME s \notin opened PROVE up'[s] = <<>>
    <3>1. up[s] = <<>> /\ s # agent.link
      BY Zenon, <2>1, <2>5 DEF FrameInv, ChannelInv, AgentInv
    <3>2. Len(Past(up[s])) = 0 /\ Past(up[s]) \in Seq(Sent) BY Zenon, <2>1, <3>1, PastSent
    <3> QED BY <2>2, <3>1, <3>2
  <2> QED BY Zenon, <2>1, <2>3, <2>4, <2>5, PastAnswer DEF Follows
<1>5. up' \in [AgentPeers -> Seq(Sent)] BY Zenon, <1>2, <1>4
<1>6. down' \in [AgentPeers -> Seq(Answer)] BY Zenon, <1>2, <1>4
<1> QED BY Zenon, <1>3, <1>4, <1>5, <1>6, GivesUp

\* update and shutdown give everything up, and the answers with it.
LEMMA DisconnectKeeps ==
  ASSUME FrameInv, AgentDisconnects
  PROVE  FrameInv'
<1> DEFINE l == agent.link
           m == [type |-> "release", epoch |-> agent.epoch, current |-> FALSE]
<1>1. m \in Sent /\ m.type # "frame" /\ ~m.current
  BY Zenon DEF FrameInv, SessionTypes, Sent, Agent
<1>2. PICK q \in {Past(up[l]), Append(Past(up[l]), m)} : up' = [up EXCEPT ![l] = q]
  BY Zenon DEF AgentDisconnects
<1>3. /\ agent' = [agent EXCEPT !.link = Nobody, !.held = FALSE, !.epoch = 0, !.pending = "none",
                                !.auth = 0]
      /\ down' = [s \in AgentPeers |-> <<>>] /\ l # Nobody /\ UNCHANGED <<mavVars, operator>>
  BY Zenon DEF AgentDisconnects
<1> HIDE DEF m
<1>4. /\ agent' \in Agent /\ ~agent'.held /\ agent'.pending = "none" /\ agent'.auth = 0
      /\ agent'.gen = agent.gen /\ agent'.link = Nobody
  BY Zenon, <1>3 DEF FrameInv, SessionTypes, Agent
<1>5. l \in AgentPeers /\ l \in opened
  BY Zenon, <1>3 DEF FrameInv, SessionTypes, Agent, AgentInv
<1>6. ASSUME NEW s \in AgentPeers
      PROVE  /\ Follows(up[s], up'[s]) /\ Past0(up'[s]) /\ up'[s] \in Seq(Sent)
             /\ s \notin opened => up'[s] = <<>>
  <2>1. up[s] \in Seq(Sent) /\ DOMAIN up = AgentPeers BY Zenon, ChannelTypes DEF FrameInv
  <2>2. CASE s = l
    <3>1. up'[s] = q BY Zenon, <1>2, <2>1, <2>2
    <3>2. Follows(up[s], q) /\ Past0(q) BY Zenon, <1>1, <1>2, <2>1, <2>2, PastFollows
    <3> QED BY Zenon, <1>5, <2>2, <3>1, <3>2 DEF Follows
  <2>3. CASE s # l
    <3>1. up'[s] = up[s] BY Zenon, <1>2, <2>1, <2>3
    <3>2. Past0(up[s]) /\ (s \notin opened => up[s] = <<>>)
      BY Zenon, <2>3 DEF FrameInv, ChannelInv
    <3>3. Follows(up[s], up[s]) BY Zenon, <2>1 DEF Follows
    <3> QED BY Zenon, <2>1, <3>1, <3>2, <3>3
  <2> QED BY Zenon, <2>2, <2>3
<1>7. up' \in [AgentPeers -> Seq(Sent)]
  BY Zenon, <1>2, <1>6 DEF FrameInv, SessionTypes
<1>8. \A s \in AgentPeers : Past0(down'[s]) BY <1>3 DEF Past0
<1>9. down' \in [AgentPeers -> Seq(Answer)] BY <1>3
<1> QED BY Zenon, <1>3, <1>4, <1>6, <1>7, <1>8, <1>9, GivesUp

\* A channel that a step leaves alone.
LEMMA ChannelRests ==
  ASSUME NEW s \in AgentPeers, ChannelInv(s), up'[s] = up[s], down'[s] = down[s],
         worker'[s] = worker[s], stream'[s] = stream[s], call'[s] = call[s],
         s \in opened => s \in opened',
         \/ s # agent.link /\ s # agent'.link
         \/ agent'.pending = agent.pending /\ agent'.link = agent.link
  PROVE  ChannelInv(s)'
BY Zenon DEF ChannelInv

\* request.
LEMMA AskKeeps ==
  ASSUME FrameInv, UNCHANGED <<mavVars, operator>>, NEW type \in {"activate", "renew"},
         agent.held <=> type = "renew", agent.pending = "none", AskBoard(type)
  PROVE  FrameInv'
<1>1. CASE ~CanText
  <2>1. Lose(TRUE, down) BY Zenon, <1>1 DEF AskBoard
  <2>2. down \in [AgentPeers -> Seq(Answer)] BY Zenon DEF FrameInv, SessionTypes
  <2> QED BY Zenon, <2>1, <2>2, LoseKeeps
<1>2. CASE CanText
  <2>0. PICK l \in AgentPeers : l = agent.link /\ l # Nobody
    BY Zenon, <1>2, ChannelTypes DEF FrameInv, SessionTypes, Agent, CanText
  <2> DEFINE m == [type |-> type, epoch |-> agent.epoch, current |-> TRUE]
             p == Append(up[l], m)
  <2>1. /\ agent' = [agent EXCEPT !.pending = type] /\ up' = [up EXCEPT ![l] = p]
        /\ down' = down /\ type # "none" /\ (type = "activate" => ~agent.held)
        /\ UNCHANGED <<worker, stream, call, opened, operator>>
    BY Zenon, <1>2, <2>0 DEF AskBoard, CanText, mavVars, bridgeVars
  <2>2. /\ agent' \in Agent /\ agent'.link = l /\ agent'.held = agent.held
        /\ agent'.epoch = agent.epoch /\ agent'.gen = agent.gen /\ agent'.auth = agent.auth
        /\ agent'.pending = type
    BY Zenon, <2>0, <2>1 DEF FrameInv, SessionTypes, Agent
  <2>3. m \in Sent /\ m.type = type /\ m.type # "frame" /\ m.epoch = agent.epoch
    BY Zenon DEF FrameInv, SessionTypes, Agent, Sent
  <2> HIDE DEF m
  <2>4. /\ p \in Seq(Sent) /\ Len(p) = Len(up[l]) + 1 /\ p[Len(p)] = m /\ Len(up[l]) \in Nat
        /\ \A i \in 1..Len(up[l]) : p[i] = up[l][i]
    BY <2>3, ChannelTypes DEF FrameInv
  <2> HIDE DEF p
  <2>5. \A i \in 1..Len(p) : i = Len(p) \/ i \in 1..Len(up[l]) BY <2>4
  <2>6. up' \in [AgentPeers -> Seq(Sent)] /\ up'[l] = p
    BY Zenon, <2>1, <2>3, <2>4 DEF FrameInv, SessionTypes
  <2>7. SessionTypes' BY Zenon, <2>1, <2>2, <2>6 DEF FrameInv, SessionTypes
  <2>8. AgentInv'
    <3>1. ASSUME agent.held PROVE \A i \in 1..Len(p) : Under(p[i], agent.epoch)
      <4>1. \A i \in 1..Len(up[l]) : Under(up[l][i], agent.epoch)
        BY Zenon, <2>0, <3>1 DEF FrameInv, AgentInv, Holding
      <4>2. Under(m, agent.epoch) BY Zenon, <2>3, <3>1 DEF Under
      <4> QED BY Zenon, <2>4, <2>5, <4>1, <4>2
    <3>2. ASSUME agent.held PROVE Holding'
      BY Zenon, <2>0, <2>1, <2>2, <2>6, <3>1, <3>2 DEF FrameInv, AgentInv, Holding
    <3> QED BY <2>0, <2>1, <2>2, <3>2 DEF FrameInv, AgentInv
  <2>9. ChannelInv(l)'
    <3>1. up[l] \in Seq(Sent) /\ ChannelInv(l) BY Zenon, <2>3, ChannelTypes DEF FrameInv
    <3>2. Follows(up[l], p) BY Zenon, <2>3, <2>4 DEF Follows
    <3>3. Framed(p, worker[l]) /\ Called(p, call[l])
      BY Zenon, <3>1, <3>2, FollowsKeeps DEF ChannelInv
    <3>4. Past0(up[l]) /\ Past0(down[l]) BY Zenon, <3>1 DEF ChannelInv
    <3>5. \A i \in 1..Len(p) : IsCurrent(p[i]) => i = Len(p)
      BY Zenon, <2>4, <2>5, <3>4 DEF Past0
    <3>6. OneCurrent(p, down[l]) /\ Activating(p, down[l], worker[l])
      BY Zenon, <3>4, <3>5 DEF OneCurrent, Activating, Past0
    <3>7. l \in opened BY Zenon, <2>0 DEF FrameInv, AgentInv
    <3> QED BY Zenon, <2>1, <2>2, <2>6, <3>1, <3>3, <3>6, <3>7 DEF ChannelInv
  <2>10. ASSUME NEW s \in AgentPeers, s # l PROVE ChannelInv(s)'
    <3>1. up'[s] = up[s] BY Zenon, <2>1, <2>10, ChannelTypes DEF FrameInv
    <3> QED BY Zenon, <2>0, <2>1, <2>2, <2>10, <3>1, ChannelRests DEF FrameInv
  <2> QED BY Zenon, <2>7, <2>8, <2>9, <2>10 DEF FrameInv
<1> QED BY Zenon, <1>1, <1>2

\* The rest of the answers, once the first was looked at.
LEMMA RestOfAnswers ==
  ASSUME NEW q, NEW d \in Seq(Answer), d # <<>>, OneCurrent(q, d)
  PROVE  /\ Tail(d) \in Seq(Answer) /\ OneCurrent(q, Tail(d)) /\ d[1] \in Answer
         /\ Past0(d) => Past0(Tail(d))
         /\ \A w : Activating(q, d, w) => Activating(q, Tail(d), w)
         /\ d[1].type # "frame"
         /\ d[1].current => Past0(q) /\ Past0(Tail(d))
<1>1. /\ Tail(d) \in Seq(Answer) /\ Len(d) \in Nat /\ Len(d) > 0 /\ Len(Tail(d)) = Len(d) - 1
      /\ d[1] \in Answer /\ 1 \in 1..Len(d)
  OBVIOUS
<1>2. \A i \in 1..Len(Tail(d)) : Tail(d)[i] = d[i + 1] /\ i + 1 \in 1..Len(d) /\ i + 1 # 1
  BY <1>1
<1>3. d[1].type # "frame" BY Zenon, <1>1 DEF Answer
<1>4. Past0(d) => Past0(Tail(d)) BY Zenon, <1>2 DEF Past0
<1>5. \A w : Activating(q, d, w) => Activating(q, Tail(d), w) BY Zenon, <1>2 DEF Activating
<1>6. d[1].current => Past0(q) /\ Past0(Tail(d))
  BY Zenon, <1>1, <1>2, <1>3 DEF OneCurrent, Past0, IsCurrent
<1>7. OneCurrent(q, Tail(d))
  <2>1. \A i, j \in 1..Len(Tail(d)) : i + 1 = j + 1 => i = j BY <1>1
  <2> QED BY Zenon, <1>2, <1>4, <2>1 DEF OneCurrent
<1> QED BY Zenon, <1>1, <1>3, <1>4, <1>5, <1>6, <1>7

\* response.
LEMMA ReceiveKeeps ==
  ASSUME FrameInv, AgentReceives
  PROVE  FrameInv'
<1>0. PICK l \in AgentPeers : l = agent.link
  BY Zenon DEF AgentReceives, FrameInv, SessionTypes, Agent
<1> DEFINE r == Head(down[l])
           rest == [down EXCEPT ![l] = Tail(@)]
<1>1. /\ down[l] # <<>> /\ UNCHANGED <<mavVars, operator>>
      /\ UNCHANGED <<worker, stream, call, opened>>
  BY Zenon, <1>0 DEF AgentReceives, mavVars, bridgeVars
<1>2. /\ l # Nobody /\ down[l] \in Seq(Answer) /\ DOMAIN down = AgentPeers /\ ChannelInv(l)
      /\ OneCurrent(up[l], down[l]) /\ l \in opened
  BY Zenon, <1>0, ChannelTypes DEF FrameInv, ChannelInv, AgentInv
<1>3. /\ Tail(down[l]) \in Seq(Answer) /\ OneCurrent(up[l], Tail(down[l]))
      /\ r = down[l][1] /\ r \in Answer /\ r.type # "frame"
      /\ Past0(down[l]) => Past0(Tail(down[l]))
      /\ \A w : Activating(up[l], down[l], w) => Activating(up[l], Tail(down[l]), w)
      /\ r.current => Past0(up[l]) /\ Past0(Tail(down[l])) /\ IsCurrent(r)
  <2>1. r = down[l][1] BY <1>2
  <2> QED BY Zenon, <1>1, <1>2, <2>1, RestOfAnswers DEF IsCurrent
<1>4. /\ rest \in [AgentPeers -> Seq(Answer)] /\ rest[l] = Tail(down[l])
      /\ \A s \in AgentPeers : s # l => rest[s] = down[s]
  BY Zenon, <1>2, <1>3 DEF FrameInv, SessionTypes
<1>5. ASSUME NEW a \in Agent, agent' = a, down' = rest, up' = up, a.link = agent.link,
             ChannelInv(l)', AgentInv'
      PROVE  FrameInv'
  <2>1. SessionTypes' BY Zenon, <1>1, <1>4, <1>5 DEF FrameInv, SessionTypes
  <2>2. ASSUME NEW s \in AgentPeers, s # l PROVE ChannelInv(s)'
    <3>1. down'[s] = down[s] BY Zenon, <1>4, <1>5, <2>2
    <3> QED BY Zenon, <1>0, <1>1, <1>5, <2>2, <3>1, ChannelRests DEF FrameInv
  <2> QED BY Zenon, <1>5, <2>1, <2>2 DEF FrameInv
<1>6. CASE Lose(TRUE, rest) \/ Lose(FALSE, rest)
  BY Zenon, <1>1, <1>4, <1>6, LoseKeeps
<1>7. CASE agent' = agent /\ down' = rest /\ up' = up
  <2>1. AgentInv'
    <3>1. Holding => Holding' BY Zenon, <1>1, <1>7 DEF Holding
    <3> QED BY Zenon, <1>1, <1>7, <3>1 DEF FrameInv, AgentInv
  <2>2. ChannelInv(l)' BY Zenon, <1>1, <1>2, <1>3, <1>4, <1>7 DEF ChannelInv
  <2> QED BY Zenon, <1>5, <1>7, <2>1, <2>2 DEF FrameInv, SessionTypes
<1>8. CASE /\ agent.pending = "renew" /\ agent.held /\ r.current
           /\ agent' = [agent EXCEPT !.pending = "none"] /\ down' = rest /\ up' = up
  <2>1. /\ agent' \in Agent /\ agent'.pending = "none" /\ agent'.held /\ agent'.link = agent.link
        /\ agent'.epoch = agent.epoch /\ agent'.gen = agent.gen /\ agent'.auth = agent.auth
    BY Zenon, <1>8 DEF FrameInv, SessionTypes, Agent
  <2>2. AgentInv'
    <3>1. Holding' BY Zenon, <1>1, <1>8, <2>1 DEF Holding, FrameInv, AgentInv
    <3> QED BY Zenon, <1>0, <1>1, <1>2, <2>1, <3>1 DEF FrameInv, AgentInv
  <2>3. ChannelInv(l)'
    BY Zenon, <1>1, <1>2, <1>3, <1>4, <1>8, <2>1 DEF ChannelInv
  <2> QED BY Zenon, <1>5, <1>8, <2>1, <2>2, <2>3
<1>9. CASE /\ agent.pending = "activate" /\ r.type = "activate" /\ r.current
           /\ agent' = [agent EXCEPT !.held = TRUE, !.epoch = r.epoch, !.pending = "none",
                                     !.gen = @ + 1, !.auth = agent.gen + 1]
           /\ down' = rest /\ up' = up
  <2>1. agent.gen + 1 \in Nat /\ r.epoch \in Nat /\ operator.gen < agent.gen + 1
    <3>1. agent.gen \in Nat /\ operator.gen \in Nat /\ operator.gen <= agent.gen
      BY Zenon DEF FrameInv, SessionTypes, Agent, AgentInv
    <3>2. r.epoch \in Nat BY Zenon, <1>3 DEF Answer
    <3> QED BY <3>1, <3>2
  <2>2. /\ agent' \in Agent /\ agent'.pending = "none" /\ agent'.held /\ agent'.link = agent.link
        /\ agent'.epoch = r.epoch /\ agent'.gen = agent.gen + 1 /\ agent'.auth = agent.gen + 1
    BY Zenon, <1>9, <2>1 DEF FrameInv, SessionTypes, Agent
  <2>3. up[l] = <<>> /\ worker[l] \in {r.epoch, NoPeer}
    <3>1. 1 \in 1..Len(down[l]) BY <1>1, <1>2
    <3>2. Activating(up[l], down[l], worker[l]) BY Zenon, <1>0, <1>2, <1>9 DEF ChannelInv
    <3> QED BY Zenon, <1>3, <1>9, <3>1, <3>2 DEF Activating
  <2>4. Holding'
    <3>1. \A i \in 1..Len(up[l]) : Under(up[l][i], r.epoch) BY <2>3
    <3>2. operator.gen # agent.gen + 1 BY <2>1 DEF FrameInv, SessionTypes, Agent
    <3> QED BY Zenon, <1>0, <1>1, <1>9, <2>2, <2>3, <3>1, <3>2 DEF Holding
  <2>5. AgentInv'
    <3>1. operator.gen <= agent.gen + 1 BY <2>1 DEF FrameInv, SessionTypes
    <3> QED BY Zenon, <1>0, <1>1, <1>2, <2>2, <2>4, <3>1 DEF AgentInv
  <2>6. ChannelInv(l)'
    BY Zenon, <1>1, <1>2, <1>3, <1>4, <1>9, <2>2 DEF ChannelInv
  <2> QED BY Zenon, <1>5, <1>9, <2>2, <2>5, <2>6
<1> QED BY Zenon, <1>0, <1>6, <1>7, <1>8, <1>9 DEF AgentReceives

\* A tick sends a command of the present generation, whose epoch is the held one.
LEMMA SendKeeps ==
  ASSUME FrameInv, AgentSends
  PROVE  FrameInv'
<1>1. /\ operator # NoAsk /\ operator' = NoAsk /\ UNCHANGED mavVars
      /\ UNCHANGED <<worker, stream, call, opened>>
  BY Zenon DEF AgentSends, mavVars, bridgeVars
<1>2. operator' \in [gen : Nat, asked : Nat] /\ operator'.gen = 0 BY Zenon, <1>1 DEF NoAsk
<1>3. 0 <= agent.gen BY DEF FrameInv, SessionTypes, Agent
<1>4. CASE UNCHANGED <<agent, up, down>>
  <2>1. SessionTypes' BY Zenon, <1>1, <1>2, <1>4 DEF FrameInv, SessionTypes
  <2>2. AgentInv'
    <3>1. Holding => Holding' BY Zenon, <1>1, <1>4 DEF Holding
    <3> QED BY Zenon, <1>1, <1>2, <1>3, <1>4, <3>1 DEF FrameInv, AgentInv
  <2>3. ASSUME NEW s \in AgentPeers PROVE ChannelInv(s)'
    BY Zenon, <1>1, <1>4, ChannelRests DEF FrameInv
  <2> QED BY Zenon, <2>1, <2>2, <2>3 DEF FrameInv
<1>5. CASE agent.held /\ operator.gen = agent.auth /\ ~CanText /\ Lose(TRUE, down)
  <2>1. down \in [AgentPeers -> Seq(Answer)] BY Zenon DEF FrameInv, SessionTypes
  <2> QED BY Zenon, <1>1, <1>5, <2>1, LoseKeeps
<1>6. CASE /\ agent.held /\ operator.gen = agent.auth /\ CanText /\ UNCHANGED <<agent, down>>
           /\ up' = [up EXCEPT ![agent.link] =
                       Append(@, [type |-> "frame", asked |-> operator.asked])]
  <2>0. PICK l \in AgentPeers : l = agent.link
    BY Zenon, <1>6 DEF CanText, FrameInv, SessionTypes, Agent
  <2> DEFINE m == [type |-> "frame", asked |-> operator.asked]
             p == Append(up[l], m)
  <2>1. /\ m \in Sent /\ m.type = "frame" /\ m.asked = agent.epoch /\ ~IsCurrent(m)
        /\ Under(m, agent.epoch)
    <3>1. operator.asked = agent.epoch BY Zenon, <1>1, <1>6 DEF FrameInv, AgentInv, Holding
    <3>2. operator.asked \in Nat BY Zenon DEF FrameInv, SessionTypes
    <3> QED BY Zenon, <3>1, <3>2 DEF Sent, IsCurrent, Under
  <2> HIDE DEF m
  <2>2. /\ p \in Seq(Sent) /\ Len(p) = Len(up[l]) + 1 /\ p[Len(p)] = m /\ Len(up[l]) \in Nat
        /\ \A i \in 1..Len(up[l]) : p[i] = up[l][i]
        /\ up[l] # <<>> => p # <<>> /\ p[1] = up[l][1]
    <3>1. up[l] \in Seq(Sent) BY Zenon, ChannelTypes DEF FrameInv
    <3> QED BY <2>1, <3>1
  <2> HIDE DEF p
  <2>3. \A i \in 1..Len(p) : i = Len(p) \/ i \in 1..Len(up[l]) BY <2>2
  <2>4. up' = [up EXCEPT ![l] = p] BY Zenon, <1>6, <2>0 DEF p, m
  <2>5. up' \in [AgentPeers -> Seq(Sent)] /\ up'[l] = p
    BY Zenon, <2>2, <2>4 DEF FrameInv, SessionTypes
  <2>6. SessionTypes' BY Zenon, <1>1, <1>2, <1>6, <2>5 DEF FrameInv, SessionTypes
  <2>7. /\ worker[l] \in {agent.epoch, NoPeer}
        /\ \A i \in 1..Len(p) : Under(p[i], agent.epoch)
    BY Zenon, <1>6, <2>0, <2>1, <2>2, <2>3 DEF FrameInv, AgentInv, Holding
  <2>8. AgentInv'
    <3>1. Holding' BY Zenon, <1>1, <1>6, <2>0, <2>5, <2>7 DEF FrameInv, AgentInv, Holding
    <3> QED BY Zenon, <1>1, <1>2, <1>3, <1>6, <3>1 DEF FrameInv, AgentInv
  <2>9. ChannelInv(l)'
    <3>1. ChannelInv(l) /\ l \in opened /\ agent.pending # "activate"
      BY Zenon, <1>6, <2>0, ChannelTypes DEF FrameInv, AgentInv
    <3>2. Framed(p, worker[l])
      <4>1. ASSUME NEW j \in 1..Len(p), p[j].type = "frame"
            PROVE  p[j].asked = agent.epoch /\ \A i \in 1..j : Under(p[i], agent.epoch)
        <5>1. \A i \in 1..j : i \in 1..Len(p) BY <2>2
        <5>2. p[j].asked = agent.epoch BY Zenon, <2>7, <4>1 DEF Under
        <5> QED BY Zenon, <2>7, <5>1, <5>2
      <4> QED BY Zenon, <2>7, <4>1 DEF Framed
    <3>3. Called(p, call[l]) BY Zenon, <2>2, <3>1 DEF ChannelInv, Called
    <3>4. \A i \in 1..Len(p) : IsCurrent(p[i]) => i \in 1..Len(up[l]) /\ p[i] = up[l][i]
      BY Zenon, <2>1, <2>2, <2>3
    <3>5. OneCurrent(p, down[l]) /\ (Past0(up[l]) => Past0(p))
      BY Zenon, <3>1, <3>4 DEF ChannelInv, OneCurrent, Past0
    <3> QED BY Zenon, <1>1, <1>6, <2>5, <3>1, <3>2, <3>3, <3>5 DEF ChannelInv
  <2>10. ASSUME NEW s \in AgentPeers, s # l PROVE ChannelInv(s)'
    <3>1. up'[s] = up[s] BY Zenon, <2>4, <2>10, ChannelTypes DEF FrameInv
    <3> QED BY Zenon, <1>1, <1>6, <2>10, <3>1, ChannelRests DEF FrameInv
  <2> QED BY Zenon, <2>6, <2>8, <2>9, <2>10 DEF FrameInv
<1> QED BY Zenon, <1>4, <1>5, <1>6 DEF AgentSends

\* send() reads generation and epoch of the control there is.
LEMMA ReadKeeps ==
  ASSUME FrameInv, SendReads
  PROVE  FrameInv'
<1>1. /\ operator' = [gen |-> agent.auth, asked |-> agent.epoch] /\ agent.auth # 0
      /\ UNCHANGED <<worker, stream, call, opened, agent, up, down>>
  BY Zenon DEF SendReads, mavVars, bridgeVars
<1>2. agent.held /\ Holding BY Zenon, <1>1 DEF FrameInv, AgentInv
<1>3. /\ operator' \in [gen : Nat, asked : Nat] /\ operator'.gen = agent.auth
      /\ operator'.asked = agent.epoch /\ agent.auth <= agent.gen
  BY <1>1, <1>2 DEF FrameInv, SessionTypes, Agent, Holding
<1>4. SessionTypes' BY Zenon, <1>1, <1>3 DEF FrameInv, SessionTypes
<1>5. AgentInv'
  <2>1. Holding' BY Zenon, <1>1, <1>2, <1>3 DEF Holding
  <2> QED BY Zenon, <1>1, <1>2, <1>3, <2>1 DEF FrameInv, AgentInv
<1>6. ASSUME NEW s \in AgentPeers PROVE ChannelInv(s)'
  BY Zenon, <1>1, ChannelRests DEF FrameInv
<1> QED BY Zenon, <1>4, <1>5, <1>6 DEF FrameInv

\* Every step of the agent's threads.
LEMMA AgentStepKeeps ==
  ASSUME FrameInv, AgentStep
  PROVE  FrameInv'
<1>0. down \in [AgentPeers -> Seq(Answer)] BY Zenon DEF FrameInv, SessionTypes
<1>1. CASE AgentAcquires BY Zenon, <1>1, AskKeeps DEF AgentAcquires
<1>2. CASE AgentRenews BY Zenon, <1>2, AskKeeps DEF AgentRenews
<1>3. CASE AgentTimeout BY Zenon, <1>0, <1>3, LoseKeeps DEF AgentTimeout
<1>4. CASE AgentGivesUp BY Zenon, <1>0, <1>4, LoseKeeps DEF AgentGivesUp
<1> QED BY Zenon, <1>1, <1>2, <1>3, <1>4, ReceiveKeeps, SendKeeps, DisconnectKeeps, ReadKeeps
        DEF AgentStep

\* The agent gets a channel that never was one before.
LEMMA ConnectKeeps ==
  ASSUME FrameInv, NEW l \in AgentPeers, NEW answered \in BOOLEAN, AgentConnects(l, answered)
  PROVE  FrameInv'
<1>1. /\ agent.link = Nobody /\ agent' = [agent EXCEPT !.link = l] /\ l \notin opened
      /\ opened' = opened \cup {l}
      /\ worker' = IF answered THEN [worker EXCEPT ![l] = 0] ELSE worker
      /\ UNCHANGED <<operator, up, down, call, stream>>
  BY Zenon DEF AgentConnects, OpenPeer
<1>2. /\ agent' \in Agent /\ agent'.link = l /\ agent'.held = agent.held
      /\ agent'.epoch = agent.epoch /\ agent'.gen = agent.gen /\ agent'.auth = agent.auth
      /\ agent'.pending = agent.pending
  BY Zenon, <1>1 DEF FrameInv, SessionTypes, Agent
<1>3. ~agent.held /\ agent.pending = "none" BY Zenon, <1>1 DEF FrameInv, AgentInv
<1>4. worker' \in [Peers -> Nat] /\ \A s \in AgentPeers : s # l => worker'[s] = worker[s]
  BY Zenon, <1>1, MavConstants DEF FrameInv, SessionTypes
<1>5. SessionTypes' BY Zenon, <1>1, <1>2, <1>4 DEF FrameInv, SessionTypes
<1>6. l # Nobody BY Zenon, ChannelTypes DEF FrameInv
<1>7. AgentInv' BY <1>1, <1>2, <1>3, <1>6 DEF FrameInv, AgentInv
<1>8. ChannelInv(l)'
  <2>1. ChannelInv(l) /\ up[l] = <<>> BY Zenon, <1>1 DEF FrameInv, ChannelInv
  <2>2. Framed(up[l], worker'[l]) BY <2>1 DEF Framed
  <2> QED BY Zenon, <1>1, <1>2, <1>3, <1>6, <2>1, <2>2 DEF ChannelInv
<1>9. ASSUME NEW s \in AgentPeers, s # l PROVE ChannelInv(s)'
  <2>1. s # Nobody BY Zenon, ChannelTypes DEF FrameInv
  <2> QED BY Zenon, <1>1, <1>2, <1>4, <1>9, <2>1, ChannelRests DEF FrameInv
<1> QED BY Zenon, <1>5, <1>7, <1>8, <1>9 DEF FrameInv

\* A channel from which the first message was taken.
LEMMA TailKeeps ==
  ASSUME NEW q \in Seq(Sent), q # <<>>
  PROVE  /\ Tail(q) \in Seq(Sent) /\ Head(q) = q[1] /\ q[1] \in Sent
         /\ \A w : Framed(q, w) => Framed(Tail(q), w)
         /\ Past0(q) => Past0(Tail(q))
         /\ \A e : (\A i \in 1..Len(q) : Under(q[i], e))
                     => Under(q[1], e) /\ \A i \in 1..Len(Tail(q)) : Under(Tail(q)[i], e)
         /\ \A d : OneCurrent(q, d) => OneCurrent(Tail(q), d)
                                       /\ (IsCurrent(q[1]) => Past0(Tail(q)) /\ Past0(d))
         /\ (\A i \in 1..Len(q) : IsCurrent(q[i]) => i = Len(q))
              => /\ \A i \in 1..Len(Tail(q)) : IsCurrent(Tail(q)[i]) => i = Len(Tail(q))
                 /\ IsCurrent(q[1]) => Tail(q) = <<>>
         /\ \A w, j : Framed(q, w) /\ j \in 1..Len(Tail(q)) /\ Tail(q)[j].type = "frame"
              => Under(q[1], Tail(q)[j].asked)
                 /\ \A i \in 1..j : Under(Tail(q)[i], Tail(q)[j].asked)
<1> DEFINE t == Tail(q)
           n == Len(q)
<1>1. t \in Seq(Sent) /\ Head(q) = q[1] /\ q[1] \in Sent /\ n \in Nat /\ n > 0 /\ Len(t) = n - 1
  OBVIOUS
<1>2. \A i \in 1..Len(t) : t[i] = q[i + 1]
  OBVIOUS
<1> HIDE DEF t
<1>3. Len(t) = 0 => t = <<>> BY <1>1
<1> HIDE DEF n
<1>4. 1 \in 1..n /\ \A i \in 1..Len(t) : i + 1 \in 1..n /\ i + 1 # 1 /\ (i + 1 = n => i = Len(t))
  BY <1>1
<1>5. \A j \in 1..Len(t) : 1 \in 1..(j + 1) /\ \A i \in 1..j : i + 1 \in 1..(j + 1) /\ i \in 1..Len(t)
  BY <1>1
<1>6. \A w, j : Framed(q, w) /\ j \in 1..Len(t) /\ t[j].type = "frame"
        => /\ w \in {t[j].asked, NoPeer} /\ Under(q[1], t[j].asked)
           /\ \A i \in 1..j : Under(t[i], t[j].asked)
  BY Zenon, <1>2, <1>4, <1>5 DEF Framed, n
<1>7. \A w : Framed(q, w) => Framed(t, w) BY Zenon, <1>6 DEF Framed
<1>8. Past0(q) => Past0(t) BY Zenon, <1>2, <1>4 DEF Past0, n
<1>9. \A e : (\A i \in 1..n : Under(q[i], e))
               => Under(q[1], e) /\ \A i \in 1..Len(t) : Under(t[i], e)
  BY Zenon, <1>2, <1>4
<1>10. \A i, j \in 1..Len(t) : i + 1 = j + 1 => i = j BY <1>1
<1>11. \A d : OneCurrent(q, d) => OneCurrent(t, d)
  BY Zenon, <1>2, <1>4, <1>8, <1>10 DEF OneCurrent, n
<1>12. \A d : OneCurrent(q, d) /\ IsCurrent(q[1]) => Past0(t) /\ Past0(d)
  BY Zenon, <1>2, <1>4 DEF OneCurrent, Past0, n
<1>13. ASSUME \A i \in 1..n : IsCurrent(q[i]) => i = n
       PROVE  /\ \A i \in 1..Len(t) : IsCurrent(t[i]) => i = Len(t)
              /\ IsCurrent(q[1]) => t = <<>>
  <2>1. n = 1 => Len(t) = 0 BY <1>1
  <2> QED BY Zenon, <1>2, <1>3, <1>4, <1>13, <2>1
<1> QED BY Zenon, <1>1, <1>6, <1>7, <1>8, <1>9, <1>11, <1>12, <1>13 DEF t, n

\* The answers, and one more.
LEMMA MoreAnswers ==
  ASSUME NEW d \in Seq(Answer), NEW r \in Answer
  PROVE  /\ Append(d, r) \in Seq(Answer)
         /\ \A i \in 1..Len(Append(d, r)) : \/ Append(d, r)[i] = r /\ i = Len(Append(d, r))
                                            \/ i \in 1..Len(d) /\ Append(d, r)[i] = d[i]
         /\ r.type # "frame" /\ (IsCurrent(r) <=> r.current)
<1>1. /\ Append(d, r) \in Seq(Answer) /\ Len(d) \in Nat /\ Len(Append(d, r)) = Len(d) + 1
      /\ Append(d, r)[Len(d) + 1] = r /\ \A i \in 1..Len(d) : Append(d, r)[i] = d[i]
  OBVIOUS
<1>2. \A i \in 1..(Len(d) + 1) : i = Len(d) + 1 \/ i \in 1..Len(d) BY <1>1
<1>3. r.type # "frame" BY Zenon DEF Answer
<1> QED BY Zenon, <1>1, <1>2, <1>3 DEF IsCurrent

\* The first message of a channel is taken, and perhaps answered.
LEMMA TakenKeeps ==
  ASSUME FrameInv, NEW l \in AgentPeers, up[l] # <<>>, up' = [up EXCEPT ![l] = Tail(@)],
         UNCHANGED <<opened, agent, operator>>,
         call' \in {call, [call EXCEPT ![l] = NoCall]}, call'[l] = NoCall,
         stream' \in [Peers -> Seq([stamp : Nat, asked : Nat])], Stamped(stream'[l]),
         worker' \in [Peers -> Nat],
         \A s \in AgentPeers : s # l => worker'[s] = worker[s] /\ stream'[s] = stream[s],
         Framed(Tail(up[l]), worker'[l]),
         agent.held /\ agent.link = l => worker'[l] \in {agent.epoch, NoPeer},
         \/ down' = down
         \/ \E r \in Answer : /\ l = agent.link /\ down' = [down EXCEPT ![l] = Append(@, r)]
                              /\ r.current <=> IsCurrent(up[l][1])
                              /\ r.type = "activate" => worker'[l] = r.epoch
  PROVE  FrameInv'
<1> DEFINE q == up[l]
           t == Tail(q)
           d == down[l]
<1>1. /\ q \in Seq(Sent) /\ q # <<>> /\ d \in Seq(Answer) /\ ChannelInv(l) /\ l \in Peers
      /\ DOMAIN up = AgentPeers /\ DOMAIN down = AgentPeers /\ SessionTypes /\ l # Nobody
  BY Zenon, ChannelTypes DEF FrameInv
<1> HIDE DEF q
<1>2. /\ t \in Seq(Sent) /\ (Past0(q) => Past0(t))
      /\ \A e : (\A i \in 1..Len(q) : Under(q[i], e)) => \A i \in 1..Len(t) : Under(t[i], e)
      /\ OneCurrent(q, d) => OneCurrent(t, d) /\ (IsCurrent(q[1]) => Past0(t) /\ Past0(d))
      /\ (\A i \in 1..Len(q) : IsCurrent(q[i]) => i = Len(q))
           => /\ \A i \in 1..Len(t) : IsCurrent(t[i]) => i = Len(t)
              /\ IsCurrent(q[1]) => t = <<>>
  BY Zenon, <1>1, TailKeeps
<1>3. 1 \in 1..Len(q) BY <1>1
<1> HIDE DEF t
<1>4. /\ up' \in [AgentPeers -> Seq(Sent)] /\ up'[l] = t
      /\ \A s \in AgentPeers : s # l => up'[s] = up[s]
  BY Zenon, <1>1, <1>2 DEF SessionTypes, q, t
<1>5. /\ call' \in [Peers -> {NoCall} \cup {Asked(m) : m \in Sent}]
      /\ \A s \in AgentPeers : s # l => call'[s] = call[s]
  BY Zenon, <1>1, MavConstants DEF SessionTypes
<1>6. down' \in [AgentPeers -> Seq(Answer)] /\ \A s \in AgentPeers : s # l => down'[s] = down[s]
  <2>1. CASE down' = down BY Zenon, <1>1, <2>1 DEF SessionTypes
  <2>2. ASSUME NEW r \in Answer, down' = [down EXCEPT ![l] = Append(d, r)]
        PROVE  /\ down' \in [AgentPeers -> Seq(Answer)]
               /\ \A s \in AgentPeers : s # l => down'[s] = down[s]
    <3>1. Append(d, r) \in Seq(Answer) BY Zenon, <1>1, MoreAnswers
    <3> QED BY Zenon, <1>1, <2>2, <3>1 DEF SessionTypes
  <2> QED BY Zenon, <2>1, <2>2
<1>7. SessionTypes' BY Zenon, <1>1, <1>4, <1>5, <1>6 DEF SessionTypes
<1>8. AgentInv'
  <2>1. ASSUME agent.held PROVE Holding'
    <3>1. Holding /\ agent.link # Nobody BY Zenon, <2>1 DEF FrameInv, AgentInv
    <3>2. CASE agent.link = l BY Zenon, <1>2, <1>4, <2>1, <3>1, <3>2 DEF Holding, q
    <3>3. CASE agent.link # l
      <4>1. PICK k \in AgentPeers : k = agent.link
        BY Zenon, <1>1, <3>1 DEF SessionTypes, Agent
      <4>2. up'[k] = up[k] /\ worker'[k] = worker[k] BY Zenon, <1>4, <3>3, <4>1
      <4> QED BY Zenon, <3>1, <4>1, <4>2 DEF Holding
    <3> QED BY Zenon, <3>2, <3>3
  <2> QED BY Zenon, <2>1 DEF FrameInv, AgentInv
<1>9. ChannelInv(l)'
  <2>1. /\ OneCurrent(t, d) /\ (IsCurrent(q[1]) => Past0(t) /\ Past0(d))
        /\ l \in opened
        /\ agent.pending = "none" \/ l # agent.link => Past0(t) /\ Past0(d) /\ ~IsCurrent(q[1])
        /\ agent.pending = "activate" /\ l = agent.link =>
             /\ \A i \in 1..Len(t) : IsCurrent(t[i]) => i = Len(t)
             /\ IsCurrent(q[1]) => t = <<>>
             /\ Past0(d)
    BY Zenon, <1>1, <1>2, <1>3 DEF ChannelInv, Activating, Past0, q
  <2>2. Framed(t, worker'[l]) /\ Called(t, call'[l]) BY Zenon DEF Called, t, q
  <2>3. CASE down' = down
    <3>1. agent.pending = "activate" /\ l = agent.link => Activating(t, d, worker'[l])
      BY Zenon, <2>1 DEF Activating, Past0
    <3> QED BY Zenon, <1>4, <2>1, <2>2, <2>3, <3>1 DEF ChannelInv
  <2>4. ASSUME NEW r \in Answer, l = agent.link, down' = [down EXCEPT ![l] = Append(@, r)],
               r.current <=> IsCurrent(q[1]), r.type = "activate" => worker'[l] = r.epoch
        PROVE  ChannelInv(l)'
    <3> DEFINE b == Append(d, r)
    <3>1. /\ \A i \in 1..Len(b) : \/ b[i] = r /\ i = Len(b)
                                  \/ i \in 1..Len(d) /\ b[i] = d[i]
          /\ IsCurrent(r) <=> r.current
      BY Zenon, <1>1, MoreAnswers
    <3>2. down'[l] = b BY Zenon, <1>1, <2>4
    <3> HIDE DEF b, d
    <3>3. Past0(d) /\ ~IsCurrent(q[1]) => Past0(b) BY Zenon, <2>4, <3>1 DEF Past0
    <3>4. OneCurrent(t, b)
      <4>1. CASE IsCurrent(q[1])
        <5>1. Past0(t) /\ Past0(d) BY Zenon, <2>1, <4>1
        <5>2. \A i \in 1..Len(b) : IsCurrent(b[i]) => i = Len(b)
          BY Zenon, <3>1, <5>1 DEF Past0
        <5> QED BY Zenon, <2>1, <5>1, <5>2 DEF OneCurrent
      <4>2. CASE ~IsCurrent(q[1])
        BY Zenon, <2>1, <2>4, <3>1, <3>3, <4>2 DEF OneCurrent
      <4> QED BY Zenon, <4>1, <4>2
    <3>5. agent.pending = "activate" => Activating(t, b, worker'[l])
      BY Zenon, <2>1, <2>4, <3>1 DEF Activating, Past0
    <3> QED BY Zenon, <1>4, <2>1, <2>2, <2>4, <3>2, <3>3, <3>4, <3>5 DEF ChannelInv
  <2> QED BY Zenon, <2>3, <2>4 DEF q
<1>10. ASSUME NEW s \in AgentPeers, s # l PROVE ChannelInv(s)'
  BY Zenon, <1>4, <1>5, <1>6, <1>10, ChannelRests DEF FrameInv
<1> QED BY Zenon, <1>7, <1>8, <1>9, <1>10 DEF FrameInv

\* A channel hands the worker what the agent sent.
LEMMA DeliverKeeps ==
  ASSUME FrameInv, NEW l \in AgentPeers, ChannelDelivers(l)
  PROVE  FrameInv'
<1> DEFINE m == Head(up[l])
<1>1. /\ up[l] \in Seq(Sent) /\ up[l] # <<>> /\ l \in Peers /\ ChannelInv(l) /\ SessionTypes
      /\ stream[l] \in Seq([stamp : Nat, asked : Nat]) /\ worker[l] \in Nat
  BY Zenon, ChannelTypes DEF FrameInv, ChannelDelivers
<1>2. m = up[l][1] /\ m \in Sent /\ Framed(Tail(up[l]), worker[l]) /\ Stamped(stream[l])
  BY Zenon, <1>1, TailKeeps DEF ChannelInv
<1>3. /\ UNCHANGED <<opened, agent, operator, down, worker>> /\ call[l] = NoCall
      /\ agent.held /\ agent.link = l => worker[l] \in {agent.epoch, NoPeer}
  <2>1. UNCHANGED <<opened, agent, operator, down, worker>> /\ call[l] = NoCall
    BY Zenon DEF ChannelDelivers, WorkerFrame, WorkerControl
  <2> QED BY Zenon, <2>1 DEF FrameInv, AgentInv, Holding
<1>4. 1 \in 1..Len(up[l]) BY <1>1
<1> HIDE DEF m
<1>5. CASE m.type = "frame"
  <2>1. /\ up' = [up EXCEPT ![l] = Tail(@)] /\ call' = call
        /\ stream' = IF worker[l] \notin {0, NoPeer} /\ l \in known
                     THEN [stream EXCEPT ![l] = Append(@, [stamp |-> worker[l], asked |-> m.asked])]
                     ELSE stream
    BY Zenon, <1>5 DEF ChannelDelivers, WorkerFrame, m
  <2>2. worker[l] \in {m.asked, NoPeer} BY Zenon, <1>1, <1>2, <1>4, <1>5 DEF ChannelInv, Framed
  <2>3. m.asked \in Nat BY Zenon, <1>2, <1>5 DEF Sent
  <2>4. /\ stream' \in [Peers -> Seq([stamp : Nat, asked : Nat])] /\ Stamped(stream'[l])
        /\ \A s \in AgentPeers : s # l => stream'[s] = stream[s]
    <3>1. CASE stream' = stream BY Zenon, <1>1, <1>2, <3>1 DEF SessionTypes
    <3>2. CASE stream' # stream
      <4> DEFINE f == [stamp |-> worker[l], asked |-> m.asked]
                 a == Append(stream[l], f)
      <4>1. stream' = [stream EXCEPT ![l] = a] /\ worker[l] = m.asked
        BY Zenon, <2>1, <2>2, <3>2
      <4>2. f \in [stamp : Nat, asked : Nat] /\ f.stamp = f.asked BY Zenon, <1>1, <2>3, <4>1
      <4> HIDE DEF f
      <4>3. /\ a \in Seq([stamp : Nat, asked : Nat]) /\ Len(stream[l]) \in Nat
            /\ Len(a) = Len(stream[l]) + 1 /\ a[Len(stream[l]) + 1] = f
            /\ \A i \in 1..Len(stream[l]) : a[i] = stream[l][i]
        BY <1>1, <4>2
      <4>4. \A i \in 1..(Len(stream[l]) + 1) : i = Len(stream[l]) + 1 \/ i \in 1..Len(stream[l])
        BY <4>3
      <4> HIDE DEF a
      <4>5. Stamped(a) BY Zenon, <1>2, <4>2, <4>3, <4>4 DEF Stamped
      <4>6. \A s \in AgentPeers : s \in Peers BY Zenon, MavConstants
      <4> QED BY Zenon, <1>1, <4>1, <4>3, <4>5, <4>6 DEF SessionTypes
    <3> QED BY Zenon, <3>1, <3>2
  <2> QED BY Zenon, <1>1, <1>2, <1>3, <2>1, <2>4, TakenKeeps DEF SessionTypes
<1>6. CASE m.type # "frame" /\ call' = call
  <2>1. up' = [up EXCEPT ![l] = Tail(@)] /\ stream' = stream
    BY Zenon, <1>6 DEF ChannelDelivers, WorkerControl, m
  <2> QED BY Zenon, <1>1, <1>2, <1>3, <1>6, <2>1, TakenKeeps DEF SessionTypes
<1>7. CASE m.type # "frame" /\ call' # call
  <2>1. call' = [call EXCEPT ![l] = Asked(m)] /\ stream' = stream
    BY Zenon, <1>7 DEF ChannelDelivers, WorkerControl, m
  <2>2. up' = up
    <3>1. up' = [up EXCEPT ![l] = up[l]] BY Zenon, <1>7 DEF ChannelDelivers, m
    <3> QED BY Zenon, <1>1, <3>1 DEF SessionTypes
  <2>3. /\ call' \in [Peers -> {NoCall} \cup {Asked(n) : n \in Sent}] /\ call'[l] = Asked(m)
        /\ \A s \in AgentPeers : s # l => call'[s] = call[s]
    BY Zenon, <1>1, <1>2, <2>1, MavConstants DEF SessionTypes
  <2>4. SessionTypes' BY Zenon, <1>1, <1>3, <2>1, <2>2, <2>3 DEF SessionTypes
  <2>5. AgentInv'
    <3>1. Holding => Holding' BY Zenon, <1>3, <2>2 DEF Holding
    <3> QED BY Zenon, <1>3, <3>1 DEF FrameInv, AgentInv
  <2>6. ChannelInv(l)'
    <3>1. Called(up[l], call'[l]) BY Zenon, <1>1, <1>2, <1>7, <2>3 DEF Called
    <3> QED BY Zenon, <1>1, <1>3, <2>1, <2>2, <3>1 DEF ChannelInv
  <2>7. ASSUME NEW s \in AgentPeers, s # l PROVE ChannelInv(s)'
    BY Zenon, <1>3, <2>1, <2>2, <2>3, <2>7, ChannelRests DEF FrameInv
  <2> QED BY Zenon, <2>4, <2>5, <2>6, <2>7 DEF FrameInv
<1> QED BY Zenon, <1>5, <1>6, <1>7

\* A renewal is accepted under the epoch of the lease only, the last one there is.
LEMMA RenewedEpoch ==
  ASSUME MavInv, NEW s \in Peers, NEW r, r.type = "renew",
         Accepted(ClearExpired(lease), s, r)
  PROVE  HandleControlMessage(s, r).nextEpoch = r.epoch
<1> DEFINE c == ClearExpired(lease)
<1>1. GoodLease(c) BY Zenon, ClearExpiredMoves DEF MavInv, Moves
<1>2. Accepted(c, s, r) BY Zenon
<1>3. HandleControlMessage(s, r) = Extended(c) BY Zenon, <1>2 DEF HandleControlMessage
<1> HIDE DEF c
<1>4. Owns(c, s, r.epoch) BY Zenon, <1>2 DEF Accepted
<1>5. c.active # NoLease BY Zenon, <1>4, MavConstants DEF Owns
<1>6. c.nextEpoch = r.epoch BY Zenon, <1>1, <1>4, <1>5 DEF GoodLease, Owns
<1>7. Extended(c).nextEpoch = c.nextEpoch BY Zenon, <1>1 DEF GoodLease, Lease, Extended
<1> QED BY Zenon, <1>3, <1>6, <1>7

\* The daemon handles what the agent asked for.
LEMMA AnswerKeeps ==
  ASSUME MavInv, FrameInv, NEW l \in AgentPeers, NEW answered \in BOOLEAN,
         ControlAnswered(l, answered)
  PROVE  FrameInv'
<1> DEFINE m == Head(up[l])
           ok == Accepted(ClearExpired(lease), l, call[l])
           w == lease'.nextEpoch
<1>1. /\ up[l] \in Seq(Sent) /\ l \in Peers /\ ChannelInv(l) /\ SessionTypes
      /\ call[l] # NoCall /\ DaemonControl(l, call[l], answered)
  BY Zenon, ChannelTypes DEF FrameInv, ControlAnswered
<1>2. up[l] # <<>> /\ up[l][1].type # "frame" /\ call[l] = Asked(up[l][1])
  BY Zenon, <1>1 DEF ChannelInv, Called
<1>3. /\ m = up[l][1] /\ m \in Sent /\ Framed(Tail(up[l]), worker[l])
      /\ \A j \in 1..Len(Tail(up[l])) : Tail(up[l])[j].type = "frame"
           => /\ Under(m, Tail(up[l])[j].asked)
              /\ \A i \in 1..j : Under(Tail(up[l])[i], Tail(up[l])[j].asked)
      /\ \A e : (\A i \in 1..Len(up[l]) : Under(up[l][i], e)) => Under(m, e)
  BY Zenon, <1>1, <1>2, TailKeeps DEF ChannelInv
<1>4. /\ up' = [up EXCEPT ![l] = Tail(@)] /\ call' = [call EXCEPT ![l] = NoCall]
      /\ UNCHANGED <<opened, agent, operator, stream>>
      /\ worker' = IF answered /\ ok THEN [worker EXCEPT ![l] = w] ELSE worker
      /\ lease' = HandleControlMessage(l, call[l])
  BY Zenon, <1>1 DEF ControlAnswered, DaemonControl
<1>5. GoodLease(lease') BY Zenon, <1>1, DaemonControlStep DEF MavInv
<1>6. w \in Nat /\ lease'.active.session \in Peers \cup {Nobody}
  BY Zenon, <1>5, MavConstants DEF GoodLease, Lease, NoLease
<1> HIDE DEF m
<1>7. ASSUME ok, m.type = "renew" PROVE w = m.epoch
  <2>1. call[l].type = "renew" /\ call[l].epoch = m.epoch BY <1>2, <1>3, <1>7 DEF Asked
  <2> QED BY Zenon, <1>1, <1>4, <1>7, <2>1, RenewedEpoch
<1>8. /\ worker' \in [Peers -> Nat] /\ \A s \in AgentPeers : s # l => worker'[s] = worker[s]
      /\ worker'[l] = IF answered /\ ok THEN w ELSE worker[l]
      /\ call'[l] = NoCall
  BY Zenon, <1>1, <1>4, <1>6, MavConstants DEF SessionTypes
<1> HIDE DEF ok, w
<1>9. \A e : Under(m, e) => m.type = "renew" /\ m.epoch = e BY Zenon, <1>2, <1>3 DEF Under
<1>10. Framed(Tail(up[l]), worker'[l])
  <2>1. CASE worker'[l] = worker[l] BY Zenon, <1>3, <2>1
  <2>2. CASE ok /\ worker'[l] = w
    BY Zenon, <1>3, <1>7, <1>9, <2>2 DEF Framed
  <2> QED BY Zenon, <1>8, <2>1, <2>2
<1>11. ASSUME agent.held, agent.link = l PROVE worker'[l] \in {agent.epoch, NoPeer}
  <2>1. Holding BY Zenon, <1>11 DEF FrameInv, AgentInv
  <2>2. worker[l] \in {agent.epoch, NoPeer} /\ Under(m, agent.epoch)
    BY Zenon, <1>3, <1>11, <2>1 DEF Holding
  <2> QED BY Zenon, <1>7, <1>8, <1>9, <2>2
<1>12. \/ down' = down
       \/ \E r \in Answer : /\ l = agent.link /\ down' = [down EXCEPT ![l] = Append(@, r)]
                            /\ r.current <=> IsCurrent(up[l][1])
                            /\ r.type = "activate" => worker'[l] = r.epoch
  <2> DEFINE yes == [type |-> m.type, current |-> m.current,
                     owner |-> lease'.active.session, epoch |-> w]
             no == [type |-> "error", current |-> m.current, owner |-> Nobody, epoch |-> 0]
             r == IF ok THEN yes ELSE no
  <2>1. m.type \in {"activate", "renew", "release"} /\ m.current \in BOOLEAN
    BY Zenon, <1>2, <1>3 DEF Sent
  <2>2. yes \in Answer /\ yes.current = m.current /\ yes.epoch = w
    BY Zenon, <1>6, <2>1 DEF Answer
  <2>3. no \in Answer /\ no.current = m.current /\ no.type # "activate"
    BY Zenon, <2>1 DEF Answer
  <2>4. IsCurrent(up[l][1]) <=> m.current BY Zenon, <1>2, <1>3 DEF IsCurrent
  <2>5. down' = IF answered /\ l = agent.link /\ Len(down[l]) < Channel
                THEN [down EXCEPT ![l] = Append(@, r)] ELSE down
    BY Zenon DEF ControlAnswered, m, ok, w
  <2> HIDE DEF yes, no
  <2>6. CASE down' # down
    <3>1. answered /\ l = agent.link /\ down' = [down EXCEPT ![l] = Append(@, r)]
      BY Zenon, <2>5, <2>6
    <3>2. /\ r \in Answer /\ (r.current <=> IsCurrent(up[l][1]))
          /\ r.type = "activate" => worker'[l] = r.epoch
      BY Zenon, <1>8, <2>2, <2>3, <2>4, <3>1
    <3> QED BY Zenon, <3>1, <3>2
  <2> QED BY Zenon, <2>6
<1>13. stream' \in [Peers -> Seq([stamp : Nat, asked : Nat])] /\ Stamped(stream'[l])
  BY Zenon, <1>1, <1>4 DEF SessionTypes, ChannelInv
<1> QED BY Zenon, <1>2, <1>4, <1>8, <1>10, <1>11, <1>12, <1>13, TakenKeeps

\* What is dropped, closed or ended elsewhere takes no frame and brings none.
LEMMA RestKeeps ==
  ASSUME FrameInv, UNCHANGED sessionVars, opened \subseteq opened',
         worker' \in [Peers -> Nat], stream' \in [Peers -> Seq([stamp : Nat, asked : Nat])],
         call' \in [Peers -> {NoCall} \cup {Asked(m) : m \in Sent}],
         \A s \in AgentPeers : /\ worker'[s] \in {worker[s], NoPeer}
                               /\ call'[s] \in {call[s], NoCall} /\ Stamped(stream'[s])
  PROVE  FrameInv'
<1>1. UNCHANGED <<agent, operator, up, down>> BY Zenon DEF sessionVars
<1>2. SessionTypes' BY Zenon, <1>1 DEF FrameInv, SessionTypes
<1>3. AgentInv'
  <2>1. ASSUME agent.held PROVE Holding'
    <3>1. Holding /\ agent.link # Nobody BY Zenon, <2>1 DEF FrameInv, AgentInv
    <3>2. PICK k \in AgentPeers : k = agent.link BY Zenon, <3>1 DEF FrameInv, SessionTypes, Agent
    <3>3. worker'[k] \in {worker[k], NoPeer} BY Zenon
    <3> QED BY Zenon, <1>1, <3>1, <3>2, <3>3 DEF Holding
  <2> QED BY Zenon, <1>1, <2>1 DEF FrameInv, AgentInv
<1>4. ASSUME NEW s \in AgentPeers PROVE ChannelInv(s)'
  <2>1. ChannelInv(s) BY Zenon DEF FrameInv
  <2>2. Framed(up[s], worker'[s]) BY Zenon, <2>1 DEF ChannelInv, Framed
  <2>3. Called(up[s], call'[s]) BY Zenon, <2>1 DEF ChannelInv, Called
  <2>4. Activating(up[s], down[s], worker[s]) => Activating(up[s], down[s], worker'[s])
    BY Zenon DEF Activating
  <2> QED BY Zenon, <1>1, <2>1, <2>2, <2>3, <2>4 DEF ChannelInv
<1> QED BY Zenon, <1>2, <1>3, <1>4 DEF FrameInv

\* A stream from which the first frame was taken, or all of them.
LEMMA StreamTail ==
  ASSUME SessionTypes, NEW s \in Peers,
         stream' \in {[stream EXCEPT ![s] = <<>>],
                      [stream EXCEPT ![s] = IF @ = <<>> THEN @ ELSE Tail(@)]}
  PROVE  /\ stream' \in [Peers -> Seq([stamp : Nat, asked : Nat])]
         /\ \A r \in Peers : Stamped(stream[r]) => Stamped(stream'[r])
<1> DEFINE q == stream[s]
           F == [stamp : Nat, asked : Nat]
<1>1. PICK p \in {<<>>, IF q = <<>> THEN q ELSE Tail(q)} : stream' = [stream EXCEPT ![s] = p]
  BY Zenon
<1>2. q \in Seq(F) BY Zenon DEF SessionTypes
<1> HIDE DEF q, F
<1>3. p \in Seq(F)
  <2>1. CASE p = <<>> BY <2>1
  <2>2. CASE q # <<>> /\ p = Tail(q) BY <1>2, <2>2
  <2> QED BY Zenon, <1>1, <2>1, <2>2
<1>4. \A i \in 1..Len(p) : \E j \in 1..Len(q) : p[i] = q[j]
  <2>1. CASE p = <<>> BY <2>1
  <2>2. CASE q # <<>> /\ p = Tail(q)
    <3>1. \A i \in 1..Len(p) : i + 1 \in 1..Len(q) /\ p[i] = q[i + 1] BY <1>2, <2>2
    <3> QED BY Zenon, <3>1
  <2> QED BY Zenon, <1>1, <2>1, <2>2
<1>5. Stamped(q) => Stamped(p) BY Zenon, <1>4 DEF Stamped
<1> QED BY Zenon, <1>1, <1>3, <1>5 DEF SessionTypes, q, F

\* The board's own steps, and the Office.
LEMMA BoardStepKeeps ==
  ASSUME FrameInv, BoardStep
  PROVE  FrameInv'
<1>1. SessionTypes /\ UNCHANGED sessionVars /\ NoPeer \in Nat
  <2>1. SessionTypes /\ UNCHANGED sessionVars BY Zenon DEF FrameInv, BoardStep
  <2>2. NoPeer \in Nat BY MavAssumption DEF NoPeer
  <2> QED BY Zenon, <2>1, <2>2
<1>2. \A s \in AgentPeers : s \in Peers /\ Stamped(stream[s])
  BY Zenon, MavConstants DEF FrameInv, ChannelInv
<1>3. ASSUME UNCHANGED <<opened, worker, call, stream>> PROVE FrameInv'
  BY Zenon, <1>1, <1>2, <1>3, RestKeeps DEF SessionTypes
<1>4. ASSUME UNCHANGED <<opened, worker, call>>, NEW s \in Peers,
             stream' \in {[stream EXCEPT ![s] = <<>>],
                          [stream EXCEPT ![s] = IF @ = <<>> THEN @ ELSE Tail(@)]}
      PROVE  FrameInv'
  BY Zenon, <1>1, <1>2, <1>4, StreamTail, RestKeeps DEF SessionTypes
<1>5. ASSUME NEW s \in Peers, NEW stamp, HandleFrame(s, stamp) PROVE FrameInv'
  <2>1. CASE FrameDropped(s, stamp) BY Zenon, <1>4, <2>1 DEF FrameDropped
  <2>2. CASE FrameFails(s, stamp) BY Zenon, <1>4, <2>2 DEF FrameFails
  <2>3. CASE \E manual \in BOOLEAN : FrameAccepted(s, stamp, manual)
    BY Zenon, <1>4, <2>3 DEF FrameAccepted
  <2> QED BY Zenon, <1>5, <2>1, <2>2, <2>3 DEF HandleFrame
<1>6. CASE DaemonStep
  BY Zenon, <1>3, <1>6 DEF DaemonStep, TickWatchdogs, Advance, FlightSafe, bridgeVars
<1>7. ASSUME NEW s \in Peers, PeerStep(s) PROVE FrameInv'
  <2>1. CASE CloseMavlinkDataChannel(s)
    <3>1. /\ worker' = [worker EXCEPT ![s] = NoPeer] /\ UNCHANGED <<opened, call>>
          /\ stream' = [stream EXCEPT ![s] = <<>>]
      BY Zenon, <2>1 DEF CloseMavlinkDataChannel
    <3>2. worker' \in [Peers -> Nat] /\ \A r \in Peers : worker'[r] \in {worker[r], NoPeer}
      BY Zenon, <1>1, <3>1 DEF SessionTypes
    <3> QED BY Zenon, <1>1, <1>2, <3>1, <3>2, StreamTail, RestKeeps DEF SessionTypes
  <2>2. CASE StreamBreaks(s) BY Zenon, <1>4, <2>2 DEF StreamBreaks
  <2>3. CASE CloseLost(s) \/ ClosePeer(s) BY Zenon, <1>3, <2>3 DEF CloseLost, ClosePeer
  <2> QED BY Zenon, <1>5, <1>7, <2>1, <2>2, <2>3 DEF PeerStep
<1>8. ASSUME NEW s \in OfficePeers, ClientStep(s) PROVE FrameInv'
  <2>0. s \in Peers /\ s \notin AgentPeers BY Zenon DEF OfficePeers
  <2>1. ASSUME NEW answered \in BOOLEAN, OpenPeer(s, answered) PROVE FrameInv'
    <3>1. /\ opened \subseteq opened' /\ UNCHANGED <<call, stream>>
          /\ worker' = IF answered THEN [worker EXCEPT ![s] = 0] ELSE worker
      BY Zenon, <2>1 DEF OpenPeer
    <3>2. worker' \in [Peers -> Nat] BY Zenon, <1>1, <3>1 DEF SessionTypes
    <3>3. \A r \in AgentPeers : worker'[r] = worker[r]
      BY Zenon, <1>1, <1>2, <2>0, <3>1 DEF SessionTypes
    <3> QED BY Zenon, <1>1, <1>2, <3>1, <3>2, <3>3, RestKeeps DEF SessionTypes
  <2>2. ASSUME NEW r, DaemonControl(s, r, FALSE) PROVE FrameInv'
    <3>1. UNCHANGED <<opened, worker, stream>> /\ call' = [call EXCEPT ![s] = NoCall]
      BY Zenon, <2>2 DEF DaemonControl
    <3>2. /\ call' \in [Peers -> {NoCall} \cup {Asked(m) : m \in Sent}]
          /\ \A p \in AgentPeers : call'[p] = call[p]
      BY Zenon, <1>1, <1>2, <2>0, <3>1 DEF SessionTypes
    <3> QED BY Zenon, <1>1, <1>2, <3>1, <3>2, RestKeeps DEF SessionTypes
  <2> QED BY Zenon, <1>5, <1>8, <2>0, <2>1, <2>2 DEF ClientStep
<1> QED BY Zenon, <1>6, <1>7, <1>8 DEF BoardStep

\* Every step.
LEMMA FrameNextStep ==
  ASSUME MavInv, FrameInv, [Next]_boardVars
  PROVE  FrameInv'
<1>1. SessionTypes /\ \A s \in AgentPeers : s \in Peers /\ Stamped(stream[s])
  BY Zenon, MavConstants DEF FrameInv, ChannelInv
<1>2. ASSUME UNCHANGED agentVars PROVE FrameInv'
  BY Zenon, <1>1, <1>2, RestKeeps DEF agentVars, mavVars, bridgeVars, SessionTypes
<1>3. CASE UNCHANGED boardVars BY Zenon, <1>2, <1>3 DEF boardVars
<1>4. CASE McpNext BY Zenon, <1>2, <1>4 DEF McpNext
<1>5. CASE DaemonGone
  <2>1. /\ call' = [s \in Peers |-> NoCall] /\ stream' = [s \in Peers |-> <<>>]
        /\ UNCHANGED <<opened, worker, sessionVars>>
    BY Zenon, <1>5 DEF DaemonGone
  <2>2. <<>> \in Seq([stamp : Nat, asked : Nat]) /\ Stamped(<<>>) BY DEF Stamped
  <2> QED BY Zenon, <1>1, <2>1, <2>2, RestKeeps DEF SessionTypes
<1>6. ASSUME NEW s \in AgentPeers, ChannelStep(s) PROVE FrameInv'
  BY Zenon, <1>6, ConnectKeeps, AnswerKeeps, DeliverKeeps DEF ChannelStep
<1>7. CASE MavlinkNext BY Zenon, <1>6, <1>7, AgentStepKeeps, BoardStepKeeps DEF MavlinkNext
<1> QED BY Zenon, <1>3, <1>4, <1>5, <1>7 DEF Next, PublishOffline, DaemonCrash

\* Nothing is under way when the daemon starts.
LEMMA InitFrameInv == Init => FrameInv
<1> SUFFICES ASSUME Init PROVE FrameInv OBVIOUS
<1>1. /\ worker = [s \in Peers |-> NoPeer] /\ call = [s \in Peers |-> NoCall]
      /\ stream = [s \in Peers |-> <<>>] /\ operator = NoAsk
      /\ up = [s \in AgentPeers |-> <<>>] /\ down = [s \in AgentPeers |-> <<>>]
  BY Zenon DEF Init, MavInit, SessionInit
<1>2. PICK gen \in Generation : agent = [link |-> Nobody, held |-> FALSE, epoch |-> 0,
                                        pending |-> "none", gen |-> gen, auth |-> 0]
  BY Zenon DEF Init, SessionInit
<1>3. gen \in Nat BY DEF Generation
<1>4. /\ agent \in Agent /\ agent.link = Nobody /\ ~agent.held /\ agent.pending = "none"
      /\ agent.auth = 0 /\ agent.gen = gen
  BY Zenon, <1>2, <1>3 DEF Agent
<1>5. operator \in [gen : Nat, asked : Nat] /\ operator.gen <= agent.gen
  BY <1>1, <1>3, <1>4 DEF NoAsk
<1>6. NoPeer \in Nat BY MavAssumption DEF NoPeer
<1>7. /\ <<>> \in Seq(Sent) /\ <<>> \in Seq(Answer) /\ <<>> \in Seq([stamp : Nat, asked : Nat])
      /\ Stamped(<<>>) /\ Past0(<<>>) /\ OneCurrent(<<>>, <<>>) /\ Framed(<<>>, NoPeer)
  BY DEF Stamped, Past0, OneCurrent, Framed
<1>8. SessionTypes BY Zenon, <1>1, <1>4, <1>5, <1>6, <1>7 DEF SessionTypes
<1>9. AgentInv BY Zenon, <1>4, <1>5 DEF AgentInv
<1>10. ASSUME NEW s \in AgentPeers PROVE ChannelInv(s)
  <2>1. s \in Peers BY Zenon, MavConstants
  <2> QED BY Zenon, <1>1, <1>4, <1>7, <2>1 DEF ChannelInv, Called
<1> QED BY Zenon, <1>8, <1>9, <1>10 DEF FrameInv

\* In every state of every behaviour what the agent has sent, the worker's epoch and
\* the agent's own belief agree as FrameInv says.
THEOREM FrameInductive == Spec => [](MavInv /\ FrameInv)
<1>1. MavInv /\ FrameInv /\ [Next]_boardVars => MavInv' /\ FrameInv'
  BY Zenon, MavNextStep, FrameNextStep
<1> QED BY InitMavInv, InitFrameInv, <1>1, PTL DEF Spec

\* A frame of the agent that the daemon passes to the flight controller was asked
\* for under the lease that is active, whatever was lost, delayed or given up
\* between send(), the agent's tick, the worker's stamp and the daemon's loop.
THEOREM FrameUnderLeaseHolds == Spec => FrameUnderLease
<1> DEFINE A == \A s \in AgentPeers, manual \in BOOLEAN :
                  stream[s] # <<>> /\ FrameAccepted(s, Head(stream[s]).stamp, manual)
                    => Owns(lease, s, Head(stream[s]).asked)
<1>1. ASSUME MavInv, FrameInv PROVE A
  <2> SUFFICES ASSUME NEW s \in AgentPeers, NEW manual \in BOOLEAN, stream[s] # <<>>,
                      FrameAccepted(s, Head(stream[s]).stamp, manual)
               PROVE  Owns(lease, s, Head(stream[s]).asked)
    BY Zenon
  <2>1. /\ stream[s] \in Seq([stamp : Nat, asked : Nat]) /\ s # Nobody /\ Stamped(stream[s])
    BY Zenon, <1>1, ChannelTypes DEF FrameInv, ChannelInv
  <2>2. 1 \in 1..Len(stream[s]) /\ Head(stream[s]) = stream[s][1] BY <2>1
  <2>3. Head(stream[s]).stamp = Head(stream[s]).asked BY Zenon, <2>1, <2>2 DEF Stamped
  <2>4. Owns(ClearExpired(lease), s, Head(stream[s]).stamp) BY Zenon DEF FrameAccepted
  <2>5. ClearExpired(lease).active # NoLease BY Zenon, <2>1, <2>4, MavConstants DEF Owns
  <2>6. ClearExpired(lease) = lease BY Zenon, <1>1, <2>5, ClearExpiredMoves DEF MavInv
  <2> QED BY Zenon, <2>3, <2>4, <2>6
<1>2. MavInv /\ FrameInv => [A]_boardVars BY Zenon, <1>1
<1> QED BY FrameInductive, <1>2, PTL DEF FrameUnderLease

-----------------------------------------------------------------------------
(* MCP control and the motors.                                              *)

\* A lease is that of a session; a call that was given up on is remembered as a
\* failure for as long as the worker can still get to it, which outlives neither
\* the worker nor its epoch.
McpInv ==
  /\ McpTypeOK
  /\ mcp.active = NoActive \/ (mcp.active.session \in McpSessions /\ mcp.active.epoch # 0)
  /\ late = NoTwist \/ (late.epoch # 0 /\ failed /\ motor.state # "down")
  /\ MotionUnderLease

\* What the assumptions on the constants say of the times and bounds of McpServer.
LEMMA McpConstants ==
  /\ NoOne \notin McpSessions /\ ActiveTTL \in Nat /\ MotorTimeout \in Nat
  /\ ActiveTTL > 0 /\ MotorTimeout > 0 /\ MaxGrants \in Nat /\ MaxFaults \in Nat
  /\ Never \in Nat /\ ActiveTTL < Never /\ MotorTimeout < Never
<1>1. /\ ActiveTTL \in Nat \ {0} /\ MotorTimeout \in Nat \ {0}
      /\ MaxGrants \in Nat /\ MaxFaults \in Nat /\ NoOne \notin McpSessions
  BY Zenon, McpAssumption DEF McpSessions
<1> QED BY <1>1 DEF Never

\* Writing a speed: the state stays or becomes error, and only a write that
\* succeeds leaves the deadline and the speed that were asked for.
LEMMA WriteFacts ==
  ASSUME NEW m \in Motor, NEW speed \in BOOLEAN, NEW force \in BOOLEAN,
         NEW n \in Write(m, speed, force)
  PROVE  /\ n \in Motor /\ n.by = m.by /\ n.state \in {m.state, "error"}
         /\ n.state # "error" => n.turning = speed /\ n.deadline = m.deadline
<1>1. CASE n = m /\ ~speed /\ ~m.turning BY Zenon, <1>1 DEF Motor
<1>2. CASE n = [m EXCEPT !.turning = speed] BY Zenon, <1>2 DEF Motor
<1>3. ASSUME NEW t \in BOOLEAN,
             n = [m EXCEPT !.state = "error", !.deadline = Never, !.turning = t]
      PROVE  n \in Motor /\ n.by = m.by /\ n.state = "error"
  <2> DEFINE a == [m EXCEPT !.state = "error"]
             b == [a EXCEPT !.deadline = Never]
  <2>1. n = [b EXCEPT !.turning = t] BY Zenon, <1>3
  <2>2. a \in Motor /\ a.by = m.by /\ a.state = "error" BY Zenon DEF Motor
  <2> HIDE DEF a
  <2>3. b \in Motor /\ b.by = m.by /\ b.state = "error" BY <2>2, McpConstants DEF Motor
  <2> HIDE DEF b
  <2> QED BY Zenon, <2>1, <2>3 DEF Motor
<1>4. CASE n \in Broken(m, speed)
  <2>1. PICK t \in {FALSE, m.turning \/ speed} :
          n = [m EXCEPT !.state = "error", !.deadline = Never, !.turning = t]
    BY Zenon, <1>4 DEF Broken
  <2>2. t \in BOOLEAN BY Zenon, <2>1 DEF Motor
  <2> QED BY Zenon, <1>3, <2>1, <2>2
<1> QED BY Zenon, <1>1, <1>2, <1>4 DEF Write

\* After Stop of the worker the motors stand, or are broken.
LEMMA StopMotorFacts ==
  ASSUME NEW m \in Motor, NEW force \in BOOLEAN, NEW n \in StopMotor(m, force)
  PROVE  /\ n \in Motor /\ n.state \in {m.state, "error"}
         /\ n.state # "error" => ~n.turning
<1> DEFINE d == [m EXCEPT !.deadline = Never]
<1>1. d \in Motor /\ d.state = m.state BY McpConstants DEF Motor
<1>2. n \in Write(d, FALSE, force) BY Zenon DEF StopMotor
<1> HIDE DEF d
<1> QED BY Zenon, <1>1, <1>2, WriteFacts

\* A velocity moves the motors only for its epoch and within its deadline.
LEMMA VelocityFacts ==
  ASSUME NEW m \in Motor, NEW e \in Grants, NEW left \in 0..ActiveTTL,
         NEW speed \in BOOLEAN, NEW n \in ApplyVelocity(m, e, left, speed)
  PROVE  /\ n \in Motor /\ n.state \in {m.state, "error"}
         /\ n.state = "ready" /\ n.turning => n.by = e /\ n.deadline <= left
<1>1. CASE m.state # "ready" /\ n = m BY Zenon, <1>1 DEF Motor
<1>2. CASE n \in StopMotor(m, TRUE) BY Zenon, <1>2, StopMotorFacts
<1>3. CASE /\ left # 0
           /\ n \in Write([m EXCEPT !.deadline = Lower(left, MotorTimeout), !.by = e], speed, FALSE)
  <2> DEFINE k == Lower(left, MotorTimeout)
             d == [m EXCEPT !.deadline = k, !.by = e]
  <2>1. k \in 0..Never /\ k <= left BY McpConstants DEF Lower
  <2>2. n \in Write(d, speed, FALSE) BY Zenon, <1>3
  <2> HIDE DEF k
  <2>3. d \in Motor /\ d.state = m.state /\ d.by = e /\ d.deadline = k BY Zenon, <2>1 DEF Motor
  <2> HIDE DEF d
  <2>4. d \in Motor /\ FALSE \in BOOLEAN BY Zenon, <2>3
  <2>5. /\ n \in Motor /\ n.by = d.by /\ n.state \in {d.state, "error"}
        /\ n.state # "error" => n.turning = speed /\ n.deadline = d.deadline
    BY Zenon, <2>2, <2>4, WriteFacts
  <2> QED BY Zenon, <2>1, <2>3, <2>5
<1> QED BY Zenon, <1>1, <1>2, <1>3 DEF ApplyVelocity

\* A fault is counted up to its bound.
LEMMA FaultsType ==
  ASSUME faults \in 0..MaxFaults, faults' = faults \/ Fault
  PROVE  faults' \in 0..MaxFaults
BY McpConstants DEF Fault

\* What a completed call leaves of the history of failures.
LEMMA DoneFacts ==
  ASSUME McpInv, NEW next, Done(next)
  PROVE  /\ motor' \in next /\ faults' \in 0..MaxFaults /\ failed' \in BOOLEAN
         /\ failed' <=> failed /\ (motor'.turning \/ late' # NoTwist)
<1>1. faults' = faults \/ Fault BY Zenon DEF Done
<1>2. faults \in 0..MaxFaults BY Zenon DEF McpInv, McpTypeOK
<1>3. motor' \in next /\ failed' = (failed /\ (motor'.turning \/ late' # NoTwist))
  BY Zenon DEF Done
<1> QED BY Zenon, <1>1, <1>2, <1>3, FaultsType

\* After a call of Stop the motors stand, are broken, or the call failed.
LEMMA CallStopFacts ==
  ASSUME McpInv, CallStop
  PROVE  /\ motor' \in Motor /\ late' = late /\ faults' \in 0..MaxFaults /\ failed' \in BOOLEAN
         /\ motor'.state = "down" => motor.state = "down"
         /\ motor'.state = "ready" /\ motor'.turning => failed'
         /\ late # NoTwist => failed'
<1>0. /\ motor \in Motor /\ late' = late /\ (late # NoTwist => failed)
      /\ faults \in 0..MaxFaults
  BY Zenon DEF McpInv, McpTypeOK, CallStop
<1>1. CASE Done(StopMotor(motor, TRUE))
  <2>1. /\ motor' \in StopMotor(motor, TRUE) /\ faults' \in 0..MaxFaults /\ failed' \in BOOLEAN
        /\ failed' <=> failed /\ (motor'.turning \/ late' # NoTwist)
    BY Zenon, <1>1, DoneFacts
  <2>2. /\ motor' \in Motor /\ motor'.state \in {motor.state, "error"}
        /\ motor'.state # "error" => ~motor'.turning
    BY Zenon, <1>0, <2>1, StopMotorFacts
  <2> QED BY Zenon, <1>0, <2>1, <2>2
<1>2. CASE failed' = TRUE /\ motor' = motor /\ (faults' = faults \/ Fault)
  BY Zenon, <1>0, <1>2, FaultsType
<1> QED BY Zenon, <1>1, <1>2 DEF CallStop

\* The lease of McpServer, and what may become of it.
Control ==
  [active : [session : McpSessions \cup {NoOne}, epoch : Grants, left : 0..ActiveTTL],
   nextEpoch : Grants]
GoodControl(c) ==
  /\ c \in Control
  /\ c.active = NoActive \/ (c.active.session \in McpSessions /\ c.active.epoch # 0)
McpMoves(c) ==
  \/ c.active.session = mcp.active.session /\ c.nextEpoch = mcp.nextEpoch
  \/ c.active = NoActive /\ c.nextEpoch = mcp.nextEpoch
  \/ c.active.session \in McpSessions /\ c.nextEpoch = mcp.nextEpoch + 1

\* Clearing McpServer's lease, also when only because it has run out, is a step of
\* the abstract lease.
LEMMA ControlFacts ==
  ASSUME McpInv
  PROVE  /\ GoodControl(mcp) /\ McpMoves(mcp)
         /\ GoodControl(NoControl) /\ McpMoves(NoControl) /\ NoControl.active = NoActive
         /\ GoodControl(Current) /\ McpMoves(Current)
         /\ RanOut => Current.active = NoActive
         /\ ~RanOut => Current = mcp
<1>1. GoodControl(mcp) BY Zenon DEF McpInv, McpTypeOK, GoodControl, Control
<1>2. NoActive \in [session : McpSessions \cup {NoOne}, epoch : Grants, left : 0..ActiveTTL]
  BY McpConstants DEF NoActive, Grants
<1>3. /\ NoControl \in Control /\ NoControl.active = NoActive
      /\ NoControl.nextEpoch = mcp.nextEpoch
  BY Zenon, <1>1, <1>2 DEF GoodControl, Control, NoControl
<1>4. McpMoves(mcp) BY Zenon DEF McpMoves
<1> QED BY Zenon, <1>1, <1>3, <1>4 DEF GoodControl, Current, McpMoves

\* A session in control has a lease that did not run out.
LEMMA InControlFacts ==
  ASSUME McpInv, NEW s \in McpSessions, NEW e \in Grants, InControl(s, e)
  PROVE  /\ ~RanOut /\ mcp.active # NoActive /\ mcp.active.session = s
         /\ mcp.active.epoch = e /\ e # 0 /\ mcp.active.left > 0
<1>1. NoActive.session = NoOne BY Zenon DEF NoActive
<1>2. ~RanOut /\ Current = mcp BY Zenon, <1>1, ControlFacts, McpConstants DEF InControl
<1>3. mcp.active # NoActive /\ mcp.active.session = s /\ mcp.active.epoch = e
  BY Zenon, <1>1, <1>2, McpConstants DEF InControl
<1>4. mcp.active.left \in 0..ActiveTTL BY Zenon DEF McpInv, McpTypeOK
<1> QED BY <1>2, <1>3, <1>4, McpConstants DEF RanOut, McpInv

\* A step that calls Stop keeps the invariant whatever becomes of the lease.
LEMMA StopStep ==
  ASSUME McpInv, CallStop, GoodControl(mcp'), video' \in BOOLEAN
  PROVE  McpInv'
<1>1. /\ motor' \in Motor /\ late' = late /\ faults' \in 0..MaxFaults /\ failed' \in BOOLEAN
      /\ motor'.state = "down" => motor.state = "down"
      /\ motor'.state = "ready" /\ motor'.turning => failed'
      /\ late # NoTwist => failed'
  BY Zenon, CallStopFacts
<1>2. McpTypeOK' BY Zenon, <1>1 DEF GoodControl, Control, McpInv, McpTypeOK
<1>3. MotionUnderLease' BY Zenon, <1>1 DEF MotionUnderLease
<1>4. late' = NoTwist \/ (late'.epoch # 0 /\ failed' /\ motor'.state # "down")
  BY Zenon, <1>1 DEF McpInv
<1> QED BY Zenon, <1>2, <1>3, <1>4 DEF McpInv, GoodControl, NoTwist, NoActive

\* So does a step without a call, if it leaves a lease that covers the motion.
LEMMA NoCallStep ==
  ASSUME McpInv, NoCallMade, GoodControl(mcp'), video' \in BOOLEAN, running' => running,
         \/ mcp.active.left = 0
         \/ mcp'.active.epoch = mcp.active.epoch /\ mcp.active.left <= mcp'.active.left
  PROVE  McpInv'
<1>1. motor' = motor /\ late' = late /\ failed' = failed /\ faults' = faults BY Zenon DEF NoCallMade
<1>2. McpTypeOK' BY Zenon, <1>1 DEF GoodControl, Control, McpInv, McpTypeOK
<1>3. MotionUnderLease'
  <2>1. /\ mcp.active.left \in Nat /\ mcp'.active.left \in Nat /\ motor.deadline \in Nat
    BY McpConstants DEF GoodControl, Control, McpInv, McpTypeOK, Motor
  <2>2. MotionUnderLease BY Zenon DEF McpInv
  <2> QED BY <1>1, <2>1, <2>2 DEF MotionUnderLease
<1> QED BY Zenon, <1>1, <1>2, <1>3 DEF McpInv, GoodControl, NoTwist, NoActive

\* Activate: an earlier lease's motion is stopped, or the stop has failed.
LEMMA ActivateStep ==
  ASSUME McpInv, NEW s \in McpSessions, NEW t \in BOOLEAN, Activate(s, t), running' = running
  PROVE  McpMoves(mcp') /\ McpInv'
<1> DEFINE g == [session |-> s, epoch |-> mcp.nextEpoch + 1, left |-> ActiveTTL]
<1>1. /\ mcp.nextEpoch < MaxGrants /\ video' = video
      /\ mcp' = [active |-> g, nextEpoch |-> mcp.nextEpoch + 1]
      /\ IF mcp.active # NoActive THEN CallStop ELSE NoCallMade
  BY Zenon DEF Activate
<1>2. mcp.nextEpoch \in 0..MaxGrants /\ video \in BOOLEAN BY Zenon DEF McpInv, McpTypeOK, Grants
<1>3. /\ g \in [session : McpSessions \cup {NoOne}, epoch : Grants, left : 0..ActiveTTL]
      /\ g.session = s /\ g.epoch # 0 /\ mcp.nextEpoch + 1 \in Grants
  BY <1>1, <1>2, McpConstants DEF Grants
<1> HIDE DEF g
<1>4. GoodControl(mcp') /\ McpMoves(mcp')
  BY Zenon, <1>1, <1>3 DEF GoodControl, Control, McpMoves
<1>5. CASE mcp.active # NoActive BY Zenon, <1>1, <1>2, <1>4, <1>5, StopStep
<1>6. CASE mcp.active = NoActive
  <2>1. mcp.active.left = 0 BY <1>6 DEF NoActive
  <2> QED BY Zenon, <1>1, <1>2, <1>4, <1>6, <2>1, NoCallStep
<1> QED BY Zenon, <1>4, <1>5, <1>6

\* RenewActive: a lease that is prolonged still outlasts the motors' deadline.
LEMMA RenewStep ==
  ASSUME McpInv, NEW s \in McpSessions, NEW e \in Grants, RenewActive(s, e), running' = running
  PROVE  McpMoves(mcp') /\ McpInv'
<1>1. /\ mcp' = [mcp EXCEPT !.active.left = ActiveTTL] /\ NoCallMade
      /\ video' = video /\ InControl(s, e)
  BY Zenon DEF RenewActive
<1>2. mcp.active # NoActive /\ video \in BOOLEAN
  BY Zenon, <1>1, InControlFacts DEF McpInv, McpTypeOK
<1>3. GoodControl(mcp) BY Zenon, ControlFacts
<1>4. /\ mcp' \in Control /\ mcp'.active.session = mcp.active.session
      /\ mcp'.active.epoch = mcp.active.epoch /\ mcp'.active.left = ActiveTTL
      /\ mcp'.nextEpoch = mcp.nextEpoch
  BY <1>1, <1>3, McpConstants DEF GoodControl, Control
<1>5. GoodControl(mcp') /\ McpMoves(mcp') BY Zenon, <1>2, <1>3, <1>4 DEF GoodControl, McpMoves
<1>6. mcp.active.left <= mcp'.active.left BY <1>3, <1>4, McpConstants DEF GoodControl, Control
<1> QED BY Zenon, <1>1, <1>2, <1>4, <1>5, <1>6, NoCallStep

\* A velocity that fails is remembered as a failure, one that succeeds moves the
\* motors for the lease in force.
LEMMA PublishTwistStep ==
  ASSUME McpInv, NEW s \in McpSessions, NEW e \in Grants, NEW speed \in BOOLEAN,
         PublishTwist(s, e, speed)
  PROVE  McpMoves(mcp') /\ McpInv'
<1>1. /\ mcp' = mcp /\ video' = video /\ InControl(s, e)
      /\ CallApplyVelocity(e, mcp.active.left, speed)
  BY Zenon DEF PublishTwist
<1>2. mcp.active # NoActive /\ mcp.active.epoch = e /\ e # 0 BY Zenon, <1>1, InControlFacts
<1>3. /\ motor \in Motor /\ mcp.active.left \in 0..ActiveTTL /\ faults \in 0..MaxFaults
      /\ late \in [epoch : Grants, left : 0..ActiveTTL]
  BY Zenon DEF McpInv, McpTypeOK
<1>4. McpMoves(mcp') BY Zenon, <1>1 DEF McpMoves
<1>5. CASE late' = late /\ Done(ApplyVelocity(motor, e, mcp.active.left, speed))
           /\ motor.state # "down"
  <2>1. /\ motor' \in ApplyVelocity(motor, e, mcp.active.left, speed)
        /\ faults' \in 0..MaxFaults /\ failed' \in BOOLEAN
        /\ failed' <=> failed /\ (motor'.turning \/ late' # NoTwist)
    BY Zenon, <1>5, DoneFacts
  <2>2. /\ motor' \in Motor /\ motor'.state \in {motor.state, "error"}
        /\ motor'.state = "ready" /\ motor'.turning
             => motor'.by = e /\ motor'.deadline <= mcp.active.left
    BY Zenon, <1>3, <2>1, VelocityFacts
  <2>3. McpTypeOK' BY Zenon, <1>1, <1>5, <2>1, <2>2 DEF McpInv, McpTypeOK
  <2>4. MotionUnderLease' BY Zenon, <1>1, <1>2, <2>2 DEF MotionUnderLease
  <2>5. late' = NoTwist \/ (late'.epoch # 0 /\ failed' /\ motor'.state # "down")
    BY Zenon, <1>5, <2>1, <2>2 DEF McpInv
  <2> QED BY Zenon, <1>1, <1>4, <2>3, <2>4, <2>5 DEF McpInv, NoTwist, NoActive
<1>6. CASE /\ motor.state # "down" /\ Fault /\ failed' = TRUE /\ motor' = motor
           /\ late' = [epoch |-> e, left |-> mcp.active.left]
  <2>1. faults' \in 0..MaxFaults BY Zenon, <1>3, <1>6, FaultsType
  <2>2. late' \in [epoch : Grants, left : 0..ActiveTTL] /\ late'.epoch # 0
    BY Zenon, <1>2, <1>3, <1>6
  <2>3. McpTypeOK' BY Zenon, <1>1, <1>6, <2>1, <2>2 DEF McpInv, McpTypeOK
  <2>4. MotionUnderLease' BY Zenon, <1>6 DEF MotionUnderLease
  <2> QED BY Zenon, <1>1, <1>4, <1>6, <2>2, <2>3, <2>4 DEF McpInv, NoTwist, NoActive
<1>7. CASE motor.state = "down" /\ NoCallMade
  <2>1. McpTypeOK' /\ motor' = motor /\ late' = late /\ failed' = failed
    BY Zenon, <1>1, <1>7 DEF NoCallMade, McpInv, McpTypeOK
  <2>2. MotionUnderLease' BY Zenon, <1>7, <2>1 DEF MotionUnderLease
  <2> QED BY Zenon, <1>1, <1>4, <2>1, <2>2 DEF McpInv, NoTwist, NoActive
<1> QED BY Zenon, <1>1, <1>5, <1>6, <1>7 DEF CallApplyVelocity

\* Every request that the daemon serves.
LEMMA McpStepStep ==
  ASSUME McpInv, McpStep, running' = running
  PROVE  McpMoves(mcp') /\ McpInv'
<1>0. video \in BOOLEAN BY Zenon DEF McpInv, McpTypeOK
<1>1. ASSUME mcp' = NoControl, CallStop, video' = video PROVE McpMoves(mcp') /\ McpInv'
  BY Zenon, <1>0, <1>1, ControlFacts, StopStep
<1>2. ASSUME mcp' = mcp, CallStop, video' = video PROVE McpMoves(mcp') /\ McpInv'
  BY Zenon, <1>0, <1>2, ControlFacts, StopStep
<1>3. ASSUME NEW s \in McpSessions, NEW t \in BOOLEAN, Activate(s, t)
      PROVE  McpMoves(mcp') /\ McpInv'
  BY Zenon, <1>3, ActivateStep
<1>4. ASSUME NEW s \in McpSessions, NEW e \in Grants,
             \/ RenewActive(s, e) \/ ReleaseActive(s, e) \/ Refused(s, e) \/ CmdVelStop(s, e)
             \/ \E speed \in BOOLEAN : PublishTwist(s, e, speed)
      PROVE  McpMoves(mcp') /\ McpInv'
  <2>1. CASE RenewActive(s, e) BY Zenon, <2>1, RenewStep
  <2>2. CASE ReleaseActive(s, e) BY Zenon, <1>1, <2>2 DEF ReleaseActive
  <2>3. CASE Refused(s, e)
    <3>1. mcp' = Current /\ NoCallMade /\ video' = video BY Zenon, <2>3 DEF Refused
    <3>2. GoodControl(mcp') /\ McpMoves(mcp') BY Zenon, <3>1, ControlFacts
    <3>3. CASE RanOut
      <4>1. mcp.active.left = 0 BY Zenon, <3>3 DEF RanOut
      <4> QED BY Zenon, <1>0, <3>1, <3>2, <4>1, NoCallStep
    <3>4. CASE ~RanOut
      <4>1. mcp' = mcp /\ mcp.active.left \in Nat
        BY <3>1, <3>4, ControlFacts, McpConstants DEF McpInv, McpTypeOK
      <4>2. mcp.active.left <= mcp'.active.left BY <4>1
      <4> QED BY Zenon, <1>0, <3>1, <3>2, <4>1, <4>2, NoCallStep
    <3> QED BY Zenon, <3>3, <3>4
  <2>4. CASE CmdVelStop(s, e) BY Zenon, <1>2, <2>4 DEF CmdVelStop
  <2>5. CASE \E speed \in BOOLEAN : PublishTwist(s, e, speed) BY Zenon, <2>5, PublishTwistStep
  <2> QED BY Zenon, <1>4, <2>1, <2>2, <2>3, <2>4, <2>5
<1>5. ASSUME NEW s \in McpSessions, CloseSession(s) PROVE McpMoves(mcp') /\ McpInv'
  BY Zenon, <1>1, <1>5 DEF CloseSession
<1>6. CASE MqttDisconnected BY Zenon, <1>1, <1>6 DEF MqttDisconnected
<1>7. CASE VideoEvent
  <2>1. mcp' = mcp /\ NoCallMade /\ video' \in BOOLEAN
    BY Zenon, <1>7 DEF VideoEvent, NoCallMade
  <2>2. GoodControl(mcp') /\ McpMoves(mcp') BY Zenon, <2>1, ControlFacts
  <2>3. mcp.active.left <= mcp'.active.left BY <2>1, McpConstants DEF McpInv, McpTypeOK
  <2> QED BY Zenon, <2>1, <2>2, <2>3, NoCallStep
<1>8. CASE TickActive BY Zenon, <1>1, <1>8 DEF TickActive
<1> QED BY Zenon, <1>3, <1>4, <1>5, <1>6, <1>7, <1>8 DEF McpStep

\* The worker on its own: a late velocity is covered by the failure it followed.
LEMMA WorkerStepStep ==
  ASSUME McpInv, WorkerStep
  PROVE  mcp' = mcp /\ McpInv'
<1>0. /\ motor \in Motor /\ faults \in 0..MaxFaults /\ failed \in BOOLEAN
      /\ late \in [epoch : Grants, left : 0..ActiveTTL]
      /\ late = NoTwist \/ (late.epoch # 0 /\ failed /\ motor.state # "down")
      /\ NoTwist \in [epoch : Grants, left : 0..ActiveTTL]
  BY McpConstants DEF McpInv, McpTypeOK, NoTwist, Grants
<1>1. ASSUME mcp' = mcp, video' = video, motor' \in Motor, faults' \in 0..MaxFaults,
             failed' \in BOOLEAN, late' \in [epoch : Grants, left : 0..ActiveTTL],
             late' = NoTwist \/ (late'.epoch # 0 /\ failed' /\ motor'.state # "down"),
             motor'.state = "ready" /\ motor'.turning => failed'
      PROVE  mcp' = mcp /\ McpInv'
  <2>1. MotionUnderLease' BY Zenon, <1>1 DEF MotionUnderLease
  <2>2. McpTypeOK' BY Zenon, <1>1 DEF McpInv, McpTypeOK
  <2> QED BY Zenon, <1>1, <2>1, <2>2 DEF McpInv, NoTwist, NoActive
<1>2. CASE MotorTick
  <2>1. /\ mcp' = mcp /\ video' = video /\ late' = late /\ Done(StopMotor(motor, FALSE))
        /\ motor.state # "down"
    BY Zenon, <1>2 DEF MotorTick
  <2>2. /\ motor' \in StopMotor(motor, FALSE) /\ faults' \in 0..MaxFaults /\ failed' \in BOOLEAN
        /\ failed' <=> failed /\ (motor'.turning \/ late' # NoTwist)
    BY Zenon, <2>1, DoneFacts
  <2>3. /\ motor' \in Motor /\ motor'.state \in {motor.state, "error"}
        /\ motor'.state # "error" => ~motor'.turning
    BY Zenon, <1>0, <2>2, StopMotorFacts
  <2> QED BY Zenon, <1>0, <1>1, <2>1, <2>2, <2>3
<1>3. CASE LateVelocity
  <2>1. /\ mcp' = mcp /\ video' = video /\ late' = NoTwist /\ failed
        /\ Done(ApplyVelocity(motor, late.epoch, late.left, TRUE))
    BY Zenon, <1>0, <1>3 DEF LateVelocity
  <2>2. /\ motor' \in ApplyVelocity(motor, late.epoch, late.left, TRUE)
        /\ faults' \in 0..MaxFaults /\ failed' \in BOOLEAN
        /\ failed' <=> failed /\ (motor'.turning \/ late' # NoTwist)
    BY Zenon, <2>1, DoneFacts
  <2>3. late.epoch \in Grants /\ late.left \in 0..ActiveTTL BY Zenon, <1>0
  <2>4. motor' \in Motor BY Zenon, <1>0, <2>2, <2>3, VelocityFacts
  <2> QED BY Zenon, <1>0, <1>1, <2>1, <2>2, <2>4
<1>4. CASE WorkerExits
  <2>1. PICK t \in {FALSE, motor.turning} :
          motor' = [motor EXCEPT !.state = "down", !.deadline = Never, !.turning = t]
    BY Zenon, <1>4 DEF WorkerExits
  <2>2. /\ mcp' = mcp /\ video' = video /\ late' = NoTwist /\ failed' = failed /\ Fault
    BY Zenon, <1>4 DEF WorkerExits
  <2>3. motor' \in Motor /\ motor'.state = "down"
    <3> DEFINE a == [motor EXCEPT !.state = "down"]
               b == [a EXCEPT !.deadline = Never]
    <3>1. motor' = [b EXCEPT !.turning = t] BY Zenon, <2>1
    <3>2. a \in Motor /\ a.state = "down" /\ t \in BOOLEAN BY Zenon, <1>0 DEF Motor
    <3> HIDE DEF a
    <3>3. b \in Motor /\ b.state = "down" BY <3>2, McpConstants DEF Motor
    <3> HIDE DEF b
    <3> QED BY Zenon, <3>1, <3>2, <3>3 DEF Motor
  <2>4. faults' \in 0..MaxFaults BY Zenon, <1>0, <2>2, FaultsType
  <2> QED BY Zenon, <1>0, <1>1, <2>2, <2>3, <2>4
<1>5. CASE WorkerStarts
  <2>1. /\ motor' = Standing /\ failed' = FALSE /\ mcp' = mcp /\ video' = video
        /\ late' = late /\ faults' = faults /\ motor.state = "down"
    BY Zenon, <1>5 DEF WorkerStarts
  <2>2. Standing \in Motor /\ ~Standing.turning
    BY McpConstants DEF Standing, Motor, Grants
  <2> QED BY Zenon, <1>0, <1>1, <2>1, <2>2
<1> QED BY <1>2, <1>3, <1>4, <1>5, Zenon DEF WorkerStep

\* Time passes for the lease and for the deadline alike.
LEMMA McpAdvanceStep ==
  ASSUME McpInv, McpAdvance, running' = running
  PROVE  McpMoves(mcp') /\ McpInv'
<1> DEFINE k == Sooner(mcp.active.left)
           d == Sooner(motor.deadline)
           n == Sooner(late.left)
<1>0. /\ GoodControl(mcp) /\ motor \in Motor
      /\ late \in [epoch : Grants, left : 0..ActiveTTL] /\ MotionUnderLease
  BY Zenon, ControlFacts DEF McpInv, McpTypeOK
<1>1. /\ mcp' = [mcp EXCEPT !.active.left = k] /\ motor' = [motor EXCEPT !.deadline = d]
      /\ late' = [late EXCEPT !.left = n]
      /\ video' = video /\ failed' = failed /\ faults' = faults
  BY Zenon DEF McpAdvance
<1>2. k \in 0..ActiveTTL /\ d \in 0..Never /\ n \in 0..ActiveTTL
  <2>1. /\ mcp.active.left \in 0..ActiveTTL /\ motor.deadline \in 0..Never
        /\ late.left \in 0..ActiveTTL
    BY Zenon, <1>0 DEF GoodControl, Control, Motor
  <2> QED BY <2>1, McpConstants DEF Sooner
<1>3. /\ mcp.active.left = 0 => k = 0
      /\ late.left = 0 => n = 0
      /\ d > 0 /\ motor.deadline <= mcp.active.left => d <= k
      /\ d > 0 => motor.deadline > 0
  <2>1. mcp.active.left \in 0..ActiveTTL /\ motor.deadline \in 0..Never
    BY Zenon, <1>0 DEF GoodControl, Control, Motor
  <2> QED BY <2>1, McpConstants DEF Sooner
<1> HIDE DEF k, d, n
<1>4. /\ mcp' \in Control /\ mcp'.active.session = mcp.active.session
      /\ mcp'.active.epoch = mcp.active.epoch /\ mcp'.active.left = k
      /\ mcp'.nextEpoch = mcp.nextEpoch
  BY Zenon, <1>0, <1>1, <1>2 DEF GoodControl, Control
<1>5. GoodControl(mcp')
  <2>1. CASE mcp.active = NoActive
    <3>1. /\ mcp'.active.session = NoOne /\ mcp'.active.epoch = 0 /\ mcp'.active.left = 0
      BY <1>3, <1>4, <2>1 DEF NoActive
    <3>2. mcp'.active = NoActive BY Zenon, <1>4, <3>1 DEF Control, NoActive
    <3> QED BY Zenon, <1>4, <3>2 DEF GoodControl
  <2>2. CASE mcp.active # NoActive BY Zenon, <1>0, <1>4, <2>2 DEF GoodControl
  <2> QED BY Zenon, <2>1, <2>2
<1>6. /\ motor' \in Motor /\ motor'.state = motor.state /\ motor'.turning = motor.turning
      /\ motor'.by = motor.by /\ motor'.deadline = d
  BY Zenon, <1>0, <1>1, <1>2 DEF Motor
<1>7. /\ late' \in [epoch : Grants, left : 0..ActiveTTL] /\ late'.epoch = late.epoch
      /\ late = NoTwist => late' = NoTwist
  <2>1. late' \in [epoch : Grants, left : 0..ActiveTTL] /\ late'.epoch = late.epoch
        /\ late'.left = n
    BY Zenon, <1>0, <1>1, <1>2
  <2> QED BY <1>3, <2>1 DEF NoTwist
<1>8. MotionUnderLease'
  BY Zenon, <1>0, <1>1, <1>3, <1>4, <1>6 DEF MotionUnderLease
<1>9. McpTypeOK' BY Zenon, <1>1, <1>4, <1>6, <1>7 DEF McpInv, McpTypeOK, Control
<1>10. McpMoves(mcp') BY Zenon, <1>4 DEF McpMoves
<1> QED BY Zenon, <1>1, <1>5, <1>6, <1>7, <1>8, <1>9, <1>10 DEF McpInv, GoodControl, NoTwist, NoActive

\* Every step of the board; the daemon's end leaves the lease's owner behind,
\* and the motors to their deadline.
LEMMA McpNextStep ==
  ASSUME McpInv, [Next]_boardVars
  PROVE  McpMoves(mcp') /\ McpInv'
<1>1. ASSUME UNCHANGED <<running, mcpVars>> PROVE McpMoves(mcp') /\ McpInv'
  BY Zenon, <1>1 DEF mcpVars, McpMoves, McpInv, McpTypeOK, MotionUnderLease
<1>2. CASE UNCHANGED boardVars BY Zenon, <1>1, <1>2 DEF boardVars
<1>3. CASE MavlinkNext BY Zenon, <1>1, <1>3 DEF MavlinkNext
<1>4. CASE McpNext
  <2>1. running' = running BY Zenon, <1>4 DEF McpNext
  <2>2. CASE McpStep BY Zenon, <2>1, <2>2, McpStepStep
  <2>3. CASE WorkerStep BY Zenon, <2>3, WorkerStepStep DEF McpMoves
  <2>4. CASE McpAdvance BY Zenon, <2>1, <2>4, McpAdvanceStep
  <2> QED BY Zenon, <1>4, <2>2, <2>3, <2>4 DEF McpNext
<1>5. CASE PublishOffline \/ DaemonCrash
  <2>1. /\ running' = FALSE /\ mcp' = mcp /\ video' = video
        /\ CallStop \/ NoCallMade
    BY Zenon, <1>5 DEF PublishOffline, DaemonCrash, DaemonGone
  <2>2. GoodControl(mcp') /\ McpMoves(mcp') /\ video \in BOOLEAN
    BY Zenon, <2>1, ControlFacts DEF McpInv, McpTypeOK
  <2>3. CASE CallStop BY Zenon, <2>1, <2>2, <2>3, StopStep
  <2>4. CASE NoCallMade
    <3>1. mcp.active.left <= mcp'.active.left BY <2>1, McpConstants DEF McpInv, McpTypeOK
    <3> QED BY Zenon, <2>1, <2>2, <2>4, <3>1, NoCallStep
  <2> QED BY Zenon, <2>1, <2>2, <2>3, <2>4
<1> QED BY Zenon, <1>2, <1>3, <1>4, <1>5 DEF Next

\* The daemon starts with nobody in control and the motors standing.
LEMMA InitMcpInv == Init => McpInv
<1> SUFFICES ASSUME Init PROVE McpInv OBVIOUS
<1>1. /\ mcp = [active |-> NoActive, nextEpoch |-> 0] /\ video = FALSE /\ failed = FALSE
      /\ faults = 0 /\ motor = Standing /\ late = NoTwist
  BY Zenon DEF Init, McpInit
<1>2. 0 \in Grants /\ 0 \in 0..ActiveTTL /\ 0 \in 0..MaxFaults /\ Never \in 0..Never
  BY McpConstants DEF Grants
<1>3. /\ NoActive \in [session : McpSessions \cup {NoOne}, epoch : Grants, left : 0..ActiveTTL]
      /\ NoTwist \in [epoch : Grants, left : 0..ActiveTTL] /\ Standing \in Motor
  BY Zenon, <1>2 DEF NoActive, NoTwist, Standing, Motor
<1>4. mcp \in Control BY Zenon, <1>1, <1>2, <1>3 DEF Control
<1>5. McpTypeOK BY Zenon, <1>1, <1>2, <1>3, <1>4 DEF McpTypeOK, Control
<1> QED BY Zenon, <1>1, <1>5 DEF McpInv, MotionUnderLease, Standing

\* In every state of every behaviour the MCP lease is well formed and motion has the
\* lease it was commanded under.
THEOREM McpInductive == Spec => []McpInv
<1>1. McpInv /\ [Next]_boardVars => McpInv' BY Zenon, McpNextStep
<1> QED BY InitMcpInv, <1>1, PTL DEF Spec

\* The motors turn within a deadline only for the lease that is active and no
\* longer than it lasts, whatever session takes over, disconnects or is late, as
\* long as no call of the daemon to its worker failed.
THEOREM MotionUnderLeaseAlways == Spec => []MotionUnderLease
BY McpInductive, PTL DEF McpInv

\* McpServer implements the abstract lease too.
THEOREM McpImplementsLease == Spec => McpLease!Exclusive
<1>1. Init => McpLease!Free
  BY DEF Init, McpInit, NoActive, McpLease!Free
<1>2. McpInv /\ [Next]_boardVars
        => [McpLease!End \/ \E s \in McpSessions : McpLease!Grant(s)]_(McpLease!leaseVars)
  <2> SUFFICES ASSUME McpInv, [Next]_boardVars
               PROVE  \/ McpLease!End
                      \/ \E s \in McpSessions : McpLease!Grant(s)
                      \/ UNCHANGED McpLease!leaseVars
    OBVIOUS
  <2>1. McpMoves(mcp') BY Zenon, McpNextStep
  <2> QED BY <2>1, McpConstants
          DEF McpMoves, McpInv, NoActive, McpLease!End, McpLease!Grant, McpLease!leaseVars
<1> QED BY McpInductive, <1>1, <1>2, PTL DEF Spec, McpLease!Exclusive

\* Both lease implementations keep the promise of the abstract lease: at most one
\* client in control, and a new epoch for every grant.
THEOREM LeasesExclusiveHolds == Spec => LeasesExclusive
BY Zenon, MavlinkImplementsLease, McpImplementsLease DEF LeasesExclusive
===============================================================================
