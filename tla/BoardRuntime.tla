----------------------------- MODULE BoardRuntime -----------------------------
(***************************************************************************)
(* A board and those who drive it.  The daemon serves MAVLink control      *)
(* (MavlinkControl, with the cloud agent of AgentSession and the Office as *)
(* clients) or MCP control (McpControl), as its configuration says, until  *)
(* it is stopped or crashes.  The agent and the hardware worker go on.     *)
(***************************************************************************)
EXTENDS AgentSession, McpControl

VARIABLES
  service,  \* what the daemon is configured to serve
  running   \* the daemon

boardVars == <<service, running, agentVars, mcpVars>>

TypeOK ==
  /\ service \in {"mavlink", "mcp"} /\ running \in BOOLEAN
  /\ MavTypeOK /\ SessionTypeOK /\ McpTypeOK

Init ==
  /\ service \in {"mavlink", "mcp"} /\ running = TRUE
  /\ MavInit /\ SessionInit /\ McpInit

\* With the daemon its lease, its bridge and its flight client are gone.
DaemonGone ==
  /\ running /\ running' = FALSE
  /\ lease' = Cleared(lease) /\ peers' = {} /\ known' = {} /\ closing' = {}
  /\ call' = [s \in Peers |-> NoCall] /\ stream' = [s \in Peers |-> <<>>] /\ safe' = <<>>
  /\ UNCHANGED <<service, opened, worker, sessionVars, mcp, video>>

\* The daemon tells the motor worker to stop.  Whether its last Hold-and-disarm
\* still reaches the flight controller is open, because the flight client ends
\* with the same context: the request is gone with the daemon.
PublishOffline ==
  /\ DaemonGone
  /\ IF service = "mcp" THEN CallStop ELSE NoCallMade

DaemonCrash == DaemonGone /\ NoCallMade

MavlinkNext ==
  /\ service = "mavlink" /\ UNCHANGED <<service, running, mcpVars>>
  /\ \/ running /\ (BoardStep \/ \E s \in AgentPeers : ChannelStep(s))
     \/ AgentStep

McpNext ==
  /\ service = "mcp" /\ UNCHANGED <<service, running, agentVars>>
  /\ (running /\ McpStep) \/ WorkerStep \/ McpAdvance

Next == MavlinkNext \/ McpNext \/ PublishOffline \/ DaemonCrash

Spec == Init /\ [][Next]_boardVars

\* The daemon ticks, time passes, the agent's thread ticks, the worker ticks and
\* is started again by its supervisor.  Of clients, channels and streams nothing
\* is assumed.
Fairness ==
  /\ WF_boardVars(/\ running /\ (TickWatchdogs \/ Advance)
                  /\ UNCHANGED <<service, running, sessionVars, mcpVars>>)
  /\ WF_boardVars(AgentRenews /\ UNCHANGED <<service, running, mcpVars>>)
  /\ WF_boardVars(AgentTimeout /\ UNCHANGED <<service, running, mcpVars>>)
  /\ WF_boardVars(McpAdvance /\ UNCHANGED <<service, running, agentVars>>)
  /\ WF_boardVars(MotorTick /\ UNCHANGED <<service, running, agentVars>>)
  /\ WF_boardVars(WorkerStarts /\ UNCHANGED <<service, running, agentVars>>)

FairSpec == Spec /\ Fairness

-----------------------------------------------------------------------------
(* Properties.                                                              *)

MavlinkLease ==
  INSTANCE ControlLease WITH Clients <- Peers, owner <- lease.active.session,
                             epoch <- lease.nextEpoch

McpLease ==
  INSTANCE ControlLease WITH Clients <- McpSessions, Nobody <- NoOne,
                             owner <- mcp.active.session, epoch <- mcp.nextEpoch

\* Both lease implementations, MAVLinkControlState and McpServer, are the one
\* abstract lease: at most one client has control, it changes hands only with an
\* epoch that was never used before, and an epoch is used for nothing else.  This
\* is within one life of the daemon, whose epochs begin again when it does.
LeasesExclusive == MavlinkLease!Exclusive /\ McpLease!Exclusive

\* The holder of the MAVLink lease is a peer of the daemon, whatever closes,
\* breaks or is lost: PeerCounts counts one observer less than there are peers.
OwnerIsPeer == lease.active # NoLease => lease.active.session \in peers

\* A frame that the daemon passes to the flight controller for the agent was asked
\* for by the agent's operator under the very lease that is active: not under an
\* earlier one, though send() reads the generation long before the frame is sent
\* and the worker, not the agent, stamps it with an epoch.
FrameUnderLease ==
  [][\A s \in AgentPeers, manual \in BOOLEAN :
       stream[s] # <<>> /\ FrameAccepted(s, Head(stream[s]).stamp, manual)
         => Owns(lease, s, Head(stream[s]).asked)]_boardVars

AgentUses(s) == agent.link = s /\ (agent.held \/ agent.pending # "none")

\* A lease that the agent was given and does not use (the answer got lost, the
\* agent lost its channel, the release or the close event never arrived) ends.
UnusedLeaseEnds ==
  \A s \in AgentPeers :
    [](lease.active.session = s /\ ~AgentUses(s)
         => <>(lease.active.session # s \/ AgentUses(s)))

HoldsLost == agent.held /\ ~Owns(lease, agent.link, agent.epoch)

\* An agent that believes it has control finds out when the board has ended its
\* lease, the daemon's crash included.
LostLeaseNoticed == HoldsLost ~> ~HoldsLost

\* While the motors turn and their deadline is ahead, the lease under which they
\* were commanded is active and does not end before the deadline, unless a call of
\* the daemon to the worker failed.  (Motors whose deadline has come stand still only
\* with the worker's next tick, when control may already be another's.)
MotionUnderLease ==
  running /\ motor.state = "ready" /\ motor.turning /\ motor.deadline > 0 /\ ~failed
    => mcp.active.epoch = motor.by /\ motor.deadline <= mcp.active.left

\* Once nobody has control, or the daemon is gone, the motors come to a stand even
\* when every Stop of the daemon was lost, unless the motor driver itself fails.
MotionEnds ==
  <>[](mcp.active = NoActive \/ ~running) /\ <>[](motor.state # "error")
    => <>[]~motor.turning

\* "Releasing control, closing the active peer, or lease expiry immediately
\* requests neutral, Hold, and ordinary disarm." (docs/contracts/board-mavlink.md)
LeaseEndRequestsSafe ==
  [][running' /\ lease.active # NoLease /\ lease'.active = NoLease
       => "disarm" \in {safe'[i] : i \in DOMAIN safe'}]_boardVars
===============================================================================
