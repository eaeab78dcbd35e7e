----------------------------- MODULE AgentSession -----------------------------
(***************************************************************************)
(* The session of the cloud agent (agent/src/core.cpp), a client of        *)
(* MavlinkControl over data channels that keep their order.  The hosting   *)
(* thread ticks; the operator's thread calls send(), which reads the       *)
(* authorized generation first and enqueues the command later.  One tick   *)
(* handles what has arrived by then, so its parts are actions of their own. *)
(* What a request waits for is left open: it times out at any time.         *)
(***************************************************************************)
EXTENDS MavlinkControl

CONSTANTS
  AgentPeers,  \* the peers of the agent's data channels
  MaxGen       \* bound: times the agent acquires control

ASSUME AgentAssumption == AgentPeers \subseteq Peers /\ MaxGen \in Nat

VARIABLES
  agent,     \* held_, epoch_, pending_type_, control and authorized generation
  operator,  \* the frame of a send() under way: generation and epoch it read
  up, down   \* the data channel of a peer, both ways

sessionVars == <<agent, operator, up, down>>
agentVars == <<mavVars, sessionVars>>

OfficePeers == Peers \ AgentPeers
Generation == 0..MaxGen
Ask == [gen : Generation, asked : Epochs]
NoAsk == [gen |-> 0, asked |-> 0]

\* current: the requestId is pending_id_.
Message ==
  [type : {"activate", "renew", "release"}, epoch : Epochs, current : BOOLEAN]
    \cup [type : {"frame"}, asked : Epochs]
Reply ==
  [type : {"error", "activate", "renew", "release"}, current : BOOLEAN,
   owner : Peers \cup {Nobody}, epoch : Epochs]

SessionTypeOK ==
  /\ agent \in [link : AgentPeers \cup {Nobody}, held : BOOLEAN, epoch : Epochs,
                pending : {"none", "activate", "renew"}, gen : Generation, auth : Generation]
  /\ operator \in Ask
  /\ up \in [AgentPeers -> Seq(Message)] /\ down \in [AgentPeers -> Seq(Reply)]
  /\ \A s \in AgentPeers : Bounded(up[s], Channel) /\ Bounded(down[s], Channel)

\* Nor need it be the first daemon that the agent meets.
SessionInit ==
  /\ \E gen \in Generation :
       agent = [link |-> Nobody, held |-> FALSE, epoch |-> 0, pending |-> "none",
                gen |-> gen, auth |-> 0]
  /\ operator = NoAsk
  /\ up = [s \in AgentPeers |-> <<>>] /\ down = [s \in AgentPeers |-> <<>>]

-----------------------------------------------------------------------------
(* The hosting thread.                                                      *)

Past(msgs) == [i \in DOMAIN msgs |-> IF "current" \in DOMAIN msgs[i]
                                     THEN [msgs[i] EXCEPT !.current = FALSE] ELSE msgs[i]]

CanText == agent.link # Nobody /\ Len(up[agent.link]) < Channel

\* lose, with d the answers not yet looked at: what was asked is forgotten.  The
\* release may fail to be sent.
Lose(release, d) ==
  LET sent == agent.held /\ release /\ CanText
      m == [type |-> "release", epoch |-> agent.epoch, current |-> FALSE]
  IN  /\ agent' = [agent EXCEPT !.held = FALSE, !.epoch = 0, !.pending = "none", !.auth = 0]
      /\ up' = [s \in AgentPeers |-> IF sent /\ s = agent.link THEN Append(Past(up[s]), m)
                                     ELSE Past(up[s])]
      /\ down' = [s \in AgentPeers |-> Past(d[s])]

\* request: a send that fails loses control.
AskBoard(type) ==
  IF CanText
  THEN /\ agent' = [agent EXCEPT !.pending = type]
       /\ up' = [up EXCEPT ![agent.link] =
                   Append(@, [type |-> type, epoch |-> agent.epoch, current |-> TRUE])]
       /\ UNCHANGED down
  ELSE Lose(TRUE, down)

AgentAcquires ==
  /\ ~agent.held /\ agent.pending = "none" /\ agent.link # Nobody /\ agent.gen < MaxGen
  /\ AskBoard("activate")
  /\ UNCHANGED <<mavVars, operator>>

AgentRenews ==
  /\ agent.held /\ agent.pending = "none"
  /\ AskBoard("renew")
  /\ UNCHANGED <<mavVars, operator>>

\* Variant: a request that times out is given up, the control is not.
AgentRetries ==
  /\ agent.pending # "none"
  /\ agent' = [agent EXCEPT !.pending = "none"]
  /\ up' = [s \in AgentPeers |-> Past(up[s])] /\ down' = [s \in AgentPeers |-> Past(down[s])]
  /\ UNCHANGED <<mavVars, operator>>

\* No answer within three seconds.
AgentTimeout ==
  /\ agent.pending # "none" /\ Lose(TRUE, down)
  /\ UNCHANGED <<mavVars, operator>>

\* The operator releases or is inactive, or a queue overflowed.
AgentGivesUp ==
  /\ agent.held \/ agent.pending # "none"
  /\ Lose(TRUE, down)
  /\ UNCHANGED <<mavVars, operator>>

Moved(r) == agent.held /\ (r.owner # agent.link \/ r.epoch # agent.epoch)

\* response: an error, then who owns control, then the request it answers.
AgentReceives ==
  LET s == agent.link
      r == Head(down[s])
      rest == [down EXCEPT ![s] = Tail(@)]
      becomes(a) == agent' = a /\ down' = rest /\ UNCHANGED up
  IN  /\ s # Nobody /\ down[s] # <<>>
      /\ IF r.type = "error" /\ r.current THEN Lose(TRUE, rest)
         ELSE IF r.type # "error" /\ Moved(r) THEN Lose(FALSE, rest)
         ELSE IF ~r.current THEN becomes(agent)
         ELSE CASE agent.pending = "activate" /\ r.type = "activate" /\ r.owner # Nobody ->
                     becomes([agent EXCEPT !.held = TRUE, !.epoch = r.epoch, !.pending = "none",
                                           !.gen = @ + 1, !.auth = agent.gen + 1])
                [] agent.pending = "renew" /\ r.type = "renew" /\ agent.held ->
                     becomes([agent EXCEPT !.pending = "none"])
                [] OTHER -> Lose(TRUE, rest)
      /\ UNCHANGED <<mavVars, operator>>

\* Variant: the command is sent whatever generation it was enqueued under.
AgentSendsAny ==
  /\ operator # NoAsk /\ operator' = NoAsk
  /\ IF ~agent.held THEN UNCHANGED <<agent, up, down>>
     ELSE IF CanText
     THEN /\ up' = [up EXCEPT ![agent.link] = Append(@, [type |-> "frame", asked |-> operator.asked])]
          /\ UNCHANGED <<agent, down>>
     ELSE Lose(TRUE, down)
  /\ UNCHANGED mavVars

\* A command that was enqueued under an earlier grant is passed over.
AgentSends ==
  /\ operator # NoAsk /\ operator' = NoAsk
  /\ IF ~agent.held \/ operator.gen # agent.auth THEN UNCHANGED <<agent, up, down>>
     ELSE IF CanText
     THEN /\ up' = [up EXCEPT ![agent.link] = Append(@, [type |-> "frame", asked |-> operator.asked])]
          /\ UNCHANGED <<agent, down>>
     ELSE Lose(TRUE, down)
  /\ UNCHANGED mavVars

\* update starts a transport, whose data channel the worker opens.
AgentConnects(s, answered) ==
  /\ agent.link = Nobody
  /\ agent' = [agent EXCEPT !.link = s]
  /\ OpenPeer(s, answered)
  /\ UNCHANGED <<operator, up, down>>

\* update and shutdown: the transport failed or is silent, or is not wanted any
\* more.  Answers on it are not accepted from now on.
AgentDisconnects ==
  /\ agent.link # Nobody
  /\ LET s == agent.link
         m == [type |-> "release", epoch |-> agent.epoch, current |-> FALSE]
     IN \E sent \in BOOLEAN :
          up' = [up EXCEPT ![s] = IF sent /\ agent.held /\ CanText THEN Append(Past(@), m)
                                  ELSE Past(@)]
  /\ agent' = [agent EXCEPT !.link = Nobody, !.held = FALSE, !.epoch = 0, !.pending = "none",
                           !.auth = 0]
  /\ down' = [s \in AgentPeers |-> <<>>]
  /\ UNCHANGED <<mavVars, operator>>

-----------------------------------------------------------------------------
(* The operator's thread: send() reads the generation; the command is        *)
(* enqueued later and executed by a tick after that.                         *)

SendReads ==
  /\ operator = NoAsk /\ agent.auth # 0
  /\ operator' = [gen |-> agent.auth, asked |-> agent.epoch]
  /\ UNCHANGED <<mavVars, agent, up, down>>

-----------------------------------------------------------------------------
(* The data channel meets the worker.                                       *)

\* What the agent asks for, as the daemon reads it: it never takes over.
Asked(m) ==
  IF m.type = "activate" THEN [type |-> "activate", takeover |-> FALSE]
  ELSE [type |-> m.type, epoch |-> m.epoch]

ChannelDelivers(s) ==
  LET m == Head(up[s]) IN
  /\ up[s] # <<>>
  /\ IF m.type = "frame" THEN WorkerFrame(s, m.asked) /\ up' = [up EXCEPT ![s] = Tail(@)]
     ELSE /\ WorkerControl(s, Asked(m))
          /\ up' = [up EXCEPT ![s] = IF call' = call THEN Tail(@) ELSE @]
  /\ UNCHANGED <<agent, operator, down>>

\* The message of a call under way stays at the head of the channel: its answer
\* goes back with the request's id.
ControlAnswered(s, answered) ==
  LET m == Head(up[s])
      ok == Accepted(ClearExpired(lease), s, call[s])
      reply == IF ok THEN [type |-> m.type, current |-> m.current,
                           owner |-> lease'.active.session, epoch |-> lease'.nextEpoch]
               ELSE [type |-> "error", current |-> m.current, owner |-> Nobody, epoch |-> 0]
  IN  /\ call[s] # NoCall /\ DaemonControl(s, call[s], answered)
      /\ up' = [up EXCEPT ![s] = Tail(@)]
      /\ down' = IF answered /\ s = agent.link /\ Len(down[s]) < Channel
                 THEN [down EXCEPT ![s] = Append(@, reply)] ELSE down
      /\ UNCHANGED <<agent, operator>>

AgentStep ==
  \/ AgentAcquires \/ AgentRenews \/ AgentTimeout \/ AgentGivesUp \/ AgentReceives
  \/ AgentSends \/ AgentDisconnects \/ SendReads

ChannelStep(s) ==
  \/ (\E a \in BOOLEAN : AgentConnects(s, a) \/ ControlAnswered(s, a))
  \/ ChannelDelivers(s)

\* The Office, and what is the board's own.
BoardStep ==
  /\ DaemonStep \/ (\E s \in Peers : PeerStep(s)) \/ \E s \in OfficePeers : ClientStep(s)
  /\ UNCHANGED sessionVars
===============================================================================
