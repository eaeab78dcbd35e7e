---------------------------- MODULE MavlinkControl ----------------------------
(***************************************************************************)
(* MAVLink control of a board: the lease of the daemon                     *)
(* (daemon/internal/daemon/mavlink.go), the bridge through which the KVS   *)
(* worker reaches it (mavlink_bridge.go, kvs_session_real.cpp) and the     *)
(* client of the flight controller (mavlink_flight_client.go).             *)
(*                                                                         *)
(* The daemon handles one event at a time.  A control call and the frames  *)
(* of the same peer reach it independently of each other.  Times are       *)
(* countdowns in the smallest period that matters.                         *)
(***************************************************************************)
EXTENDS Naturals, Sequences

CONSTANTS
  Peers,              \* session ids, each given to one data channel
  Nobody,
  LeaseTTL, Gap,      \* leaseTTL and the drive-input watchdog
  SafeCap,            \* capacity of the flight client's queue of safe requests
  Channel,            \* bound: messages under way in a channel or a stream
  MaxEpoch            \* bound: grants

ASSUME MavAssumption ==
  /\ Nobody \notin Peers
  /\ {LeaseTTL, Gap, SafeCap, Channel, MaxEpoch} \subseteq Nat \ {0}

VARIABLES
  lease,    \* MAVLinkControlState: active, nextEpoch, input age, watchdogTripped
  peers,    \* its peers
  known,    \* peers of the bridge service
  closing,  \* peers whose close event is under way
  opened,   \* data channels there have been
  worker,   \* KVS worker: mavlink_epoch of a session with a mavlink_peer
  call,     \* the control call of a session that the daemon did not handle yet
  stream,   \* ExchangeFrames of a peer: frames under way
  safe      \* flight client: the safe requests it was not able to pass on yet

daemonVars == <<lease, peers, safe>>
bridgeVars == <<known, closing, opened, worker, call, stream>>
mavVars == <<daemonVars, bridgeVars>>

Epochs  == 0..MaxEpoch
NoLease == [session |-> Nobody, epoch |-> 0, left |-> 0]
NoInput == Gap + 1
NoPeer  == MaxEpoch + 1
NoCall  == [type |-> "none"]

\* A frame has the epoch it was stamped with and, as history, the epoch that its
\* sender held when the operator asked for it.
Frame == [stamp : Epochs, asked : Epochs]

Request ==
  [type : {"get_state"}] \cup [type : {"activate"}, takeover : BOOLEAN]
    \cup [type : {"renew", "release"}, epoch : Epochs]

Bounded(q, n) == Len(q) <= n

MavTypeOK ==
  /\ lease \in [active : [session : Peers \cup {Nobody}, epoch : Epochs, left : 0..LeaseTTL],
                nextEpoch : Epochs, idle : 0..NoInput, tripped : BOOLEAN]
  /\ known \subseteq peers /\ peers \subseteq opened /\ opened \subseteq Peers
  /\ closing \subseteq peers
  /\ worker \in [Peers -> 0..NoPeer] /\ call \in [Peers -> Request \cup {NoCall}]
  /\ stream \in [Peers -> Seq(Frame)] /\ \A s \in Peers : Bounded(stream[s], Channel)
  /\ safe \in Seq({"neutral", "disarm"}) /\ Bounded(safe, SafeCap)

\* The daemon starts: data channels may have come and gone before.
MavInit ==
  /\ lease = [active |-> NoLease, nextEpoch |-> 0, idle |-> NoInput, tripped |-> FALSE]
  /\ peers = {} /\ known = {} /\ closing = {} /\ opened \in SUBSET Peers
  /\ worker = [s \in Peers |-> NoPeer] /\ call = [s \in Peers |-> NoCall]
  /\ stream = [s \in Peers |-> <<>>] /\ safe = <<>>

-----------------------------------------------------------------------------
(* MAVLinkControlState.                                                     *)

Cleared(l) == [l EXCEPT !.active = NoLease, !.idle = NoInput, !.tripped = FALSE]

Expired(l) == l.active # NoLease /\ l.active.left = 0

ClearExpired(l) == IF Expired(l) THEN Cleared(l) ELSE l

Owns(l, s, e) == l.active.session = s /\ l.active.epoch = e

Extended(l) == [l EXCEPT !.active.left = LeaseTTL]

\* Variant: control is handed over under the epoch of its last owner.
GrantedSameEpoch(l, s) ==
  [Cleared(l) EXCEPT !.active = [session |-> s, epoch |-> 1, left |-> LeaseTTL], !.nextEpoch = 1]

Granted(l, s) ==
  [Cleared(l) EXCEPT !.active = [session |-> s, epoch |-> l.nextEpoch + 1, left |-> LeaseTTL],
                     !.nextEpoch = @ + 1]

MayActivate(l, s, takeover) ==
  s \in peers /\ (l.active.session \in {Nobody, s} \/ takeover)

Accepted(l, s, r) ==
  CASE r.type = "get_state" -> TRUE
    [] r.type = "activate"  -> MayActivate(l, s, r.takeover)
    [] OTHER                -> Owns(l, s, r.epoch)

\* Every request but get_state looks at the clock first.
HandleControlMessage(s, r) ==
  LET l == ClearExpired(lease) IN
  IF r.type = "get_state" THEN lease
  ELSE IF ~Accepted(l, s, r) THEN l
  ELSE IF r.type = "release" THEN Cleared(l)
  ELSE IF r.type = "renew" \/ l.active.session = s THEN Extended(l)
  ELSE Granted(l, s)

-----------------------------------------------------------------------------
(* The flight client.  Whether it takes a frame (SendFrame) depends on its  *)
(* link and its outbound queue and is left open; a safe request that finds   *)
(* the queue full is dropped.                                                *)

RequestSafe(r) == safe' = IF Len(safe) < SafeCap THEN Append(safe, r) ELSE safe

FlightSafe ==
  /\ safe # <<>> /\ safe' = Tail(safe)
  /\ UNCHANGED <<lease, peers, bridgeVars>>

-----------------------------------------------------------------------------
(* KVS worker and bridge.                                                   *)

\* The answer of OpenPeer may come too late: the peer exists, nobody uses it.
OpenPeer(s, answered) ==
  /\ s \notin opened
  /\ opened' = opened \cup {s} /\ peers' = peers \cup {s}
  /\ known' = IF answered THEN known \cup {s} ELSE known
  /\ worker' = IF answered THEN [worker EXCEPT ![s] = 0] ELSE worker
  /\ UNCHANGED <<lease, closing, call, stream, safe>>

\* HandleControlMessage of the bridge checks the peer before it queues the event.
WorkerControl(s, r) ==
  /\ call[s] = NoCall
  /\ call' = IF worker[s] # NoPeer /\ s \in known THEN [call EXCEPT ![s] = r] ELSE call
  /\ UNCHANGED <<daemonVars, known, closing, opened, worker, stream>>

\* mavlink_lock keeps frames back while a control call is under way.
WorkerFrame(s, asked) ==
  /\ call[s] = NoCall /\ Len(stream[s]) < Channel
  /\ stream' = IF worker[s] \notin {0, NoPeer} /\ s \in known
               THEN [stream EXCEPT ![s] = Append(@, [stamp |-> worker[s], asked |-> asked])]
               ELSE stream
  /\ UNCHANGED <<daemonVars, known, closing, opened, worker, call>>

\* ExchangeFrames returns and closes the peer.
EndExchange(s) ==
  /\ known' = known \ {s}
  /\ closing' = IF s \in known THEN closing \cup {s} ELSE closing

StreamBreaks(s) ==
  /\ s \in known /\ EndExchange(s)
  /\ stream' = [stream EXCEPT ![s] = <<>>]
  /\ UNCHANGED <<daemonVars, opened, worker, call>>

CloseMavlinkDataChannel(s) ==
  /\ worker[s] # NoPeer /\ call[s] = NoCall
  /\ worker' = [worker EXCEPT ![s] = NoPeer] /\ EndExchange(s)
  /\ stream' = [stream EXCEPT ![s] = <<>>]
  /\ UNCHANGED <<daemonVars, opened, call>>

\* closePeer gave up before the event was queued.
CloseLost(s) ==
  /\ s \in closing /\ closing' = closing \ {s}
  /\ UNCHANGED <<daemonVars, known, opened, worker, call, stream>>

-----------------------------------------------------------------------------
(* Events of the daemon's loop.                                             *)

\* The worker takes its epoch from every answer that has one; an answer that
\* comes too late is not seen by it.
DaemonControl(s, r, answered) ==
  LET ok == Accepted(ClearExpired(lease), s, r) IN
  /\ lease' = HandleControlMessage(s, r) /\ lease'.nextEpoch <= MaxEpoch
  /\ IF r.type = "release" /\ ok THEN RequestSafe("disarm") ELSE UNCHANGED safe
  /\ worker' = IF answered /\ ok THEN [worker EXCEPT ![s] = lease'.nextEpoch] ELSE worker
  /\ call' = [call EXCEPT ![s] = NoCall]
  /\ UNCHANGED <<peers, known, closing, opened, stream>>

\* A frame of another epoch is dropped, and the stream goes on.
FrameDropped(s, stamp) ==
  /\ ~Owns(ClearExpired(lease), s, stamp)
  /\ lease' = ClearExpired(lease)
  /\ stream' = [stream EXCEPT ![s] = IF @ = <<>> THEN @ ELSE Tail(@)]
  /\ UNCHANGED <<peers, safe, known, closing, opened, worker, call>>

\* Only MANUAL_CONTROL counts as drive input.
FrameAccepted(s, stamp, manual) ==
  /\ Owns(ClearExpired(lease), s, stamp)
  /\ lease' = IF manual THEN [lease EXCEPT !.idle = 0, !.tripped = FALSE] ELSE lease
  /\ stream' = [stream EXCEPT ![s] = IF @ = <<>> THEN @ ELSE Tail(@)]
  /\ UNCHANGED <<peers, safe, known, closing, opened, worker, call>>

\* Any other error of forwardUplink ends the stream.
FrameFails(s, stamp) ==
  /\ Owns(ClearExpired(lease), s, stamp)
  /\ EndExchange(s)
  /\ stream' = [stream EXCEPT ![s] = <<>>]
  /\ UNCHANGED <<daemonVars, opened, worker, call>>

HandleFrame(s, stamp) ==
  \/ FrameDropped(s, stamp) \/ FrameFails(s, stamp)
  \/ \E manual \in BOOLEAN : FrameAccepted(s, stamp, manual)

\* Variant: the lease of the closed peer stays.
ClosePeerKeepsLease(s) ==
  /\ s \in closing /\ closing' = closing \ {s} /\ peers' = peers \ {s}
  /\ UNCHANGED <<lease, safe, known, opened, worker, call, stream>>

ClosePeer(s) ==
  /\ s \in closing /\ closing' = closing \ {s} /\ peers' = peers \ {s}
  /\ LET owner == lease.active.session = s IN
       /\ lease' = IF owner THEN Cleared(lease) ELSE lease
       /\ IF owner THEN RequestSafe("disarm") ELSE UNCHANGED safe
  /\ UNCHANGED <<known, opened, worker, call, stream>>

WatchdogExpired == lease.active # NoLease /\ lease.idle = Gap /\ ~lease.tripped

\* Variant: the tick looks at the idle watchdog only.
TickIdleOnly ==
  /\ ~Expired(lease) /\ WatchdogExpired
  /\ lease' = [lease EXCEPT !.tripped = TRUE]
  /\ RequestSafe("neutral")
  /\ UNCHANGED <<peers, bridgeVars>>

TickWatchdogs ==
  /\ \/ /\ Expired(lease) /\ lease' = Cleared(lease)
        /\ RequestSafe("disarm")
     \/ /\ ~Expired(lease) /\ WatchdogExpired
        /\ lease' = [lease EXCEPT !.tripped = TRUE]
        /\ RequestSafe("neutral")
  /\ UNCHANGED <<peers, bridgeVars>>

Advance ==
  /\ lease.active # NoLease
  /\ lease' = [lease EXCEPT !.active.left = IF @ > 0 THEN @ - 1 ELSE 0,
                            !.idle = IF @ < Gap THEN @ + 1 ELSE @]
  /\ UNCHANGED <<peers, safe, bridgeVars>>

PeerStep(s) ==
  \/ CloseMavlinkDataChannel(s) \/ StreamBreaks(s) \/ CloseLost(s) \/ ClosePeer(s)
  \/ stream[s] # <<>> /\ HandleFrame(s, Head(stream[s]).stamp)

\* A client of which nothing is known: any request and frame at any time.
ClientStep(s) ==
  \/ \E answered \in BOOLEAN : OpenPeer(s, answered)
  \/ s \in known /\ \E r \in Request : DaemonControl(s, r, FALSE)
  \/ s \in known /\ \E stamp \in Epochs : HandleFrame(s, stamp)

DaemonStep == TickWatchdogs \/ Advance \/ FlightSafe
===============================================================================
