----------------------------- MODULE ControlLease -----------------------------
(***************************************************************************)
(* What an operator of a board is promised: at most one session has        *)
(* control, and every grant of it gets an epoch that no grant had before.   *)
(* Renewals are not visible; a lease may end at any time, for the session   *)
(* itself or for the daemon that cannot reach it.                           *)
(***************************************************************************)
EXTENDS Naturals

CONSTANTS Clients, Nobody

VARIABLES
  owner,  \* the session in control
  epoch   \* of the last grant

leaseVars == <<owner, epoch>>

Free == owner = Nobody /\ epoch = 0

\* Possibly a takeover, or a second grant to a session whose lease ran out.
Grant(s) == owner' = s /\ epoch' = epoch + 1

End == owner # Nobody /\ owner' = Nobody /\ UNCHANGED epoch

Exclusive == Free /\ [][End \/ \E s \in Clients : Grant(s)]_leaseVars
===============================================================================
