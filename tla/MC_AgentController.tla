-------------------------- MODULE MC_AgentController --------------------------
(* One invocation of the controller at a time, or two at work on one device. *)
EXTENDS AgentController, TLC

\* The device is inactive, then active, once or twice.
OneActivation == <<FALSE, TRUE>>
TwoActivations == <<FALSE, TRUE, FALSE, TRUE>>

Symmetry == Permutations(Controllers)
===============================================================================
