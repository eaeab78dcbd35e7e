----------------------------- MODULE MC_AgentWatch -----------------------------
(* One invocation of the controller at a time, and the watch of the witness.  *)
EXTENDS AgentWatch

\* The device is inactive, then active, once or twice.
OneActivation == <<FALSE, TRUE>>
TwoActivations == <<FALSE, TRUE, FALSE, TRUE>>
================================================================================
