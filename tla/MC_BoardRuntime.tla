--------------------------- MODULE MC_BoardRuntime ---------------------------
(* BoardRuntime with one data channel of the agent and one of the Office, and *)
(* with one MCP session over each transport.                                  *)
EXTENDS BoardRuntime

\* The agent and the Office meet, or the agent is alone and has control twice.
Start ==
  \/ opened = {} /\ agent.gen = MaxGen - 1
  \/ opened = OfficePeers /\ agent.gen = 0

MCInit == Init /\ Start

MCFairSpec == MCInit /\ [][Next]_boardVars /\ Fairness
===============================================================================
