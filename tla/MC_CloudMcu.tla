----------------------------- MODULE MC_CloudMcu -----------------------------
(* One cloud device whose ticks overlap, with a command to it and a failure,  *)
(* a command to its rig, or two failures.                                    *)
EXTENDS CloudMcu

Budget(d, n, f, t) == [dcmds |-> d, ncmds |-> n, failures |-> f, task |-> t]

Few == {Budget(1, 0, 1, 2), Budget(0, 1, 0, 3), Budget(0, 0, 1, 3), Budget(0, 0, 2, 2)}
==============================================================================
