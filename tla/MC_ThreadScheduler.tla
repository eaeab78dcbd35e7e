------------------------- MODULE MC_ThreadScheduler -------------------------
(* Three devices that compete for two workers, two callers of Maintain; the  *)
(* .cfg bounds commands.                                                     *)
EXTENDS ThreadScheduler
=============================================================================
