----------------------------- MODULE MC_BleSession -----------------------------
(* BleSession with room for one notification and two attempts to write.         *)
EXTENDS BleSession
===============================================================================
