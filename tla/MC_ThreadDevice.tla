--------------------------- MODULE MC_ThreadDevice ---------------------------
(* One device of the release profile.                                        *)
EXTENDS ThreadDevice
==============================================================================
