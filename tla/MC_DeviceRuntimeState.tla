----------------------- MODULE MC_DeviceRuntimeState -----------------------
(* The manifest of a unit over BLE (devices/unit/manifest.toml).            *)
EXTENDS DeviceRuntimeState, TLC

Symmetry == Permutations(Transports)

Ladder(link) ==
  [level \in 1..4 |->
     {"sparkplug", link} \cup (IF level < 4 THEN {"power"} ELSE {})
       \cup (IF level < 3 THEN {"board", "control"} ELSE {})
       \cup (IF level < 2 THEN {"video"} ELSE {})]

UnitInventory == {"sparkplug", "ble", "power"} \cup BoardCaps
UnitRules     == Ladder("ble")

=============================================================================
