CONSTANTS
  Transports = {t1, t2}
  Boards = {b1}
  Link = "ble"
  Inventory <- UnitInventory
  Rules <- UnitRules
  TTL = 1
  MaxTime = 2
SPECIFICATION Spec
CHECK_DEADLOCK FALSE
SYMMETRY Symmetry
INVARIANTS
  EvidenceOrder
  BoardEvidenceCurrent
  LadderCoherent
  SuppressionSound
