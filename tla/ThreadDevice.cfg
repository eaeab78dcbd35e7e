SPECIFICATION FairSpec
INVARIANTS
  PendingIsQueued
PROPERTIES
  RecoveryGoesOn
  FallsAsleep
