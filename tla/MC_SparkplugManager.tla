------------------------ MODULE MC_SparkplugManager ------------------------
EXTENDS SparkplugManager, TLC

Symmetry == Permutations(Devices) \cup Permutations(Reports)
=============================================================================
