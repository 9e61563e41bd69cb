---- MODULE MCGattManager ----
EXTENDS GattManager, TLC
Symmetry == Permutations(Connects) \cup Permutations(Profiles)
====
