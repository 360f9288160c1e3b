--------------------------- MODULE MCSystemUpdates ---------------------------
EXTENDS SystemUpdates, TLC
Symmetry == Permutations(Requests) \cup Permutations(Agents)
=============================================================================
