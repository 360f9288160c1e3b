---------------------------- MODULE MCLeadCapture ----------------------------
EXTENDS LeadCapture, TLC
Symmetry == Permutations(Visitors) \cup Permutations(Messages)
=============================================================================
