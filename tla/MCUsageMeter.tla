---------------------------- MODULE MCUsageMeter ----------------------------
(* Instances of UsageMeter for TLC. *)
EXTENDS UsageMeter, TLC

Symmetry == Permutations(Requests) \cup Permutations(Syncs)
=============================================================================
