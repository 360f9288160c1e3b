----------------------------- MODULE MCFollowUp -----------------------------
(* Instances of FollowUp for TLC. *)
EXTENDS FollowUp, TLC

ShortDelays == [a \in 0..MaxAttempts |-> IF a = 0 THEN 1 ELSE 2]

Symmetry == Permutations(Jobs)
=============================================================================
