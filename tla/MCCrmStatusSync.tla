-------------------------- MODULE MCCrmStatusSync --------------------------
(* Instances of CrmStatusSync for TLC. *)
EXTENDS CrmStatusSync, TLC

Symmetry ==
    Permutations(Statuses \ {FirstStatus}) \cup Permutations(Editors) \cup Permutations(Handlers)
=============================================================================
