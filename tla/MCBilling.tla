----------------------------- MODULE MCBilling -----------------------------
(* Instances of Billing for TLC. *)
EXTENDS Billing, TLC

\* a monthly tariff of two ticks, so that a period can run out in a run
MCMonths == [f \in Tariffs |-> 2]

Symmetry == Permutations(Payments) \cup Permutations(Workers)
=============================================================================
