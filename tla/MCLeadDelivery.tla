--------------------------- MODULE MCLeadDelivery ---------------------------
(* Instances of LeadDelivery for TLC. *)
EXTENDS LeadDelivery
=============================================================================
