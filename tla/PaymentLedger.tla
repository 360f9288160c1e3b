--------------------------- MODULE PaymentLedger ---------------------------
(***************************************************************************)
(* What billing promises about money, without its machinery: a payment     *)
(* provider charges and refunds payments, and each charge and each refund  *)
(* is entered in the tenant's ledger (the Transaction table) at most once, *)
(* never before the provider has made it.                                  *)
(***************************************************************************)
EXTENDS Naturals

CONSTANT Payments        \* every payment the system will ever create

VARIABLES
    charged,             \* payments whose money the provider has taken
    returned,            \* payments whose money the provider has given back
    credits,             \* ledger rows of type "payment", per payment
    refunds              \* ledger rows of type "refund", per payment

vars == <<charged, returned, credits, refunds>>

Init ==
    /\ charged = {}
    /\ returned = {}
    /\ credits = [p \in Payments |-> 0]
    /\ refunds = [p \in Payments |-> 0]

Charge(p) ==
    /\ charged' = charged \cup {p}
    /\ UNCHANGED <<returned, credits, refunds>>

Return(p) ==
    /\ p \in charged
    /\ returned' = returned \cup {p}
    /\ UNCHANGED <<charged, credits, refunds>>

Credit(p) ==
    /\ p \in charged
    /\ credits[p] = 0
    /\ credits' = [credits EXCEPT ![p] = 1]
    /\ UNCHANGED <<charged, returned, refunds>>

Refund(p) ==
    /\ p \in returned
    /\ refunds[p] = 0
    /\ refunds' = [refunds EXCEPT ![p] = 1]
    /\ UNCHANGED <<charged, returned, credits>>

Next == \E p \in Payments : Charge(p) \/ Return(p) \/ Credit(p) \/ Refund(p)

Spec == Init /\ [][Next]_vars
=============================================================================
