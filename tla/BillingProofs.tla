--------------------------- MODULE BillingProofs ---------------------------
(***************************************************************************)
(* Proofs about Billing for every set of tenants, payments, tariffs and    *)
(* webhook workers, and every clock and fault bound.                       *)
(***************************************************************************)
EXTENDS Billing, Integers, SequenceTheorems, FiniteSetTheorems, TLAPS

\* The rows a process holds on to exist: the payment a request is creating, the
\* payment and the subscription of a claimed delivery, the subscription expiry
\* is about to cancel. Rows are never deleted.
RowsExist ==
    /\ \A p \in Payments : status[p] = "none" => call[p] = "none"
    /\ \A w \in Workers : worker[w].pc = "claimed" =>
         /\ status[worker[w].payment] # "none"
         /\ worker[w].slot # 0 =>
              worker[w].slot \in DOMAIN subs[info[worker[w].payment].tenant]
    /\ \A item \in expiring : item.slot # 0 => item.slot \in DOMAIN subs[item.tenant]

TypeInv == TypeOK /\ RowsExist

\* Replacing an element of a sequence by another of the same kind.
LEMMA SeqUpdate ==
    ASSUME NEW S, NEW s \in Seq(S), NEW i, NEW e \in S
    PROVE  /\ [s EXCEPT ![i] = e] \in Seq(S)
           /\ DOMAIN [s EXCEPT ![i] = e] = DOMAIN s
<1>1. CASE i \in DOMAIN s
  BY <1>1, LenProperties, ExceptSeq
<1>2. CASE i \notin DOMAIN s
  <2>1. s = [j \in DOMAIN s |-> s[j]]
    BY LenProperties
  <2>2. [s EXCEPT ![i] = e] = [j \in DOMAIN s |-> s[j]]
    BY <1>2
  <2> QED BY <2>1, <2>2
<1> QED BY <1>1, <1>2

\* A row added at the end leaves the others where they were.
LEMMA SeqAppend ==
    ASSUME NEW S, NEW s \in Seq(S), NEW e \in S
    PROVE  /\ Append(s, e) \in Seq(S)
           /\ DOMAIN s \subseteq DOMAIN Append(s, e)
  BY LenProperties, AppendProperties

LEMMA InitTypeInv == Init => TypeInv
<1> SUFFICES ASSUME Init PROVE TypeInv
  OBVIOUS
<1>1. [t \in Tenants |-> <<[status |-> "trialing", tariff |-> DefaultTariff,
                            end |-> TrialEnd, method |-> FALSE]>>]
        \in [Tenants -> Seq(Subscription)]
  BY TariffsAssumption, BoundsAssumption DEF Subscription
<1>2. TypeOK
  BY <1>1 DEF Init, TypeOK, PaymentInfo, NoInfo, TenantRow, Idle
<1>3. RowsExist
  BY DEF Init, RowsExist, Idle
<1> QED BY <1>2, <1>3 DEF TypeInv

LEMMA StepTypeInv == TypeInv /\ [Next]_vars => TypeInv'
<1> SUFFICES ASSUME TypeInv, [Next]_vars PROVE TypeInv'
  OBVIOUS
<1> USE DEF TypeInv, paymentVars, ledgerVars, yooVars, cronVars, clockVars
<1>1. ASSUME NEW p \in Payments, NEW t \in Tenants, NEW f \in Tariffs, Checkout(p, t, f)
      PROVE  TypeInv'
  BY <1>1 DEF Checkout, CreatePayment, TypeOK, RowsExist, PaymentInfo, PaymentStatus
<1>2. CASE RenewScan
  BY <1>2 DEF RenewScan, TypeOK, RowsExist
<1>3. ASSUME NEW item \in renewing, RenewSubscription(item) PROVE TypeInv'
  <2>1. CASE UNCHANGED paymentVars
    BY <1>3, <2>1 DEF RenewSubscription, TypeOK, RowsExist
  <2>2. ASSUME NEW p \in Payments, CreatePayment(p, item.tenant, item.tariff, TRUE)
        PROVE  TypeInv'
    <3>1. item.tenant \in Tenants /\ item.tariff \in Tariffs
      BY DEF TypeOK
    <3>2. TypeOK'
      BY <1>3, <2>2, <3>1 DEF RenewSubscription, CreatePayment, TypeOK, PaymentInfo, PaymentStatus
    <3>3. RowsExist'
      BY <1>3, <2>2 DEF RenewSubscription, CreatePayment, TypeOK, RowsExist
    <3> QED BY <3>2, <3>3
  <2> QED BY <1>3, <2>1, <2>2 DEF RenewSubscription
<1>4. ASSUME NEW p \in Payments, CallYooKassa(p) PROVE TypeInv'
  <2>1. /\ yoo' \in [Payments -> {"none", "pending", "succeeded", "canceled", "refunded"}]
        /\ call' \in [Payments -> {"none", "calling", "created", "failed", "done"}]
    BY <1>4 DEF CallYooKassa, TypeOK
  <2>2. faults' \in Nat
    BY <1>4 DEF CallYooKassa, TypeOK
  <2> QED BY <1>4, <2>1, <2>2 DEF CallYooKassa, TypeOK, RowsExist
<1>5. ASSUME NEW p \in Payments, StoreYooId(p) PROVE TypeInv'
  <2>1. linked' \subseteq Payments
    BY <1>5 DEF StoreYooId, TypeOK
  <2>2. call' \in [Payments -> {"none", "calling", "created", "failed", "done"}]
    BY <1>5 DEF StoreYooId, TypeOK
  <2>3. faults' \in Nat
    BY <1>5 DEF StoreYooId, TypeOK
  <2> QED BY <1>5, <2>1, <2>2, <2>3 DEF StoreYooId, TypeOK, RowsExist
<1>6. ASSUME NEW p \in Payments, CatchFailure(p) PROVE TypeInv'
  <2>1. /\ status[p] # "none"
        /\ status' \in [Payments -> PaymentStatus \cup {"none"}]
        /\ call' \in [Payments -> {"none", "calling", "created", "failed", "done"}]
    BY <1>6 DEF CatchFailure, RowsExist, TypeOK, PaymentStatus
  <2> QED BY <1>6, <2>1 DEF CatchFailure, TypeOK, RowsExist
<1>7. ASSUME NEW p \in Payments, YooSettles(p) \/ YooRefunds(p) PROVE TypeInv'
  <2>1. /\ yoo' \in [Payments -> {"none", "pending", "succeeded", "canceled", "refunded"}]
        /\ notices' \in [Events \X Payments -> {"unsent", "sent", "acked"}]
    BY <1>7 DEF YooSettles, YooRefunds, Notify, TypeOK, Events
  <2> QED BY <1>7, <2>1 DEF YooSettles, YooRefunds, TypeOK, RowsExist
<1>8. ASSUME NEW w \in Workers, NEW event \in Events, NEW p \in Payments, Handle(w, event, p)
      PROVE  TypeInv'
  <2>1. notices' \in [Events \X Payments -> {"unsent", "sent", "acked"}]
    BY <1>8 DEF Handle, Acknowledge, TypeOK
  <2>2. worker' \in [Workers -> {Idle} \cup Loaded \cup Claimed]
    <3>1. [pc |-> "loaded", event |-> event, payment |-> p] \in Loaded
      BY DEF Loaded
    <3> QED BY <1>8, <3>1 DEF Handle, TypeOK
  <2>3. \A v \in Workers : worker'[v].pc = "claimed" => worker'[v] = worker[v]
    BY <1>8 DEF Handle, TypeOK
  <2> QED BY <1>8, <2>1, <2>2, <2>3 DEF Handle, TypeOK, RowsExist
<1>9. ASSUME NEW w \in Workers, ActivateClaim(w) PROVE TypeInv'
  <2> DEFINE p == worker[w].payment
             t == info[p].tenant
  <2>1. worker[w] \in Loaded /\ p \in Payments
    BY <1>9 DEF ActivateClaim, TypeOK, Idle, Loaded, Claimed
  <2>2. CASE worker' = [worker EXCEPT ![w] = Idle] /\ Acknowledge("payment.succeeded", p)
    <3>1. notices' \in [Events \X Payments -> {"unsent", "sent", "acked"}]
      BY <2>1, <2>2 DEF Acknowledge, TypeOK, Events
    <3>2. \A v \in Workers : worker'[v].pc = "claimed" => worker'[v] = worker[v]
      BY <2>2 DEF TypeOK, Idle
    <3> QED BY <1>9, <2>2, <3>1, <3>2 DEF ActivateClaim, TypeOK, RowsExist
  <2>3. ASSUME status[p] = "pending",
               NEW slot \in IF ActiveSubs(t) = {} THEN {0} ELSE ActiveSubs(t),
               worker' = [worker EXCEPT ![w] =
                  [pc |-> "claimed", payment |-> p, slot |-> slot,
                   end |-> now + Months[info[p].tariff]]],
               UNCHANGED notices
        PROVE  TypeInv'
    <3>1. info[p] \in PaymentInfo /\ t \in Tenants /\ info[p].tariff \in Tariffs
      BY <2>1, <2>3 DEF TypeOK, PaymentInfo
    <3>2. slot \in Nat /\ (slot # 0 => slot \in DOMAIN subs[t])
      <4>1. DOMAIN subs[t] \subseteq Nat
        BY <3>1, LenProperties DEF TypeOK
      <4> QED BY <4>1 DEF ActiveSubs
    <3>3. now + Months[info[p].tariff] \in Nat
      BY <3>1, TariffsAssumption DEF TypeOK
    <3>4. worker' \in [Workers -> {Idle} \cup Loaded \cup Claimed]
      BY <2>1, <2>3, <3>2, <3>3 DEF TypeOK, Claimed
    <3>5. RowsExist'
      BY <1>9, <2>3, <3>2 DEF ActivateClaim, RowsExist, TypeOK
    <3> QED BY <1>9, <2>3, <3>4, <3>5 DEF ActivateClaim, TypeOK
  <2> QED BY <1>9, <2>2, <2>3 DEF ActivateClaim
<1>10. ASSUME NEW w \in Workers, ActivateCommit(w) PROVE TypeInv'
  <2> DEFINE p == worker[w].payment
             t == info[p].tenant
             f == info[p].tariff
             i == worker[w].slot
             renewed == [status |-> "active", tariff |-> f,
                         end |-> worker[w].end, method |-> TRUE]
  <2>1. /\ worker[w] \in Claimed /\ p \in Payments /\ i \in Nat
        /\ worker[w].end \in Nat
    BY <1>10 DEF ActivateCommit, TypeOK, Idle, Loaded, Claimed
  <2>2. /\ t \in Tenants /\ f \in Tariffs
        /\ i # 0 => i \in DOMAIN subs[t]
    BY <1>10, <2>1 DEF ActivateCommit, RowsExist, TypeOK, PaymentInfo
  <2>3. renewed \in Subscription
    BY <2>1, <2>2 DEF Subscription
  <2>4. /\ subs'[t] \in Seq(Subscription)
        /\ DOMAIN subs[t] \subseteq DOMAIN subs'[t]
    <3>1. CASE i = 0
      <4>1. subs'[t] = Append(subs[t], renewed)
        BY <1>10, <2>2, <3>1 DEF ActivateCommit, TypeOK
      <4>2. subs[t] \in Seq(Subscription)
        BY <2>2 DEF TypeOK
      <4> HIDE DEF t, renewed
      <4> QED BY <2>3, <4>1, <4>2, SeqAppend
    <3>2. CASE i # 0
      <4> DEFINE kept == [renewed EXCEPT !.status = subs[t][i].status]
      <4>1. subs[t][i] \in Subscription
        BY <2>2, <3>2, LenProperties, ElementOfSeq DEF TypeOK
      <4>2. kept \in Subscription
        BY <2>3, <4>1 DEF Subscription
      <4>3. subs'[t] = [subs[t] EXCEPT ![i] = kept]
        BY <1>10, <2>2, <3>2 DEF ActivateCommit, TypeOK
      <4>4. subs[t] \in Seq(Subscription)
        BY <2>2 DEF TypeOK
      <4> HIDE DEF kept, t, i
      <4>5. /\ [subs[t] EXCEPT ![i] = kept] \in Seq(Subscription)
            /\ DOMAIN [subs[t] EXCEPT ![i] = kept] = DOMAIN subs[t]
        BY <4>2, <4>4, SeqUpdate
      <4> QED BY <4>3, <4>5
    <3> QED BY <3>1, <3>2
  <2>5. \A u \in Tenants : u # t => subs'[u] = subs[u]
    BY <1>10 DEF ActivateCommit, TypeOK
  <2>6. subs' \in [Tenants -> Seq(Subscription)]
    <3>1. DOMAIN subs' = Tenants /\ subs' = [u \in Tenants |-> subs'[u]]
      BY <1>10 DEF ActivateCommit, TypeOK
    <3> QED BY <2>4, <2>5, <3>1 DEF TypeOK
  <2>7. \A u \in Tenants : DOMAIN subs[u] \subseteq DOMAIN subs'[u]
    BY <2>4, <2>5
  <2>8. /\ status' \in [Payments -> PaymentStatus \cup {"none"}]
        /\ \A q \in Payments : status'[q] # "none" => info[q] \in PaymentInfo
        /\ \A q \in Payments : status[q] # "none" => status'[q] # "none"
        /\ tenant' \in [Tenants -> TenantRow]
        /\ credits' \in [Payments -> Nat]
    BY <1>10, <2>1, <2>2 DEF ActivateCommit, RowsExist, TypeOK, PaymentStatus, TenantRow
  <2>9. /\ worker' \in [Workers -> {Idle} \cup Loaded \cup Claimed]
        /\ \A v \in Workers : worker'[v].pc = "claimed" => worker'[v] = worker[v]
        /\ notices' \in [Events \X Payments -> {"unsent", "sent", "acked"}]
    BY <1>10, <2>1 DEF ActivateCommit, Acknowledge, TypeOK, Idle, Events
  <2>10. RowsExist'
    <3>1. \A v \in Workers : worker[v].pc = "claimed" =>
             /\ worker[v].payment \in Payments
             /\ info[worker[v].payment].tenant \in Tenants
      BY DEF RowsExist, TypeOK, Idle, Loaded, Claimed, PaymentInfo
    <3>2. \A item \in expiring : item.tenant \in Tenants
      BY DEF TypeOK
    <3>3. UNCHANGED <<info, call, expiring>>
      BY <1>10 DEF ActivateCommit
    <3> HIDE DEF p, t, f, i, renewed
    <3> QED BY <2>7, <2>8, <2>9, <3>1, <3>2, <3>3 DEF RowsExist
  <2> QED BY <1>10, <2>6, <2>8, <2>9, <2>10 DEF ActivateCommit, TypeOK
<1>11. ASSUME NEW w \in Workers, CancelPayment(w) \/ RefundPayment(w) PROVE TypeInv'
  <2> DEFINE p == worker[w].payment
  <2>1. worker[w] \in Loaded /\ p \in Payments
    BY <1>11 DEF CancelPayment, RefundPayment, TypeOK, Idle, Loaded, Claimed
  <2>2. /\ worker' \in [Workers -> {Idle} \cup Loaded \cup Claimed]
        /\ \A v \in Workers : worker'[v].pc = "claimed" => worker'[v] = worker[v]
        /\ notices' \in [Events \X Payments -> {"unsent", "sent", "acked"}]
    <3>1. worker' = [worker EXCEPT ![w] = Idle]
      BY <1>11 DEF CancelPayment, RefundPayment
    <3>2. \/ Acknowledge("payment.canceled", p)
          \/ Acknowledge("refund.succeeded", p)
      BY <1>11 DEF CancelPayment, RefundPayment
    <3>3. notices' \in [Events \X Payments -> {"unsent", "sent", "acked"}]
      BY <2>1, <3>2 DEF Acknowledge, TypeOK, Events
    <3> QED BY <3>1, <3>3 DEF TypeOK, Idle
  <2>3. /\ status' \in [Payments -> PaymentStatus \cup {"none"}]
        /\ \A q \in Payments : status[q] # "none" <=> status'[q] # "none"
        /\ refunds' \in [Payments -> Nat]
    <3>1. CASE CancelPayment(w)
      BY <2>1, <3>1 DEF CancelPayment, TypeOK, PaymentStatus
    <3>2. CASE RefundPayment(w)
      <4>1. status \in [Payments -> PaymentStatus \cup {"none"}] /\ refunds \in [Payments -> Nat]
        BY DEF TypeOK
      <4>2. \/ /\ status[p] \in {"pending", "succeeded"}
               /\ status' = [status EXCEPT ![p] = "refunded"]
               /\ refunds' = [refunds EXCEPT ![p] = @ + 1]
            \/ UNCHANGED <<status, refunds>>
        BY <3>2 DEF RefundPayment
      <4> QED BY <2>1, <4>1, <4>2 DEF PaymentStatus
    <3> QED BY <1>11, <3>1, <3>2
  <2>4. UNCHANGED <<info, linked, call, yoo, subs, tenant, credits, expiring, renewing, now, faults>>
    BY <1>11 DEF CancelPayment, RefundPayment
  <2>5. \A v \in Workers : worker[v].pc = "claimed" => worker[v].payment \in Payments
    BY DEF TypeOK, Idle, Loaded, Claimed
  <2>6. TypeOK'
    BY <2>2, <2>3, <2>4 DEF TypeOK
  <2>7. RowsExist'
    BY <2>2, <2>3, <2>4, <2>5 DEF RowsExist
  <2> QED BY <2>6, <2>7
<1>12. ASSUME NEW w \in Workers, HandlerFails(w) PROVE TypeInv'
  BY <1>12 DEF HandlerFails, TypeOK, RowsExist, Idle
<1>13. CASE ExpireScan
  <2>1. \A item \in expiring' : /\ item \in [tenant : Tenants, slot : Nat]
                                /\ item.slot # 0 => item.slot \in DOMAIN subs[item.tenant]
    <3>1. \A t \in Tenants : TrialSlot(t) \subseteq DOMAIN subs[t] /\ DOMAIN subs[t] \subseteq Nat
      BY LenProperties DEF TypeOK, TrialSlot, NewestLive, LiveSubs
    <3> QED BY <1>13, <3>1 DEF ExpireScan, ExpiredTrials
  <2> QED BY <1>13, <2>1 DEF ExpireScan, TypeOK, RowsExist
<1>14. ASSUME NEW item \in expiring, ExpireTrial(item) PROVE TypeInv'
  <2> DEFINE t == item.tenant
             i == item.slot
  <2>1. t \in Tenants /\ i \in Nat /\ (i # 0 => i \in DOMAIN subs[t])
    BY DEF TypeOK, RowsExist
  <2>2. tenant' \in [Tenants -> TenantRow]
    BY <1>14, <2>1 DEF ExpireTrial, TypeOK, TenantRow
  <2>3. /\ subs' \in [Tenants -> Seq(Subscription)]
        /\ \A u \in Tenants : DOMAIN subs'[u] = DOMAIN subs[u]
    <3>1. CASE i = 0
      BY <1>14, <3>1 DEF ExpireTrial, TypeOK
    <3>2. CASE i # 0
      <4> DEFINE gone == [subs[t][i] EXCEPT !.status = "canceled"]
      <4>1. subs[t][i] \in Subscription /\ subs[t] \in Seq(Subscription)
        BY <2>1, <3>2, LenProperties, ElementOfSeq DEF TypeOK
      <4>2. gone \in Subscription
        BY <4>1 DEF Subscription
      <4>3. subs' = [subs EXCEPT ![t] = [subs[t] EXCEPT ![i] = gone]]
        BY <1>14, <2>1, <3>2 DEF ExpireTrial, TypeOK
      <4> HIDE DEF gone
      <4>4. /\ [subs[t] EXCEPT ![i] = gone] \in Seq(Subscription)
            /\ DOMAIN [subs[t] EXCEPT ![i] = gone] = DOMAIN subs[t]
        BY <4>1, <4>2, SeqUpdate
      <4> QED BY <2>1, <4>3, <4>4 DEF TypeOK
    <3> QED BY <3>1, <3>2
  <2>4. \A v \in Workers : worker[v].pc = "claimed" => info[worker[v].payment].tenant \in Tenants
    BY DEF RowsExist, TypeOK, Idle, Loaded, Claimed, PaymentInfo
  <2>5. \A other \in expiring : other.tenant \in Tenants
    BY DEF TypeOK
  <2>6. TypeOK'
    BY <1>14, <2>2, <2>3 DEF ExpireTrial, TypeOK
  <2>7. RowsExist'
    BY <1>14, <2>3, <2>4, <2>5 DEF ExpireTrial, RowsExist
  <2> QED BY <2>6, <2>7
<1>15. ASSUME NEW t \in Tenants, BlockTenant(t) \/ UnblockTenant(t) PROVE TypeInv'
  <2>1. tenant' \in [Tenants -> TenantRow]
    <3>1. tenant[t] \in TenantRow
      BY DEF TypeOK
    <3>2. /\ [tenant[t] EXCEPT !.status = "suspended"] \in TenantRow
          /\ [tenant[t] EXCEPT !.status = "active"] \in TenantRow
      BY <3>1 DEF TenantRow
    <3>3. \/ tenant' = [tenant EXCEPT ![t] = [tenant[t] EXCEPT !.status = "suspended"]]
          \/ tenant' = [tenant EXCEPT ![t] = [tenant[t] EXCEPT !.status = "active"]]
      BY <1>15 DEF BlockTenant, UnblockTenant
    <3> QED BY <3>2, <3>3 DEF TypeOK
  <2> QED BY <1>15, <2>1 DEF BlockTenant, UnblockTenant, TypeOK, RowsExist
<1>16. ASSUME NEW t \in Tenants, NEW f \in Tariffs, ChangeTariff(t, f) PROVE TypeInv'
  <2>1. [tenant[t] EXCEPT !.tariff = f] \in TenantRow
    <3>1. tenant[t] \in TenantRow
      BY DEF TypeOK
    <3> QED BY <3>1 DEF TenantRow
  <2>2. tenant' = [tenant EXCEPT ![t] = [tenant[t] EXCEPT !.tariff = f]]
    BY <1>16 DEF ChangeTariff
  <2>3. tenant' \in [Tenants -> TenantRow]
    BY <2>1, <2>2 DEF TypeOK
  <2> QED BY <1>16, <2>3 DEF ChangeTariff, TypeOK, RowsExist
<1>17. CASE Crash
  BY <1>17 DEF Crash, CanFault, TypeOK, RowsExist, Idle
<1>18. CASE Tick
  BY <1>18 DEF Tick, TypeOK, RowsExist
<1>19. CASE UNCHANGED vars
  BY <1>19 DEF vars, TypeOK, RowsExist
<1> QED
  BY <1>1, <1>2, <1>3, <1>4, <1>5, <1>6, <1>7, <1>8, <1>9, <1>10, <1>11, <1>12, <1>13,
     <1>14, <1>15, <1>16, <1>17, <1>18, <1>19 DEF Next, Webhook

\* Billing is type correct, and no process ever writes through a reference to a
\* row that does not exist.
THEOREM TypeCorrect == Spec => [](TypeOK /\ RowsExist)
<1>1. Spec => []TypeInv
  BY InitTypeInv, StepTypeInv, PTL DEF Spec
<1> QED BY <1>1, PTL DEF TypeInv

-----------------------------------------------------------------------------
(* The ledger *)

\* The inductive invariant behind LedgerMatchesPayments. A delivery that is
\* committing an activation holds the row lock: the payment is still pending,
\* and no other delivery has claimed it. What YooKassa has announced, and what
\* the ledger shows, has happened at YooKassa.
ClaimsExclusive ==
    /\ \A w \in Workers : worker[w].pc = "claimed" => status[worker[w].payment] = "pending"
    /\ \A v, w \in Workers :
         /\ worker[v].pc = "claimed" /\ worker[w].pc = "claimed"
         /\ worker[v].payment = worker[w].payment
         => v = w

NoticesTrue ==
    /\ \A p \in Payments :
         /\ call[p] \in {"none", "calling"} => yoo[p] = "none"
         /\ notices[<<"payment.succeeded", p>>] # "unsent" => yoo[p] \in {"succeeded", "refunded"}
         /\ notices[<<"refund.succeeded", p>>] # "unsent" => yoo[p] = "refunded"
    /\ \A w \in Workers :
         /\ worker[w].pc = "loaded" => notices[<<worker[w].event, worker[w].payment>>] # "unsent"
         /\ worker[w].pc = "claimed" =>
              notices[<<"payment.succeeded", worker[w].payment>>] # "unsent"

LedgerTrue ==
    \A p \in Payments :
        /\ credits[p] # 0 => yoo[p] \in {"succeeded", "refunded"}
        /\ refunds[p] # 0 => yoo[p] = "refunded"

LedgerInv == ClaimsExclusive /\ NoticesTrue /\ LedgerTrue /\ LedgerMatchesPayments

LEMMA InitLedgerInv == Init => LedgerInv
  BY DEF Init, LedgerInv, ClaimsExclusive, NoticesTrue, LedgerTrue, LedgerMatchesPayments,
         Idle, Events

\* What the steps below use of the types.
LEMMA WorkerShapes ==
    ASSUME TypeOK, NEW w \in Workers
    PROVE  \/ worker[w] = Idle
           \/ worker[w].pc = "loaded" /\ worker[w].event \in Events /\ worker[w].payment \in Payments
           \/ worker[w].pc = "claimed" /\ worker[w].payment \in Payments
  BY DEF TypeOK, Loaded, Claimed

\* Answering a notice YooKassa has sent forgets no notice and invents none.
LEMMA AcknowledgeSent ==
    ASSUME TypeOK, NEW event \in Events, NEW p \in Payments,
           notices[<<event, p>>] # "unsent", Acknowledge(event, p)
    PROVE  \A e \in Events, q \in Payments :
             notices'[<<e, q>>] # "unsent" <=> notices[<<e, q>>] # "unsent"
  BY DEF TypeOK, Acknowledge

LEMMA StepLedgerInv == TypeInv /\ LedgerInv /\ [Next]_vars => LedgerInv'
<1> SUFFICES ASSUME TypeInv, LedgerInv, [Next]_vars PROVE LedgerInv'
  OBVIOUS
<1> USE DEF TypeInv, LedgerInv, paymentVars, ledgerVars, yooVars, cronVars, clockVars
<1> DEFINE Shape(w) ==
             \/ worker[w] = Idle
             \/ worker[w].pc = "loaded" /\ worker[w].event \in Events /\ worker[w].payment \in Payments
             \/ worker[w].pc = "claimed" /\ worker[w].payment \in Payments
<1>0. \A w \in Workers : Shape(w)
  BY WorkerShapes
<1>1. ASSUME NEW p \in Payments, NEW t \in Tenants, NEW f \in Tariffs, Checkout(p, t, f)
      PROVE  LedgerInv'
  <2>1. ClaimsExclusive'
    BY <1>0, <1>1 DEF Checkout, CreatePayment, TypeOK, ClaimsExclusive, Idle
  <2>2. NoticesTrue'
    BY <1>0, <1>1 DEF Checkout, CreatePayment, TypeOK, NoticesTrue, Idle, Events, RowsExist
  <2>3. LedgerTrue'
    BY <1>0, <1>1 DEF Checkout, CreatePayment, TypeOK, LedgerTrue, NoticesTrue, Events
  <2>4. LedgerMatchesPayments'
    BY <1>0, <1>1 DEF Checkout, CreatePayment, TypeOK, LedgerMatchesPayments, ClaimsExclusive, RowsExist
  <2> QED BY <2>1, <2>2, <2>3, <2>4
<1>2. ASSUME NEW item \in renewing, RenewSubscription(item)
      PROVE  LedgerInv'
  <2>1. ClaimsExclusive'
    BY <1>0, <1>2 DEF RenewSubscription, CreatePayment, TypeOK, ClaimsExclusive, Idle
  <2>2. NoticesTrue'
    BY <1>0, <1>2 DEF RenewSubscription, CreatePayment, TypeOK, NoticesTrue, Idle, Events, RowsExist
  <2>3. LedgerTrue'
    BY <1>0, <1>2 DEF RenewSubscription, CreatePayment, TypeOK, LedgerTrue, NoticesTrue, Events
  <2>4. LedgerMatchesPayments'
    BY <1>0, <1>2 DEF RenewSubscription, CreatePayment, TypeOK, LedgerMatchesPayments, ClaimsExclusive, RowsExist
  <2> QED BY <2>1, <2>2, <2>3, <2>4
<1>3. ASSUME NEW p \in Payments, CallYooKassa(p)
      PROVE  LedgerInv'
  <2>1. ClaimsExclusive'
    BY <1>0, <1>3 DEF CallYooKassa, TypeOK, ClaimsExclusive, Idle
  <2>2. NoticesTrue'
    BY <1>0, <1>3 DEF CallYooKassa, TypeOK, NoticesTrue, Idle, Events, RowsExist
  <2>3. LedgerTrue'
    <3>1. yoo[p] = "none" /\ credits[p] = 0 /\ refunds[p] = 0
      BY <1>3 DEF CallYooKassa, TypeOK, LedgerTrue, NoticesTrue
    <3>2. \A q \in Payments : q # p => yoo'[q] = yoo[q]
      BY <1>3 DEF CallYooKassa, TypeOK
    <3> QED BY <1>3, <3>1, <3>2 DEF CallYooKassa, LedgerTrue
  <2>4. LedgerMatchesPayments'
    BY <1>0, <1>3 DEF CallYooKassa, TypeOK, LedgerMatchesPayments, ClaimsExclusive, RowsExist
  <2> QED BY <2>1, <2>2, <2>3, <2>4
<1>4. ASSUME NEW p \in Payments, StoreYooId(p)
      PROVE  LedgerInv'
  <2>1. ClaimsExclusive'
    BY <1>0, <1>4 DEF StoreYooId, TypeOK, ClaimsExclusive, Idle
  <2>2. NoticesTrue'
    BY <1>0, <1>4 DEF StoreYooId, TypeOK, NoticesTrue, Idle, Events, RowsExist
  <2>3. LedgerTrue'
    BY <1>0, <1>4 DEF StoreYooId, TypeOK, LedgerTrue, NoticesTrue, Events
  <2>4. LedgerMatchesPayments'
    BY <1>0, <1>4 DEF StoreYooId, TypeOK, LedgerMatchesPayments, ClaimsExclusive, RowsExist
  <2> QED BY <2>1, <2>2, <2>3, <2>4
<1>5. ASSUME NEW p \in Payments, CatchFailure(p)
      PROVE  LedgerInv'
  <2>1. ClaimsExclusive'
    BY <1>0, <1>5 DEF CatchFailure, RowLocked, TypeOK, ClaimsExclusive, Idle
  <2>2. NoticesTrue'
    BY <1>0, <1>5 DEF CatchFailure, RowLocked, TypeOK, NoticesTrue, Idle, Events, RowsExist
  <2>3. LedgerTrue'
    BY <1>0, <1>5 DEF CatchFailure, RowLocked, TypeOK, LedgerTrue, NoticesTrue, Events
  <2>4. LedgerMatchesPayments'
    BY <1>0, <1>5 DEF CatchFailure, RowLocked, TypeOK, LedgerMatchesPayments, ClaimsExclusive, RowsExist
  <2> QED BY <2>1, <2>2, <2>3, <2>4
<1>6. ASSUME NEW p \in Payments, YooSettles(p) \/ YooRefunds(p)
      PROVE  LedgerInv'
  <2>1. ClaimsExclusive'
    BY <1>0, <1>6 DEF YooSettles, YooRefunds, Notify, TypeOK, ClaimsExclusive, Idle
  <2>2. NoticesTrue'
    <3>a. yoo[p] \in {"pending", "succeeded"} /\ UNCHANGED <<call, worker>>
      BY <1>6 DEF YooSettles, YooRefunds
    <3>b. call[p] \notin {"none", "calling"}
      BY <3>a DEF NoticesTrue
    <3>c. \E v \in {"succeeded", "canceled", "refunded"} : yoo' = [yoo EXCEPT ![p] = v]
      BY <1>6 DEF YooSettles, YooRefunds
    <3>d. \E e \in Events : notices' = [notices EXCEPT ![<<e, p>>] = "sent"]
      BY <1>6 DEF YooSettles, YooRefunds, Notify, Events
    <3>1. /\ yoo[p] \in {"pending", "succeeded"} /\ call[p] \notin {"none", "calling"}
          /\ \A q \in Payments : q # p => yoo'[q] = yoo[q]
          /\ UNCHANGED <<call, worker>>
      BY <3>a, <3>b, <3>c DEF TypeOK
    <3>2. \A e \in Events, q \in Payments :
             /\ q # p => notices'[<<e, q>>] = notices[<<e, q>>]
             /\ notices[<<e, q>>] # "unsent" => notices'[<<e, q>>] # "unsent"
      BY <3>d DEF TypeOK
    <3>3. /\ notices'[<<"payment.succeeded", p>>] # "unsent" => yoo'[p] \in {"succeeded", "refunded"}
          /\ notices'[<<"refund.succeeded", p>>] # "unsent" => yoo'[p] = "refunded"
      <4>1. CASE yoo[p] = "pending"
        <5>1. /\ notices[<<"payment.succeeded", p>>] = "unsent"
              /\ notices[<<"refund.succeeded", p>>] = "unsent"
          BY <4>1 DEF NoticesTrue
        <5> QED BY <1>6, <4>1, <5>1 DEF YooSettles, YooRefunds, Notify, TypeOK, Events
      <4>2. CASE yoo[p] = "succeeded"
        BY <1>6, <4>2 DEF YooSettles, YooRefunds, Notify, TypeOK, Events
      <4> QED BY <3>1, <4>1, <4>2
    <3>4. "payment.succeeded" \in Events /\ "refund.succeeded" \in Events
      BY DEF Events
    <3> QED BY <1>0, <3>1, <3>2, <3>3, <3>4 DEF NoticesTrue, Idle
  <2>3. LedgerTrue'
    BY <1>0, <1>6 DEF YooSettles, YooRefunds, Notify, TypeOK, LedgerTrue, NoticesTrue, Events
  <2>4. LedgerMatchesPayments'
    BY <1>0, <1>6 DEF YooSettles, YooRefunds, Notify, TypeOK, LedgerMatchesPayments, ClaimsExclusive, RowsExist
  <2> QED BY <2>1, <2>2, <2>3, <2>4
<1>7. ASSUME NEW w \in Workers, NEW event \in Events, NEW p \in Payments, Handle(w, event, p)
      PROVE  LedgerInv'
  <2> DEFINE job == [pc |-> "loaded", event |-> event, payment |-> p]
  <2>a. UNCHANGED worker \/ worker' = [worker EXCEPT ![w] = job]
    BY <1>7 DEF Handle
  <2>b. \A v \in Workers : worker'[v] = worker[v] \/ worker'[v] = job
    BY <2>a DEF TypeOK
  <2>c. notices[<<event, p>>] # "unsent"
    BY <1>7 DEF Handle
  <2>d. UNCHANGED notices \/ Acknowledge(event, p)
    BY <1>7 DEF Handle
  <2>e. \A e \in Events, q \in Payments :
           notices'[<<e, q>>] # "unsent" <=> notices[<<e, q>>] # "unsent"
    BY <2>c, <2>d, AcknowledgeSent
  <2>f. "payment.succeeded" \in Events /\ "refund.succeeded" \in Events
    BY DEF Events
  <2>1. ClaimsExclusive'
    BY <1>7, <2>b DEF Handle, ClaimsExclusive
  <2>2. NoticesTrue'
    BY <1>0, <1>7, <2>b, <2>c, <2>e, <2>f DEF Handle, NoticesTrue, Idle
  <2>3. LedgerTrue'
    BY <1>0, <1>7 DEF Handle, Acknowledge, TypeOK, LedgerTrue, NoticesTrue, Events
  <2>4. LedgerMatchesPayments'
    BY <1>0, <1>7 DEF Handle, Acknowledge, TypeOK, LedgerMatchesPayments, ClaimsExclusive, RowsExist
  <2> QED BY <2>1, <2>2, <2>3, <2>4
<1>8. ASSUME NEW w \in Workers, ActivateClaim(w)
      PROVE  LedgerInv'
  <2> DEFINE p == worker[w].payment
  <2>a. p \in Payments /\ notices[<<"payment.succeeded", p>>] # "unsent"
    BY <1>0, <1>8 DEF ActivateClaim, NoticesTrue, Idle
  <2>b. /\ \A v \in Workers : v # w => worker'[v] = worker[v]
        /\ \/ worker'[w] = Idle
           \/ /\ worker'[w].pc = "claimed" /\ worker'[w].payment = p
              /\ status[p] = "pending" /\ ~RowLocked(p)
    BY <1>8 DEF ActivateClaim, TypeOK
  <2>c. UNCHANGED notices \/ Acknowledge("payment.succeeded", p)
    BY <1>8 DEF ActivateClaim
  <2>d. \A e \in Events, q \in Payments :
           notices'[<<e, q>>] # "unsent" <=> notices[<<e, q>>] # "unsent"
    BY <2>a, <2>c, AcknowledgeSent DEF Events
  <2>e. "payment.succeeded" \in Events /\ "refund.succeeded" \in Events
    BY DEF Events
  <2>f. UNCHANGED <<status, call, yoo>>
    BY <1>8 DEF ActivateClaim
  <2> HIDE DEF p
  <2>1. ClaimsExclusive'
    BY <2>b, <2>f DEF ClaimsExclusive, RowLocked, Idle
  <2>2. NoticesTrue'
    BY <1>0, <2>a, <2>b, <2>d, <2>e, <2>f DEF NoticesTrue, Idle
  <2>3. LedgerTrue'
    BY <1>0, <1>8 DEF ActivateClaim, Acknowledge, RowLocked, TypeOK, LedgerTrue, NoticesTrue, Events
  <2>4. LedgerMatchesPayments'
    BY <1>0, <1>8 DEF ActivateClaim, Acknowledge, RowLocked, TypeOK, LedgerMatchesPayments, ClaimsExclusive, RowsExist
  <2> QED BY <2>1, <2>2, <2>3, <2>4
<1>9. ASSUME NEW w \in Workers, ActivateCommit(w)
      PROVE  LedgerInv'
  <2>1. ClaimsExclusive'
    BY <1>0, <1>9 DEF ActivateCommit, Acknowledge, TypeOK, ClaimsExclusive, Idle
  <2> DEFINE p == worker[w].payment
  <2>a. p \in Payments /\ notices[<<"payment.succeeded", p>>] # "unsent"
    <3>1. worker[w].pc = "claimed"
      BY <1>9 DEF ActivateCommit
    <3>2. notices[<<"payment.succeeded", p>>] # "unsent"
      BY <3>1 DEF NoticesTrue
    <3> QED BY <1>0, <3>1, <3>2 DEF Idle
  <2>b. "payment.succeeded" \in Events /\ "refund.succeeded" \in Events
    BY DEF Events
  <2>c. \A e \in Events, q \in Payments :
           notices'[<<e, q>>] # "unsent" <=> notices[<<e, q>>] # "unsent"
    BY <1>9, <2>a, <2>b, AcknowledgeSent DEF ActivateCommit
  <2>d. /\ worker' = [worker EXCEPT ![w] = Idle]
        /\ UNCHANGED <<call, yoo, refunds>>
        /\ credits' = [credits EXCEPT ![p] = @ + 1]
    BY <1>9 DEF ActivateCommit
  <2>2. NoticesTrue'
    BY <1>0, <2>b, <2>c, <2>d DEF NoticesTrue, Idle, TypeOK
  <2>3. LedgerTrue'
    BY <2>a, <2>d DEF LedgerTrue, NoticesTrue, TypeOK
  <2>4. LedgerMatchesPayments'
    BY <1>0, <1>9 DEF ActivateCommit, Acknowledge, TypeOK, LedgerMatchesPayments, ClaimsExclusive, RowsExist
  <2> QED BY <2>1, <2>2, <2>3, <2>4
<1>10. ASSUME NEW w \in Workers, CancelPayment(w)
      PROVE  LedgerInv'
  <2>1. ClaimsExclusive'
    BY <1>0, <1>10 DEF CancelPayment, Acknowledge, RowLocked, TypeOK, ClaimsExclusive, Idle
  <2>2. NoticesTrue'
    BY <1>0, <1>10 DEF CancelPayment, Acknowledge, RowLocked, TypeOK, NoticesTrue, Idle, Events, RowsExist
  <2>3. LedgerTrue'
    BY <1>0, <1>10 DEF CancelPayment, Acknowledge, RowLocked, TypeOK, LedgerTrue, NoticesTrue, Events
  <2>4. LedgerMatchesPayments'
    BY <1>0, <1>10 DEF CancelPayment, Acknowledge, RowLocked, TypeOK, LedgerMatchesPayments, ClaimsExclusive, RowsExist
  <2> QED BY <2>1, <2>2, <2>3, <2>4
<1>11. ASSUME NEW w \in Workers, RefundPayment(w)
      PROVE  LedgerInv'
  <2>1. ClaimsExclusive'
    BY <1>0, <1>11 DEF RefundPayment, Acknowledge, RowLocked, TypeOK, ClaimsExclusive, Idle
  <2>2. NoticesTrue'
    BY <1>0, <1>11 DEF RefundPayment, Acknowledge, RowLocked, TypeOK, NoticesTrue, Idle, Events, RowsExist
  <2>3. LedgerTrue'
    <3>1. /\ worker[w].payment \in Payments
          /\ notices[<<"refund.succeeded", worker[w].payment>>] # "unsent"
      <4>1. worker[w].pc = "loaded" /\ worker[w].event = "refund.succeeded"
        BY <1>11 DEF RefundPayment
      <4>2. notices[<<worker[w].event, worker[w].payment>>] # "unsent"
        BY <4>1 DEF NoticesTrue
      <4> QED BY <1>0, <4>1, <4>2 DEF Idle
    <3>2. /\ UNCHANGED <<yoo, credits>>
          /\ UNCHANGED refunds \/ refunds' = [refunds EXCEPT ![worker[w].payment] = @ + 1]
      BY <1>11 DEF RefundPayment
    <3>3. yoo[worker[w].payment] = "refunded"
      BY <3>1 DEF NoticesTrue
    <3>4. \A q \in Payments : q # worker[w].payment => refunds'[q] = refunds[q]
      BY <3>2 DEF TypeOK
    <3> QED BY <3>1, <3>2, <3>3, <3>4 DEF LedgerTrue
  <2>4. LedgerMatchesPayments'
    BY <1>0, <1>11 DEF RefundPayment, Acknowledge, RowLocked, TypeOK, LedgerMatchesPayments, ClaimsExclusive, RowsExist
  <2> QED BY <2>1, <2>2, <2>3, <2>4
<1>12. ASSUME NEW w \in Workers, HandlerFails(w)
      PROVE  LedgerInv'
  <2>1. ClaimsExclusive'
    BY <1>0, <1>12 DEF HandlerFails, TypeOK, ClaimsExclusive, Idle
  <2>2. NoticesTrue'
    BY <1>0, <1>12 DEF HandlerFails, TypeOK, NoticesTrue, Idle, Events, RowsExist
  <2>3. LedgerTrue'
    BY <1>0, <1>12 DEF HandlerFails, TypeOK, LedgerTrue, NoticesTrue, Events
  <2>4. LedgerMatchesPayments'
    BY <1>0, <1>12 DEF HandlerFails, TypeOK, LedgerMatchesPayments, ClaimsExclusive, RowsExist
  <2> QED BY <2>1, <2>2, <2>3, <2>4
<1>13. CASE Crash
  <2>1. ClaimsExclusive'
    BY <1>0, <1>13 DEF Crash, TypeOK, ClaimsExclusive, Idle
  <2>2. NoticesTrue'
    BY <1>0, <1>13 DEF Crash, TypeOK, NoticesTrue, Idle, Events, RowsExist
  <2>3. LedgerTrue'
    BY <1>0, <1>13 DEF Crash, TypeOK, LedgerTrue, NoticesTrue, Events
  <2>4. LedgerMatchesPayments'
    BY <1>0, <1>13 DEF Crash, TypeOK, LedgerMatchesPayments, ClaimsExclusive, RowsExist
  <2> QED BY <2>1, <2>2, <2>3, <2>4
<1>14. CASE UNCHANGED <<status, call, yoo, notices, worker, credits, refunds>>
  BY <1>14 DEF ClaimsExclusive, NoticesTrue, LedgerTrue, LedgerMatchesPayments
<1>15. RenewScan \/ ExpireScan \/ Tick
         => UNCHANGED <<status, call, yoo, notices, worker, credits, refunds>>
  BY DEF RenewScan, ExpireScan, Tick
<1>16. ASSUME NEW item \in expiring, ExpireTrial(item)
       PROVE  UNCHANGED <<status, call, yoo, notices, worker, credits, refunds>>
  BY <1>16 DEF ExpireTrial
<1>17. ASSUME NEW t \in Tenants, BlockTenant(t) \/ UnblockTenant(t)
       PROVE  UNCHANGED <<status, call, yoo, notices, worker, credits, refunds>>
  BY <1>17 DEF BlockTenant, UnblockTenant
<1>18. ASSUME NEW t \in Tenants, NEW f \in Tariffs, ChangeTariff(t, f)
       PROVE  UNCHANGED <<status, call, yoo, notices, worker, credits, refunds>>
  BY <1>18 DEF ChangeTariff
<1>19. CASE UNCHANGED vars
  BY <1>14, <1>19 DEF vars
<1> HIDE DEF TypeInv, LedgerInv
<1> QED
  BY <1>1, <1>2, <1>3, <1>4, <1>5, <1>6, <1>7, <1>8, <1>9, <1>10, <1>11, <1>12, <1>13,
     <1>14, <1>15, <1>16, <1>17, <1>18, <1>19 DEF Next, Webhook

\* No sequence of notices, deliveries, retries and faults credits or refunds a
\* payment twice, or leaves a row that says otherwise than the ledger.
THEOREM LedgerCorrect == Spec => []LedgerMatchesPayments
<1>1. Spec => [](TypeInv /\ LedgerInv)
  BY InitTypeInv, StepTypeInv, InitLedgerInv, StepLedgerInv, PTL DEF Spec
<1> QED BY <1>1, PTL DEF LedgerInv

-----------------------------------------------------------------------------
(* Billing implements PaymentLedger *)

LEMMA InitLedger == Init => Ledger!Init
  BY DEF Init, Ledger!Init

LEMMA StepLedger == TypeInv /\ LedgerInv /\ [Next]_vars => [Ledger!Next]_(Ledger!vars)
<1> SUFFICES ASSUME TypeInv, LedgerInv, [Next]_vars PROVE [Ledger!Next]_(Ledger!vars)
  OBVIOUS
<1> USE DEF TypeInv, LedgerInv
<1> DEFINE charged  == {q \in Payments : yoo[q] \in {"succeeded", "refunded"}}
           returned == {q \in Payments : yoo[q] = "refunded"}
<1>1. CASE UNCHANGED <<yoo, credits, refunds>>
  BY <1>1 DEF Ledger!vars
<1>2. ASSUME NEW p \in Payments, CallYooKassa(p)
      PROVE  UNCHANGED <<charged, returned, credits, refunds>>
  <2>1. yoo[p] = "none" /\ UNCHANGED <<credits, refunds>>
    BY <1>2 DEF CallYooKassa, NoticesTrue, ledgerVars
  <2>2. UNCHANGED yoo \/ yoo' = [yoo EXCEPT ![p] = "pending"]
    BY <1>2 DEF CallYooKassa
  <2> QED BY <2>1, <2>2 DEF TypeOK
<1>3. ASSUME NEW p \in Payments, YooSettles(p)
      PROVE  \/ Ledger!Charge(p)
             \/ UNCHANGED <<charged, returned, credits, refunds>>
  <2>1. yoo[p] = "pending" /\ UNCHANGED <<credits, refunds>>
    BY <1>3 DEF YooSettles, ledgerVars
  <2>2. CASE yoo' = [yoo EXCEPT ![p] = "succeeded"]
    BY <2>1, <2>2 DEF Ledger!Charge, TypeOK
  <2>3. CASE yoo' = [yoo EXCEPT ![p] = "canceled"]
    BY <2>1, <2>3 DEF TypeOK
  <2> QED BY <1>3, <2>2, <2>3 DEF YooSettles
<1>4. ASSUME NEW p \in Payments, YooRefunds(p)
      PROVE  Ledger!Return(p)
  BY <1>4 DEF YooRefunds, ledgerVars, Ledger!Return, TypeOK
<1>5. ASSUME NEW w \in Workers, ActivateCommit(w)
      PROVE  Ledger!Credit(worker[w].payment) /\ worker[w].payment \in Payments
  <2> DEFINE p == worker[w].payment
  <2>1. worker[w].pc = "claimed" /\ credits' = [credits EXCEPT ![p] = @ + 1]
        /\ UNCHANGED <<yoo, refunds>>
    BY <1>5 DEF ActivateCommit
  <2>2. p \in Payments
    BY <2>1, WorkerShapes DEF Idle
  <2>3. status[p] = "pending" /\ yoo[p] \in {"succeeded", "refunded"}
    BY <2>1, <2>2 DEF ClaimsExclusive, NoticesTrue
  <2>4. credits[p] = 0
    BY <2>2, <2>3 DEF LedgerMatchesPayments
  <2>5. credits' = [credits EXCEPT ![p] = 1]
    BY <2>1, <2>4
  <2> QED BY <2>1, <2>2, <2>3, <2>4, <2>5 DEF Ledger!Credit
<1>6. ASSUME NEW w \in Workers, RefundPayment(w)
      PROVE  \/ Ledger!Refund(worker[w].payment) /\ worker[w].payment \in Payments
             \/ UNCHANGED <<yoo, credits, refunds>>
  <2> DEFINE p == worker[w].payment
  <2>1. /\ worker[w].pc = "loaded" /\ worker[w].event = "refund.succeeded"
        /\ UNCHANGED <<yoo, credits>>
        /\ \/ UNCHANGED refunds
           \/ status[p] \in {"pending", "succeeded"} /\ refunds' = [refunds EXCEPT ![p] = @ + 1]
    BY <1>6 DEF RefundPayment
  <2>2. p \in Payments
    BY <2>1, WorkerShapes DEF Idle
  <2>3. notices[<<worker[w].event, p>>] # "unsent"
    BY <2>1 DEF NoticesTrue
  <2>4. yoo[p] = "refunded"
    BY <2>1, <2>2, <2>3 DEF NoticesTrue
  <2>5. status[p] \in {"pending", "succeeded"} => refunds[p] = 0
    BY <2>2 DEF LedgerMatchesPayments
  <2> QED BY <2>1, <2>2, <2>4, <2>5 DEF Ledger!Refund
<1>7. ASSUME NEW p \in Payments, NEW t \in Tenants, NEW f \in Tariffs, Checkout(p, t, f)
      PROVE  UNCHANGED <<yoo, credits, refunds>>
  BY <1>7 DEF Checkout, yooVars, ledgerVars
<1>8. ASSUME NEW item \in renewing, RenewSubscription(item)
      PROVE  UNCHANGED <<yoo, credits, refunds>>
  BY <1>8 DEF RenewSubscription, yooVars, ledgerVars
<1>9. ASSUME NEW p \in Payments, StoreYooId(p) \/ CatchFailure(p)
      PROVE  UNCHANGED <<yoo, credits, refunds>>
  BY <1>9 DEF StoreYooId, CatchFailure, yooVars, ledgerVars
<1>10. ASSUME NEW w \in Workers, NEW event \in Events, NEW p \in Payments, Handle(w, event, p)
       PROVE  UNCHANGED <<yoo, credits, refunds>>
  BY <1>10 DEF Handle, ledgerVars
<1>11. ASSUME NEW w \in Workers, ActivateClaim(w) \/ CancelPayment(w) \/ HandlerFails(w)
       PROVE  UNCHANGED <<yoo, credits, refunds>>
  BY <1>11 DEF ActivateClaim, CancelPayment, HandlerFails, yooVars, ledgerVars
<1>12. RenewScan \/ ExpireScan \/ Crash \/ Tick => UNCHANGED <<yoo, credits, refunds>>
  BY DEF RenewScan, ExpireScan, Crash, Tick, yooVars, ledgerVars
<1>13. ASSUME NEW item \in expiring, ExpireTrial(item)
       PROVE  UNCHANGED <<yoo, credits, refunds>>
  BY <1>13 DEF ExpireTrial, yooVars, ledgerVars
<1>14. ASSUME NEW t \in Tenants, BlockTenant(t) \/ UnblockTenant(t)
       PROVE  UNCHANGED <<yoo, credits, refunds>>
  BY <1>14 DEF BlockTenant, UnblockTenant, yooVars, ledgerVars
<1>15. ASSUME NEW t \in Tenants, NEW f \in Tariffs, ChangeTariff(t, f)
       PROVE  UNCHANGED <<yoo, credits, refunds>>
  BY <1>15 DEF ChangeTariff, yooVars, ledgerVars
<1>16. CASE UNCHANGED vars
  BY <1>1, <1>16 DEF vars
<1>17. CASE UNCHANGED <<charged, returned, credits, refunds>>
  BY <1>17 DEF Ledger!vars
<1>18. CASE \E p \in Payments : Ledger!Charge(p) \/ Ledger!Return(p) \/ Ledger!Credit(p) \/ Ledger!Refund(p)
  BY <1>18 DEF Ledger!Next
<1> HIDE DEF TypeInv, LedgerInv, charged, returned
<1> QED
  BY <1>1, <1>2, <1>3, <1>4, <1>5, <1>6, <1>7, <1>8, <1>9, <1>10, <1>11, <1>12, <1>13,
     <1>14, <1>15, <1>16, <1>17, <1>18 DEF Next, Webhook

\* Everything billing does to the ledger is a step PaymentLedger allows: a
\* charge and a refund are entered once at most, and only after YooKassa made them.
THEOREM BillingImplementsLedger == Spec => ImplementsLedger
<1>1. Spec => [](TypeInv /\ LedgerInv)
  BY InitTypeInv, StepTypeInv, InitLedgerInv, StepLedgerInv, PTL DEF Spec
<1> QED BY <1>1, InitLedger, StepLedger, PTL DEF Spec, ImplementsLedger, Ledger!Spec
-----------------------------------------------------------------------------
(* Subscriptions and renewals, on top of the types and the ledger *)

\* An activation keeps every row's status and adds at most one row, at the end
\* of the paying tenant's.
LEMMA CommitRows ==
    ASSUME TypeInv, NEW w \in Workers, ActivateCommit(w)
    PROVE  /\ info[worker[w].payment].tenant \in Tenants
           /\ \A u \in Tenants : u # info[worker[w].payment].tenant => subs'[u] = subs[u]
           /\ LET t == info[worker[w].payment].tenant
              IN  /\ \A j \in DOMAIN subs[t] : /\ j \in DOMAIN subs'[t]
                                               /\ subs'[t][j].status = subs[t][j].status
                  /\ DOMAIN subs'[t] \subseteq DOMAIN subs[t] \cup {Len(subs[t]) + 1}
<1> DEFINE p == worker[w].payment
           t == info[p].tenant
           f == info[p].tariff
           i == worker[w].slot
           renewed == [status |-> "active", tariff |-> f, end |-> worker[w].end, method |-> TRUE]
<1>1. worker[w] \in Claimed /\ status[p] # "none" /\ p \in Payments
  BY DEF TypeInv, ActivateCommit, TypeOK, RowsExist, Idle, Loaded, Claimed
<1>2. t \in Tenants /\ f \in Tariffs /\ (i # 0 => i \in DOMAIN subs[t])
  BY <1>1 DEF TypeInv, ActivateCommit, RowsExist, TypeOK, PaymentInfo
<1>3. renewed \in Subscription /\ subs[t] \in Seq(Subscription)
  BY <1>1, <1>2 DEF TypeInv, TypeOK, Claimed, Subscription
<1>4. \A u \in Tenants : u # t => subs'[u] = subs[u]
  BY DEF TypeInv, ActivateCommit, TypeOK
<1>5. CASE i = 0
  <2>1. subs'[t] = Append(subs[t], renewed)
    BY <1>2, <1>5 DEF TypeInv, ActivateCommit, TypeOK
  <2> HIDE DEF t, renewed
  <2>2. /\ subs[t] \in Seq(Subscription) /\ subs'[t] \in Seq(Subscription)
        /\ Len(subs[t]) \in Nat /\ Len(subs'[t]) = Len(subs[t]) + 1
        /\ \A j \in 1..Len(subs[t]) : subs'[t][j] = subs[t][j]
    BY <1>3, <2>1, AppendProperties, LenProperties
  <2>3. DOMAIN subs[t] = 1..Len(subs[t]) /\ DOMAIN subs'[t] = 1..(Len(subs[t]) + 1)
    BY <2>2, LenProperties
  <2>4. /\ \A j \in DOMAIN subs[t] : j \in DOMAIN subs'[t] /\ subs'[t][j].status = subs[t][j].status
        /\ DOMAIN subs'[t] \subseteq DOMAIN subs[t] \cup {Len(subs[t]) + 1}
    BY <2>2, <2>3
  <2> QED BY <1>2, <1>4, <2>4 DEF t
<1>6. CASE i # 0
  <2> DEFINE kept == [renewed EXCEPT !.status = subs[t][i].status]
  <2>1. subs[t][i] \in Subscription
    BY <1>2, <1>3, <1>6, LenProperties, ElementOfSeq
  <2>2. kept \in Subscription /\ kept.status = subs[t][i].status
    BY <1>3, <2>1 DEF Subscription
  <2>3. subs'[t] = [subs[t] EXCEPT ![i] = kept]
    BY <1>2, <1>6 DEF TypeInv, ActivateCommit, TypeOK
  <2> HIDE DEF kept, t, i
  <2>4. DOMAIN subs'[t] = DOMAIN subs[t]
    BY <1>3, <2>2, <2>3, SeqUpdate
  <2>5. \A j \in DOMAIN subs[t] : subs'[t][j] = IF j = i THEN kept ELSE subs[t][j]
    BY <2>3
  <2>6. /\ \A j \in DOMAIN subs[t] : j \in DOMAIN subs'[t] /\ subs'[t][j].status = subs[t][j].status
        /\ DOMAIN subs'[t] \subseteq DOMAIN subs[t] \cup {Len(subs[t]) + 1}
    BY <2>2, <2>4, <2>5
  <2> QED BY <1>2, <1>4, <2>6 DEF t
<1> QED BY <1>5, <1>6

-----------------------------------------------------------------------------
(* What was paid for stays *)

\* What expireTrials is about to cancel was a trial when it was read, and a row
\* never becomes active later.
CancelsTrials ==
    \A item \in expiring :
        item.slot # 0 => subs[item.tenant][item.slot].status # "active"

\* Expiry cancels at most the row it read.
LEMMA ExpireRows ==
    ASSUME TypeInv, NEW item \in expiring, ExpireTrial(item)
    PROVE  \A u \in Tenants :
             /\ DOMAIN subs'[u] = DOMAIN subs[u]
             /\ \A j \in DOMAIN subs[u] :
                  /\ subs'[u][j].status \in {subs[u][j].status, "canceled"}
                  /\ subs'[u][j].status # subs[u][j].status
                       => u = item.tenant /\ j = item.slot /\ item.slot # 0
<1> DEFINE t == item.tenant
           i == item.slot
<1>1. t \in Tenants /\ i \in Nat /\ (i # 0 => i \in DOMAIN subs[t])
  BY DEF TypeInv, TypeOK, RowsExist
<1>2. CASE i = 0
  BY <1>2 DEF ExpireTrial
<1>3. CASE i # 0
  <2> DEFINE gone == [subs[t][i] EXCEPT !.status = "canceled"]
  <2>1. subs[t] \in Seq(Subscription) /\ subs[t][i] \in Subscription
    BY <1>1, <1>3, LenProperties, ElementOfSeq DEF TypeInv, TypeOK
  <2>2. gone \in Subscription /\ gone.status = "canceled"
    BY <2>1 DEF Subscription
  <2>3. subs' = [subs EXCEPT ![t] = [subs[t] EXCEPT ![i] = gone]]
    BY <1>1, <1>3 DEF ExpireTrial, TypeInv, TypeOK
  <2> HIDE DEF gone
  <2>4. \A u \in Tenants : subs'[u] = IF u = t THEN [subs[t] EXCEPT ![i] = gone] ELSE subs[u]
    BY <1>1, <2>3 DEF TypeInv, TypeOK
  <2>5. DOMAIN [subs[t] EXCEPT ![i] = gone] = DOMAIN subs[t]
    BY <2>1, <2>2, SeqUpdate
  <2>6. \A j \in DOMAIN subs[t] :
           [subs[t] EXCEPT ![i] = gone][j] = IF j = i THEN gone ELSE subs[t][j]
    OBVIOUS
  <2> QED BY <1>1, <1>3, <2>2, <2>4, <2>5, <2>6
<1> QED BY <1>2, <1>3

\* No other step writes a subscription.
LEMMA OtherRows ==
    ASSUME [Next]_vars
    PROVE  \/ \E w \in Workers : ActivateCommit(w)
           \/ \E item \in expiring : ExpireTrial(item)
           \/ UNCHANGED subs
<1>1. ASSUME NEW p \in Payments, NEW t \in Tenants, NEW f \in Tariffs, Checkout(p, t, f)
      PROVE  UNCHANGED subs
  BY <1>1 DEF Checkout
<1>2. ASSUME NEW item \in renewing, RenewSubscription(item) PROVE UNCHANGED subs
  BY <1>2 DEF RenewSubscription
<1>3. ASSUME NEW p \in Payments,
             CallYooKassa(p) \/ StoreYooId(p) \/ CatchFailure(p) \/ YooSettles(p) \/ YooRefunds(p)
      PROVE  UNCHANGED subs
  BY <1>3 DEF CallYooKassa, StoreYooId, CatchFailure, YooSettles, YooRefunds
<1>4. ASSUME NEW w \in Workers, Webhook(w) PROVE ActivateCommit(w) \/ UNCHANGED subs
  BY <1>4 DEF Webhook, Handle, ActivateClaim, CancelPayment, RefundPayment, HandlerFails
<1>5. ASSUME NEW t \in Tenants, BlockTenant(t) \/ UnblockTenant(t) \/ \E f \in Tariffs : ChangeTariff(t, f)
      PROVE  UNCHANGED subs
  BY <1>5 DEF BlockTenant, UnblockTenant, ChangeTariff
<1>6. RenewScan \/ ExpireScan \/ Crash \/ Tick \/ UNCHANGED vars => UNCHANGED subs
  BY DEF RenewScan, ExpireScan, Crash, Tick, vars
<1> QED BY <1>1, <1>2, <1>3, <1>4, <1>5, <1>6 DEF Next

LEMMA OtherExpiring ==
    ASSUME [Next]_vars
    PROVE  ExpireScan \/ expiring' \subseteq expiring
<1> USE DEF cronVars
<1>1. ASSUME NEW p \in Payments, NEW t \in Tenants, NEW f \in Tariffs, Checkout(p, t, f)
      PROVE  UNCHANGED expiring
  BY <1>1 DEF Checkout
<1>2. ASSUME NEW item \in renewing, RenewSubscription(item) PROVE UNCHANGED expiring
  BY <1>2 DEF RenewSubscription
<1>3. ASSUME NEW p \in Payments,
             CallYooKassa(p) \/ StoreYooId(p) \/ CatchFailure(p) \/ YooSettles(p) \/ YooRefunds(p)
      PROVE  UNCHANGED expiring
  BY <1>3 DEF CallYooKassa, StoreYooId, CatchFailure, YooSettles, YooRefunds
<1>4. ASSUME NEW w \in Workers, Webhook(w) PROVE UNCHANGED expiring
  BY <1>4 DEF Webhook, Handle, ActivateClaim, ActivateCommit, CancelPayment, RefundPayment, HandlerFails
<1>5. ASSUME NEW t \in Tenants, BlockTenant(t) \/ UnblockTenant(t) \/ \E f \in Tariffs : ChangeTariff(t, f)
      PROVE  UNCHANGED expiring
  BY <1>5 DEF BlockTenant, UnblockTenant, ChangeTariff
<1>6. ASSUME NEW item \in expiring, ExpireTrial(item) PROVE expiring' \subseteq expiring
  BY <1>6 DEF ExpireTrial
<1>7. RenewScan \/ Crash \/ Tick \/ UNCHANGED vars => expiring' \subseteq expiring
  BY DEF RenewScan, Crash, Tick, vars
<1> QED BY <1>1, <1>2, <1>3, <1>4, <1>5, <1>6, <1>7 DEF Next

\* No row becomes active.
LEMMA RowsNeverActivated ==
    ASSUME TypeInv, [Next]_vars
    PROVE  \A u \in Tenants : \A j \in DOMAIN subs[u] :
             /\ j \in DOMAIN subs'[u]
             /\ subs'[u][j].status = "active" => subs[u][j].status = "active"
<1>1. ASSUME NEW w \in Workers, ActivateCommit(w)
      PROVE  \A u \in Tenants : \A j \in DOMAIN subs[u] :
               j \in DOMAIN subs'[u] /\ subs'[u][j].status = subs[u][j].status
  BY <1>1, CommitRows
<1>2. ASSUME NEW item \in expiring, ExpireTrial(item)
      PROVE  \A u \in Tenants : \A j \in DOMAIN subs[u] :
               /\ j \in DOMAIN subs'[u]
               /\ subs'[u][j].status \in {subs[u][j].status, "canceled"}
  BY <1>2, ExpireRows
<1> QED BY <1>1, <1>2, OtherRows

LEMMA StepCancelsTrials == TypeInv /\ CancelsTrials /\ [Next]_vars => CancelsTrials'
<1> SUFFICES ASSUME TypeInv, CancelsTrials, [Next]_vars,
                    NEW item \in expiring', item.slot # 0
             PROVE  subs'[item.tenant][item.slot].status # "active"
  BY DEF CancelsTrials
<1>1. CASE item \in expiring
  <2>1. item.tenant \in Tenants /\ item.slot \in DOMAIN subs[item.tenant]
    BY <1>1 DEF TypeInv, TypeOK, RowsExist
  <2> QED BY <1>1, <2>1, RowsNeverActivated DEF CancelsTrials
<1>2. CASE item \notin expiring
  <2>1. ExpireScan
    BY <1>2, OtherExpiring
  <2>2. PICK t \in ExpiredTrials : item \in {[tenant |-> t, slot |-> i] :
                                     i \in IF TrialSlot(t) = {} THEN {0} ELSE TrialSlot(t)}
    BY <2>1 DEF ExpireScan
  <2>3. item.tenant = t /\ item.slot \in TrialSlot(t)
    BY <2>2
  <2> QED BY <2>1, <2>3 DEF ExpireScan, TrialSlot
<1> QED BY <1>1, <1>2

\* Expiry never takes a paid subscription away, however long the list it read
\* has waited and whatever was paid meanwhile.
THEOREM PaidStays == Spec => ActiveSubscriptionStays
<1>1. Init => CancelsTrials
  BY DEF Init, CancelsTrials
<1>2. Spec => [](TypeInv /\ CancelsTrials)
  BY <1>1, InitTypeInv, StepTypeInv, StepCancelsTrials, PTL DEF Spec
<1>3. ASSUME TypeInv, CancelsTrials, [Next]_vars
      PROVE  [\A t \in Tenants : \A i \in ActiveSubs(t) : i \in ActiveSubs(t)']_subs
  <2> SUFFICES ASSUME NEW t \in Tenants, NEW i \in ActiveSubs(t)
               PROVE  i \in DOMAIN subs'[t] /\ subs'[t][i].status = "active"
    BY DEF ActiveSubs
  <2>0. i \in DOMAIN subs[t] /\ subs[t][i].status = "active"
    BY DEF ActiveSubs
  <2>1. ASSUME NEW w \in Workers, ActivateCommit(w)
        PROVE  i \in DOMAIN subs'[t] /\ subs'[t][i].status = "active"
    <3>1. \/ subs'[t] = subs[t]
          \/ i \in DOMAIN subs'[t] /\ subs'[t][i].status = subs[t][i].status
      BY <2>0, <2>1, <1>3, CommitRows
    <3> QED BY <2>0, <3>1
  <2>2. ASSUME NEW item \in expiring, ExpireTrial(item)
        PROVE  i \in DOMAIN subs'[t] /\ subs'[t][i].status = "active"
    BY <2>0, <2>2, ExpireRows, <1>3 DEF CancelsTrials
  <2> QED BY <2>0, <2>1, <2>2, <1>3, OtherRows
<1> QED BY <1>2, <1>3, PTL DEF Spec, ActiveSubscriptionStays

-----------------------------------------------------------------------------
(* Subscriptions and money *)

Credited(t) == {p \in Payments : info[p] # NoInfo /\ info[p].tenant = t /\ credits[p] = 1}

\* Each active subscription of a tenant was created by a credited payment.
Backed ==
    \A t \in Tenants :
        /\ IsFiniteSet(ActiveSubs(t)) /\ IsFiniteSet(Credited(t))
        /\ Cardinality(ActiveSubs(t)) <= Cardinality(Credited(t))

LEMMA InitBacked == Init => Backed
<1> SUFFICES ASSUME Init, NEW t \in Tenants
             PROVE  ActiveSubs(t) = {} /\ Credited(t) = {}
  BY FS_EmptySet DEF Backed
<1>1. subs[t] = <<[status |-> "trialing", tariff |-> DefaultTariff,
                   end |-> TrialEnd, method |-> FALSE]>>
  BY DEF Init
<1>2. ActiveSubs(t) = {}
  BY <1>1 DEF ActiveSubs
<1>3. Credited(t) = {}
  BY DEF Init, Credited
<1> QED BY <1>2, <1>3

\* A payment is given its tenant before anything is credited for it.
LEMMA OtherCredits ==
    ASSUME TypeInv, LedgerInv, [Next]_vars, NEW t \in Tenants
    PROVE  (\E w \in Workers : ActivateCommit(w)) \/ Credited(t)' = Credited(t)
<1> USE DEF paymentVars, ledgerVars
<1>1. ASSUME NEW p \in Payments, NEW u, NEW f, NEW r, CreatePayment(p, u, f, r),
             UNCHANGED credits
      PROVE  Credited(t)' = Credited(t)
  <2>1. credits[p] = 0
    BY <1>1 DEF CreatePayment, LedgerInv, LedgerMatchesPayments
  <2>2. \A q \in Payments : q # p => info'[q] = info[q]
    BY <1>1 DEF CreatePayment, TypeInv, TypeOK
  <2> QED BY <1>1, <2>1, <2>2 DEF Credited
<1>2. CASE UNCHANGED <<info, credits>>
  BY <1>2 DEF Credited
<1>3. \/ \E w \in Workers : ActivateCommit(w)
      \/ \E p \in Payments, u \in Tenants, f \in Tariffs, r \in BOOLEAN :
            CreatePayment(p, u, f, r) /\ UNCHANGED credits
      \/ UNCHANGED <<info, credits>>
  <2>1. ASSUME NEW p \in Payments, NEW u \in Tenants, NEW f \in Tariffs, Checkout(p, u, f)
        PROVE  CreatePayment(p, u, f, FALSE) /\ UNCHANGED credits
    BY <2>1 DEF Checkout
  <2>2. ASSUME NEW item \in renewing, RenewSubscription(item)
        PROVE  \/ UNCHANGED <<info, credits>>
               \/ \E p \in Payments : /\ CreatePayment(p, item.tenant, item.tariff, TRUE)
                                      /\ UNCHANGED credits
    BY <2>2 DEF RenewSubscription
  <2>3. \A item \in renewing : item.tenant \in Tenants /\ item.tariff \in Tariffs
    BY DEF TypeInv, TypeOK
  <2>4. \/ \E w \in Workers : ActivateCommit(w)
        \/ \E p \in Payments, u \in Tenants, f \in Tariffs : Checkout(p, u, f)
        \/ \E item \in renewing : RenewSubscription(item)
        \/ UNCHANGED <<info, credits>>
    <3>1. ASSUME NEW p \in Payments,
                 CallYooKassa(p) \/ StoreYooId(p) \/ CatchFailure(p) \/ YooSettles(p) \/ YooRefunds(p)
          PROVE  UNCHANGED <<info, credits>>
      BY <3>1 DEF CallYooKassa, StoreYooId, CatchFailure, YooSettles, YooRefunds
    <3>2. ASSUME NEW w \in Workers, Webhook(w)
          PROVE  ActivateCommit(w) \/ UNCHANGED <<info, credits>>
      BY <3>2 DEF Webhook, Handle, ActivateClaim, CancelPayment, RefundPayment, HandlerFails
    <3>3. ASSUME NEW u \in Tenants, BlockTenant(u) \/ UnblockTenant(u) \/ \E f \in Tariffs : ChangeTariff(u, f)
          PROVE  UNCHANGED <<info, credits>>
      BY <3>3 DEF BlockTenant, UnblockTenant, ChangeTariff
    <3>4. ASSUME NEW item \in expiring, ExpireTrial(item) PROVE UNCHANGED <<info, credits>>
      BY <3>4 DEF ExpireTrial
    <3>5. RenewScan \/ ExpireScan \/ Crash \/ Tick \/ UNCHANGED vars => UNCHANGED <<info, credits>>
      BY DEF RenewScan, ExpireScan, Crash, Tick, vars
    <3> QED BY <3>1, <3>2, <3>3, <3>4, <3>5 DEF Next
  <2> QED BY <2>1, <2>2, <2>3, <2>4
<1> QED BY <1>1, <1>2, <1>3

LEMMA StepBacked == TypeInv /\ LedgerInv /\ Backed /\ [Next]_vars => Backed'
<1> SUFFICES ASSUME TypeInv, LedgerInv, Backed, [Next]_vars, NEW t \in Tenants
             PROVE  /\ IsFiniteSet(ActiveSubs(t)') /\ IsFiniteSet(Credited(t)')
                    /\ Cardinality(ActiveSubs(t)') <= Cardinality(Credited(t)')
  BY DEF Backed
<1>0. /\ IsFiniteSet(ActiveSubs(t)) /\ IsFiniteSet(Credited(t))
      /\ Cardinality(ActiveSubs(t)) <= Cardinality(Credited(t))
      /\ Cardinality(ActiveSubs(t)) \in Nat /\ Cardinality(Credited(t)) \in Nat
  BY FS_CardinalityType DEF Backed
<1>1. CASE ActiveSubs(t)' \subseteq ActiveSubs(t) /\ Credited(t)' = Credited(t)
  <2>1. /\ IsFiniteSet(ActiveSubs(t)')
        /\ Cardinality(ActiveSubs(t)') <= Cardinality(ActiveSubs(t))
        /\ Cardinality(ActiveSubs(t)') \in Nat
    BY <1>0, <1>1, FS_Subset, FS_CardinalityType
  <2> QED BY <1>0, <1>1, <2>1
<1>2. ASSUME NEW w \in Workers, ActivateCommit(w)
      PROVE  /\ IsFiniteSet(ActiveSubs(t)') /\ IsFiniteSet(Credited(t)')
             /\ Cardinality(ActiveSubs(t)') <= Cardinality(Credited(t)')
  <2> DEFINE p == worker[w].payment
  <2>1. /\ worker[w].pc = "claimed" /\ credits' = [credits EXCEPT ![p] = @ + 1]
        /\ UNCHANGED info
    BY <1>2 DEF ActivateCommit
  <2>2. p \in Payments /\ status[p] = "pending"
    BY <2>1, WorkerShapes DEF Idle, TypeInv, LedgerInv, ClaimsExclusive
  <2>3. credits[p] = 0 /\ info[p] \in PaymentInfo
    BY <2>2 DEF TypeInv, TypeOK, LedgerInv, LedgerMatchesPayments
  <2>4. info[p] # NoInfo
    BY <2>3 DEF PaymentInfo, NoInfo
  <2>5. CASE info[p].tenant # t
    <3>1. subs'[t] = subs[t]
      BY <1>2, <2>5, CommitRows
    <3>2. Credited(t)' = Credited(t)
      BY <2>1, <2>5 DEF Credited, TypeInv, TypeOK
    <3> QED BY <1>1, <3>1, <3>2 DEF ActiveSubs
  <2>6. CASE info[p].tenant = t
    <3> DEFINE added == Len(subs[t]) + 1
    <3>1. Credited(t)' = Credited(t) \cup {p}
      <4>1. \A q \in Payments : credits'[q] = IF q = p THEN 1 ELSE credits[q]
        BY <2>1, <2>2, <2>3 DEF TypeInv, TypeOK
      <4> QED BY <2>1, <2>2, <2>4, <2>6, <4>1 DEF Credited
    <3>2. p \notin Credited(t)
      BY <2>3 DEF Credited
    <3>3. ActiveSubs(t)' \subseteq ActiveSubs(t) \cup {added}
      BY <1>2, <2>6, CommitRows DEF ActiveSubs
    <3> HIDE DEF p, added
    <3>4. /\ IsFiniteSet(Credited(t)')
          /\ Cardinality(Credited(t)') = Cardinality(Credited(t)) + 1
      BY <1>0, <3>1, <3>2, FS_AddElement
    <3>5. /\ IsFiniteSet(ActiveSubs(t) \cup {added})
          /\ Cardinality(ActiveSubs(t) \cup {added}) <= Cardinality(ActiveSubs(t)) + 1
          /\ Cardinality(ActiveSubs(t) \cup {added}) \in Nat
      <4>1. /\ IsFiniteSet(ActiveSubs(t) \cup {added})
            /\ \/ Cardinality(ActiveSubs(t) \cup {added}) = Cardinality(ActiveSubs(t))
               \/ Cardinality(ActiveSubs(t) \cup {added}) = Cardinality(ActiveSubs(t)) + 1
        BY <1>0, FS_AddElement
      <4> QED BY <1>0, <4>1
    <3>6. /\ IsFiniteSet(ActiveSubs(t)')
          /\ Cardinality(ActiveSubs(t)') <= Cardinality(ActiveSubs(t) \cup {added})
          /\ Cardinality(ActiveSubs(t)') \in Nat
      BY <3>3, <3>5, FS_Subset, FS_CardinalityType
    <3> QED BY <1>0, <3>4, <3>5, <3>6
  <2> QED BY <2>5, <2>6
<1>3. ASSUME NEW item \in expiring, ExpireTrial(item)
      PROVE  ActiveSubs(t)' \subseteq ActiveSubs(t) /\ Credited(t)' = Credited(t)
  <2>1. ActiveSubs(t)' \subseteq ActiveSubs(t)
    BY <1>3, ExpireRows DEF ActiveSubs
  <2>2. UNCHANGED <<info, credits>>
    BY <1>3 DEF ExpireTrial, paymentVars, ledgerVars
  <2> QED BY <2>1, <2>2 DEF Credited
<1>4. CASE UNCHANGED subs /\ ~\E w \in Workers : ActivateCommit(w)
  <2>1. Credited(t)' = Credited(t)
    BY <1>4, OtherCredits
  <2> QED BY <1>1, <1>4, <2>1 DEF ActiveSubs
<1> QED BY <1>1, <1>2, <1>3, <1>4, OtherRows

\* However deliveries interleave, a tenant has at most one active subscription
\* for each payment that was charged and credited.
THEOREM SubscriptionsArePaid == Spec => []SubsBackedByCharges
<1>1. Spec => [](TypeInv /\ LedgerInv /\ Backed)
  BY InitTypeInv, StepTypeInv, InitLedgerInv, StepLedgerInv, InitBacked, StepBacked, PTL DEF Spec
<1>2. ASSUME LedgerInv, Backed PROVE SubsBackedByCharges
  <2> SUFFICES ASSUME NEW t \in Tenants
               PROVE  {p \in Payments : /\ info[p] # NoInfo /\ info[p].tenant = t
                                        /\ credits[p] = 1
                                        /\ yoo[p] \in {"succeeded", "refunded"}} = Credited(t)
    BY <1>2 DEF SubsBackedByCharges, Backed
  <2> QED BY <1>2 DEF Credited, LedgerInv, LedgerTrue
<1> QED BY <1>1, <1>2, PTL

-----------------------------------------------------------------------------
(* Renewals *)

\* A payment becomes pending when it is created and never again.
LEMMA PendingOnlyCreated ==
    ASSUME TypeInv, [Next]_vars
    PROVE  \/ /\ \A p \in Payments : status'[p] = "pending" => status[p] = "pending"
              /\ UNCHANGED info
           \/ \E p \in Payments, t \in Tenants, f \in Tariffs : CreatePayment(p, t, f, FALSE)
           \/ \E p \in Payments, t \in Tenants, f \in Tariffs :
                ~PendingRenewal(t) /\ CreatePayment(p, t, f, TRUE)
<1> USE DEF TypeInv, paymentVars, ledgerVars
<1> DEFINE NoneAdded == /\ \A p \in Payments : status'[p] = "pending" => status[p] = "pending"
                        /\ UNCHANGED info
<1>1. ASSUME NEW p \in Payments, NEW t \in Tenants, NEW f \in Tariffs, Checkout(p, t, f)
      PROVE  CreatePayment(p, t, f, FALSE)
  BY <1>1 DEF Checkout
<1>2. ASSUME NEW item \in renewing, RenewSubscription(item)
      PROVE  \/ NoneAdded
             \/ \E p \in Payments, t \in Tenants, f \in Tariffs :
                  ~PendingRenewal(t) /\ CreatePayment(p, t, f, TRUE)
  <2>1. item.tenant \in Tenants /\ item.tariff \in Tariffs
    BY DEF TypeOK
  <2> QED BY <1>2, <2>1 DEF RenewSubscription
<1>3. ASSUME NEW p \in Payments, CatchFailure(p) PROVE NoneAdded
  BY <1>3 DEF CatchFailure, TypeOK
<1>4. ASSUME NEW w \in Workers, ActivateCommit(w) \/ CancelPayment(w) \/ RefundPayment(w)
      PROVE  NoneAdded
  <2>1. UNCHANGED info
    BY <1>4 DEF ActivateCommit, CancelPayment, RefundPayment
  <2>2. \/ UNCHANGED status
        \/ \E p, v : v # "pending" /\ status' = [status EXCEPT ![p] = v]
        \/ \E p : status' = [status EXCEPT ![p] =
                     IF @ \in {"pending", "succeeded"} THEN "canceled" ELSE @]
    BY <1>4 DEF ActivateCommit, CancelPayment, RefundPayment
  <2> QED BY <2>1, <2>2 DEF TypeOK
<1>5. \/ \E p \in Payments, t \in Tenants, f \in Tariffs : Checkout(p, t, f)
      \/ \E item \in renewing : RenewSubscription(item)
      \/ \E p \in Payments : CatchFailure(p)
      \/ \E w \in Workers : ActivateCommit(w) \/ CancelPayment(w) \/ RefundPayment(w)
      \/ UNCHANGED <<status, info>>
  <2>1. ASSUME NEW p \in Payments,
               CallYooKassa(p) \/ StoreYooId(p) \/ YooSettles(p) \/ YooRefunds(p)
        PROVE  UNCHANGED <<status, info>>
    BY <2>1 DEF CallYooKassa, StoreYooId, YooSettles, YooRefunds
  <2>2. ASSUME NEW w \in Workers, Webhook(w)
        PROVE  \/ ActivateCommit(w) \/ CancelPayment(w) \/ RefundPayment(w)
               \/ UNCHANGED <<status, info>>
    BY <2>2 DEF Webhook, Handle, ActivateClaim, HandlerFails
  <2>3. ASSUME NEW u \in Tenants, BlockTenant(u) \/ UnblockTenant(u) \/ \E f \in Tariffs : ChangeTariff(u, f)
        PROVE  UNCHANGED <<status, info>>
    BY <2>3 DEF BlockTenant, UnblockTenant, ChangeTariff
  <2>4. ASSUME NEW item \in expiring, ExpireTrial(item) PROVE UNCHANGED <<status, info>>
    BY <2>4 DEF ExpireTrial
  <2>5. RenewScan \/ ExpireScan \/ Crash \/ Tick \/ UNCHANGED vars => UNCHANGED <<status, info>>
    BY DEF RenewScan, ExpireScan, Crash, Tick, vars
  <2> QED BY <2>1, <2>2, <2>3, <2>4, <2>5 DEF Next
<1>6. CASE UNCHANGED <<status, info>>
  BY <1>6
<1> HIDE DEF NoneAdded
<1>7. \/ NoneAdded
      \/ \E p \in Payments, t \in Tenants, f \in Tariffs : CreatePayment(p, t, f, FALSE)
      \/ \E p \in Payments, t \in Tenants, f \in Tariffs :
            ~PendingRenewal(t) /\ CreatePayment(p, t, f, TRUE)
  BY <1>1, <1>2, <1>3, <1>4, <1>5, <1>6 DEF NoneAdded
<1> QED BY <1>7 DEF NoneAdded

\* The renewal cron never has two charges of one tenant open, for any number of
\* tenants and subscriptions.
THEOREM OneRenewalTheorem == Spec => []OneRenewalPending
<1>1. Init => OneRenewalPending
  BY DEF Init, OneRenewalPending
<1>2. TypeInv /\ OneRenewalPending /\ [Next]_vars => OneRenewalPending'
  <2> SUFFICES ASSUME TypeInv, OneRenewalPending, [Next]_vars PROVE OneRenewalPending'
    OBVIOUS
  <2>1. CASE /\ \A p \in Payments : status'[p] = "pending" => status[p] = "pending"
             /\ UNCHANGED info
    BY <2>1 DEF OneRenewalPending
  <2>2. ASSUME NEW p \in Payments, NEW t \in Tenants, NEW f \in Tariffs,
               CreatePayment(p, t, f, FALSE)
        PROVE  OneRenewalPending'
    <3>1. info'[p].renewal = FALSE
      BY <2>2 DEF CreatePayment, TypeInv, TypeOK
    <3>2. \A q \in Payments : q # p => info'[q] = info[q] /\ status'[q] = status[q]
      BY <2>2 DEF CreatePayment, TypeInv, TypeOK
    <3> QED BY <3>1, <3>2 DEF OneRenewalPending
  <2>3. ASSUME NEW p \in Payments, NEW t \in Tenants, NEW f \in Tariffs,
               ~PendingRenewal(t), CreatePayment(p, t, f, TRUE)
        PROVE  OneRenewalPending'
    <3>1. info'[p].tenant = t
      BY <2>3 DEF CreatePayment, TypeInv, TypeOK
    <3>2. \A q \in Payments : q # p => info'[q] = info[q] /\ status'[q] = status[q]
      BY <2>3 DEF CreatePayment, TypeInv, TypeOK
    <3>3. \A q \in Payments : status[q] = "pending" /\ info[q].renewal => info[q].tenant # t
      BY <2>3 DEF PendingRenewal
    <3> QED BY <3>1, <3>2, <3>3 DEF OneRenewalPending
  <2> QED BY <2>1, <2>2, <2>3, PendingOnlyCreated
<1> QED BY <1>1, <1>2, InitTypeInv, StepTypeInv, PTL DEF Spec
-----------------------------------------------------------------------------
(* One active subscription *)

\* No two deliveries are between the search for an active subscription and the
\* commit for the same tenant: what a lock of the tenant's row would give.
ActivationsApart ==
    \A w, v \in Workers :
        /\ worker[w].pc = "claimed" /\ worker[v].pc = "claimed"
        /\ info[worker[w].payment].tenant = info[worker[v].payment].tenant
        => w = v

\* Who found no active subscription is right until its commit.
NoneFound ==
    \A w \in Workers, t \in Tenants :
        worker[w].pc = "claimed" /\ worker[w].slot = 0 /\ info[worker[w].payment].tenant = t
          => ActiveSubs(t) = {}

OneActive == \A t \in Tenants : \A i, j \in ActiveSubs(t) : i = j

\* A delivery holds a payment only by ActivateClaim, and the payment keeps its tenant.
LEMMA ClaimedKept ==
    ASSUME TypeInv, [Next]_vars, NEW w \in Workers, worker'[w].pc = "claimed"
    PROVE  \/ ActivateClaim(w)
           \/ /\ worker[w].pc = "claimed" /\ worker'[w] = worker[w]
              /\ worker[w].payment \in Payments
              /\ info'[worker[w].payment] = info[worker[w].payment]
<1> USE DEF TypeInv
<1>1. worker[w] \in {Idle} \cup Loaded \cup Claimed
  BY DEF TypeOK
<1>2. ActivateClaim(w) \/ worker'[w] = worker[w]
  <2>1. ASSUME NEW v \in Workers, Webhook(v), ~ActivateClaim(w) PROVE worker'[w] = worker[w]
    <3>1. v # w => worker'[w] = worker[w]
      BY <2>1 DEF Webhook, Handle, ActivateClaim, ActivateCommit, CancelPayment, RefundPayment,
                  HandlerFails, TypeOK
    <3>2. CASE v = w
      <4>1. CASE \E event \in Events, p \in Payments : Handle(w, event, p)
        BY <4>1 DEF Handle, TypeOK
      <4>2. CASE ActivateCommit(w) \/ CancelPayment(w) \/ RefundPayment(w) \/ HandlerFails(w)
        BY <4>2 DEF ActivateCommit, CancelPayment, RefundPayment, HandlerFails, TypeOK, Idle
      <4> QED BY <2>1, <3>2, <4>1, <4>2 DEF Webhook
    <3> QED BY <3>1, <3>2
  <2>2. ASSUME NEW p \in Payments,
               CallYooKassa(p) \/ StoreYooId(p) \/ CatchFailure(p) \/ YooSettles(p) \/ YooRefunds(p)
        PROVE  UNCHANGED worker
    BY <2>2 DEF CallYooKassa, StoreYooId, CatchFailure, YooSettles, YooRefunds
  <2>3. ASSUME NEW t \in Tenants, BlockTenant(t) \/ UnblockTenant(t) \/ \E f \in Tariffs : ChangeTariff(t, f)
        PROVE  UNCHANGED worker
    BY <2>3 DEF BlockTenant, UnblockTenant, ChangeTariff
  <2>4. ASSUME NEW p \in Payments, NEW t \in Tenants, NEW f \in Tariffs, Checkout(p, t, f)
        PROVE  UNCHANGED worker
    BY <2>4 DEF Checkout
  <2>5. ASSUME NEW item, RenewSubscription(item) \/ ExpireTrial(item) PROVE UNCHANGED worker
    BY <2>5 DEF RenewSubscription, ExpireTrial
  <2>6. RenewScan \/ ExpireScan \/ Tick \/ UNCHANGED vars => UNCHANGED worker
    BY DEF RenewScan, ExpireScan, Tick, vars
  <2>7. ~Crash
    BY DEF Crash, Idle
  <2> QED BY <2>1, <2>2, <2>3, <2>4, <2>5, <2>6, <2>7 DEF Next
<1>3. CASE worker[w].pc = "claimed"
  <2>1. worker[w].payment \in Payments /\ status[worker[w].payment] # "none"
    BY <1>1, <1>3 DEF RowsExist, Idle, Loaded, Claimed
  <2>2. info'[worker[w].payment] = info[worker[w].payment]
    BY <2>1, PendingOnlyCreated DEF CreatePayment, TypeOK
  <2> QED BY <1>2, <1>3, <2>1, <2>2
<1> QED BY <1>2, <1>3

LEMMA StepOneActive ==
    TypeInv /\ NoneFound /\ OneActive /\ ActivationsApart /\ [Next]_vars
      => NoneFound' /\ OneActive'
<1> SUFFICES ASSUME TypeInv, NoneFound, OneActive, ActivationsApart, [Next]_vars
             PROVE  NoneFound' /\ OneActive'
  OBVIOUS
<1>1. CASE \A t \in Tenants : ActiveSubs(t)' \subseteq ActiveSubs(t)
  <2>1. OneActive'
    BY <1>1 DEF OneActive
  <2>2. ASSUME NEW w \in Workers, NEW t \in Tenants, worker'[w].pc = "claimed",
               worker'[w].slot = 0, info'[worker'[w].payment].tenant = t
        PROVE  ActiveSubs(t)' = {}
    <3>1. CASE ActivateClaim(w)
      <4> DEFINE p == worker[w].payment
      <4>1. /\ worker[w].pc = "loaded" /\ worker[w].event = "payment.succeeded"
            /\ worker[w] \in {Idle} \cup Loaded \cup Claimed
        BY <3>1 DEF ActivateClaim, TypeInv, TypeOK
      <4>2. p \in Payments
        BY <4>1 DEF Idle, Loaded, Claimed
      <4>3. status[p] = "pending"
        BY <2>2, <3>1, <4>1 DEF ActivateClaim, TypeInv, TypeOK, Idle
      <4>4. \E slot \in IF ActiveSubs(info[p].tenant) = {} THEN {0} ELSE ActiveSubs(info[p].tenant) :
               worker'[w].payment = p /\ worker'[w].slot = slot
        BY <3>1, <4>3 DEF ActivateClaim, TypeInv, TypeOK
      <4>5. info[p].tenant = t /\ UNCHANGED subs
        BY <2>2, <3>1, <4>4 DEF ActivateClaim, paymentVars
      <4>6. 0 \notin ActiveSubs(t)
        <5>1. subs[t] \in Seq(Subscription)
          BY DEF TypeInv, TypeOK
        <5> QED BY <5>1, LenProperties DEF ActiveSubs
      <4>7. ActiveSubs(t) = {}
        BY <2>2, <4>4, <4>5, <4>6
      <4> QED BY <4>5, <4>7 DEF ActiveSubs
    <3>2. CASE /\ worker[w].pc = "claimed" /\ worker'[w] = worker[w]
               /\ info'[worker[w].payment] = info[worker[w].payment]
      <4>1. ActiveSubs(t) = {}
        BY <2>2, <3>2 DEF NoneFound
      <4> QED BY <1>1, <4>1
    <3> QED BY <2>2, <3>1, <3>2, ClaimedKept
  <2> QED BY <2>1, <2>2 DEF NoneFound
<1>2. ASSUME NEW w \in Workers, ActivateCommit(w) PROVE NoneFound' /\ OneActive'
  <2>0. PICK t \in Tenants : t = info[worker[w].payment].tenant
    BY <1>2, CommitRows
  <2>1. /\ worker[w].pc = "claimed" /\ UNCHANGED info
        /\ worker' = [worker EXCEPT ![w] = Idle]
    BY <1>2 DEF ActivateCommit
  <2>2. \A u \in Tenants : u # t => ActiveSubs(u)' = ActiveSubs(u)
    BY <1>2, <2>0, CommitRows DEF ActiveSubs
  <2>3. \/ ActiveSubs(t)' \subseteq ActiveSubs(t)
        \/ ActiveSubs(t) = {} /\ ActiveSubs(t)' \subseteq {Len(subs[t]) + 1}
    <3>1. CASE worker[w].slot = 0
      <4>1. ActiveSubs(t) = {}
        BY <2>0, <2>1, <3>1 DEF NoneFound
      <4>2. /\ \A j \in DOMAIN subs[t] : subs'[t][j].status = subs[t][j].status
            /\ DOMAIN subs'[t] \subseteq DOMAIN subs[t] \cup {Len(subs[t]) + 1}
        BY <1>2, <2>0, CommitRows
      <4> QED BY <4>1, <4>2 DEF ActiveSubs
    <3>2. CASE worker[w].slot # 0
      <4>1. worker[w].slot \in DOMAIN subs[t] /\ subs[t] \in Seq(Subscription)
        BY <2>0, <2>1, <3>2 DEF TypeInv, TypeOK, RowsExist
      <4>2. DOMAIN subs'[t] = DOMAIN subs[t]
        BY <1>2, <2>0, <2>1, <3>2, <4>1 DEF ActivateCommit, TypeInv, TypeOK
      <4>3. \A j \in DOMAIN subs[t] : subs'[t][j].status = subs[t][j].status
        BY <1>2, <2>0, CommitRows
      <4> QED BY <4>2, <4>3 DEF ActiveSubs
    <3> QED BY <3>1, <3>2
  <2>4. OneActive'
    BY <2>2, <2>3 DEF OneActive
  <2>5. ASSUME NEW v \in Workers, NEW u \in Tenants, worker'[v].pc = "claimed",
               worker'[v].slot = 0, info'[worker'[v].payment].tenant = u
        PROVE  ActiveSubs(u)' = {}
    <3>1. v # w /\ worker'[v] = worker[v]
      BY <2>1, <2>5 DEF TypeInv, TypeOK, Idle
    <3>2. u # t
      BY <2>0, <2>1, <2>5, <3>1 DEF ActivationsApart
    <3>3. ActiveSubs(u) = {}
      BY <2>1, <2>5, <3>1 DEF NoneFound
    <3> QED BY <2>2, <3>2, <3>3
  <2> QED BY <2>4, <2>5 DEF NoneFound
<1>3. ASSUME NEW item \in expiring, ExpireTrial(item)
      PROVE  \A t \in Tenants : ActiveSubs(t)' \subseteq ActiveSubs(t)
  BY <1>3, ExpireRows DEF ActiveSubs
<1>4. CASE UNCHANGED subs
  BY <1>1, <1>4 DEF ActiveSubs
<1> QED BY <1>1, <1>2, <1>3, <1>4, OtherRows

\* A tenant has one active subscription as long as no two of its payments are
\* being activated at once; nothing else, no expiry, renewal or restart, and no
\* delivery for another tenant, can make a second.
THEOREM OneActiveTheorem == Spec /\ []ActivationsApart => []OneActiveSubscription
<1>1. Init => NoneFound /\ OneActive
  <2> SUFFICES ASSUME Init PROVE NoneFound /\ OneActive
    OBVIOUS
  <2>1. \A t \in Tenants : ActiveSubs(t) = {}
    BY DEF Init, ActiveSubs
  <2> QED BY <2>1 DEF Init, NoneFound, OneActive, Idle
<1>2. Spec /\ []ActivationsApart => [](TypeInv /\ NoneFound /\ OneActive)
  BY <1>1, InitTypeInv, StepTypeInv, StepOneActive, PTL DEF Spec
<1>3. ASSUME OneActive PROVE OneActiveSubscription
  <2> SUFFICES ASSUME NEW t \in Tenants PROVE Cardinality(ActiveSubs(t)) <= 1
    BY DEF OneActiveSubscription
  <2>1. CASE ActiveSubs(t) = {}
    BY <2>1, FS_EmptySet
  <2>2. ASSUME NEW i \in ActiveSubs(t) PROVE Cardinality(ActiveSubs(t)) = 1
    <3>1. ActiveSubs(t) = {i}
      BY <1>3, <2>2 DEF OneActive
    <3> QED BY <3>1, FS_Singleton
  <2> QED BY <2>1, <2>2
<1> QED BY <1>2, <1>3, PTL

=============================================================================
