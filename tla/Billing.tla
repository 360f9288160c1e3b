------------------------------ MODULE Billing ------------------------------
(***************************************************************************)
(* The billing core of the API: checkout, automatic renewal, the YooKassa  *)
(* webhook, trial expiry and the administrator's block, as they share the  *)
(* tables Payment, Subscription, Tenant and Transaction.                   *)
(*                                                                         *)
(* Every request, webhook delivery and cron run is a process of its own,   *)
(* split where the code awaits: at each database statement or transaction  *)
(* that another process can interleave with, and at each call of YooKassa. *)
(* Postgres runs READ COMMITTED: a transaction's writes appear at its      *)
(* commit, and a row it has updated is locked until then.                  *)
(***************************************************************************)
EXTENDS Naturals, Sequences, FiniteSets

CONSTANTS
    Tenants,
    Payments,        \* identities of the rows checkout and renewal may create
    Tariffs,
    Months,          \* Months[f]: the length of tariff f's period
    DefaultTariff,   \* the tariff of the trial
    NoTariff,        \* Tenant.tariffId = null
    Workers,         \* webhook deliveries the API may be serving at once
    TrialEnd,        \* Tenant.trialEndsAt
    RenewAhead,      \* how long before its end a subscription is renewed
    MaxTime,         \* bound: the clock stops here
    Faults,          \* the kinds of fault a run injects ...
    MaxFaults        \* ... and how many of them at most

FaultKinds == {"crash", "rollback", "call_timeout", "db_error", "db_lost_reply"}

ASSUME TariffsAssumption ==
    /\ DefaultTariff \in Tariffs
    /\ NoTariff \notin Tariffs
    /\ Months \in [Tariffs -> Nat \ {0}]

ASSUME BoundsAssumption ==
    /\ TrialEnd \in Nat /\ RenewAhead \in Nat
    /\ MaxTime \in Nat /\ MaxFaults \in Nat
    /\ Faults \subseteq FaultKinds

VARIABLES
    status,      \* Payment.status, "none" before the row exists
    info,        \* Payment.tenantId and the tariffId and renewal of metadataJson
    linked,      \* payments whose row holds its yooKassaPaymentId
    call,        \* the request or cron iteration that creates the payment
    yoo,         \* the payment at YooKassa
    notices,     \* the notifications YooKassa has sent or seen answered
    worker,      \* the webhook deliveries in progress
    subs,        \* Subscription rows of a tenant, in order of createdAt
    tenant,      \* Tenant.status and Tenant.tariffId
    credits,     \* Transaction rows of type "payment", per payment
    refunds,     \* Transaction rows of type "refund", per payment
    expiring,    \* what expireTrials has read and not yet written
    renewing,    \* what renewSubscriptionsExpiringWithin has read and not yet done
    now,
    faults       \* faults injected so far

paymentVars == <<status, info, linked, call>>
ledgerVars  == <<credits, refunds>>
yooVars     == <<yoo, notices>>
cronVars    == <<expiring, renewing>>
clockVars   == <<now, faults>>
vars == <<status, info, linked, call, yoo, notices, worker, subs, tenant,
          credits, refunds, expiring, renewing, now, faults>>

-----------------------------------------------------------------------------
(* Types *)

PaymentStatus == {"pending", "succeeded", "canceled", "refunded"}
Terminal      == {"succeeded", "canceled", "refunded"}
Events        == {"payment.succeeded", "payment.canceled", "refund.succeeded"}

NoInfo      == [none |-> TRUE]
PaymentInfo == [tenant : Tenants, tariff : Tariffs, renewal : BOOLEAN]

Subscription ==
    [status : {"trialing", "active", "canceled"}, tariff : Tariffs,
     end : Nat, method : BOOLEAN]

Idle    == [pc |-> "idle"]
Loaded  == [pc : {"loaded"}, event : Events, payment : Payments]
Claimed == [pc : {"claimed"}, payment : Payments, slot : Nat, end : Nat]

TenantRow == [status : {"active", "suspended", "trial_expired"},
              tariff : Tariffs \cup {NoTariff}]

TypeOK ==
    /\ status \in [Payments -> PaymentStatus \cup {"none"}]
    /\ info \in [Payments -> PaymentInfo \cup {NoInfo}]
    /\ \A p \in Payments : status[p] # "none" => info[p] \in PaymentInfo
    /\ linked \subseteq Payments
    /\ call \in [Payments -> {"none", "calling", "created", "failed", "done"}]
    /\ yoo \in [Payments -> {"none", "pending", "succeeded", "canceled", "refunded"}]
    /\ notices \in [Events \X Payments -> {"unsent", "sent", "acked"}]
    /\ worker \in [Workers -> {Idle} \cup Loaded \cup Claimed]
    /\ subs \in [Tenants -> Seq(Subscription)]
    /\ tenant \in [Tenants -> TenantRow]
    /\ credits \in [Payments -> Nat]
    /\ refunds \in [Payments -> Nat]
    /\ expiring \subseteq [tenant : Tenants, slot : Nat]
    /\ renewing \subseteq [tenant : Tenants, tariff : Tariffs]
    /\ now \in Nat
    /\ faults \in Nat

-----------------------------------------------------------------------------
(* Reading the tables *)

\* include subscriptions where status in (trialing, active), newest first, take 1
LiveSubs(t)   == {i \in DOMAIN subs[t] : subs[t][i].status \in {"trialing", "active"}}
NewestLive(t) == {i \in LiveSubs(t) : \A j \in LiveSubs(t) : j <= i}

ActiveSubs(t) == {i \in DOMAIN subs[t] : subs[t][i].status = "active"}

Paid(s) == s.status = "active" /\ s.end > now

\* Mutant: the activation is not conditional on a locked row.
RowLockedNever(p) == FALSE

\* updateMany and update wait for a transaction that has updated the row
RowLocked(p) ==
    \E w \in Workers : worker[w].pc = "claimed" /\ worker[w].payment = p

RenewalInFlight ==
    \E p \in Payments : /\ call[p] \in {"calling", "created", "failed"}
                        /\ info[p].renewal

CanFault(kind) == kind \in Faults /\ faults < MaxFaults

Init ==
    /\ status = [p \in Payments |-> "none"]
    /\ info = [p \in Payments |-> NoInfo]
    /\ linked = {}
    /\ call = [p \in Payments |-> "none"]
    /\ yoo = [p \in Payments |-> "none"]
    /\ notices = [n \in Events \X Payments |-> "unsent"]
    /\ worker = [w \in Workers |-> Idle]
    /\ subs = [t \in Tenants |-> <<[status |-> "trialing", tariff |-> DefaultTariff,
                                    end |-> TrialEnd, method |-> FALSE]>>]
    /\ tenant = [t \in Tenants |-> [status |-> "active", tariff |-> NoTariff]]
    /\ credits = [p \in Payments |-> 0]
    /\ refunds = [p \in Payments |-> 0]
    /\ expiring = {}
    /\ renewing = {}
    /\ now = 0
    /\ faults = 0

-----------------------------------------------------------------------------
(* Creating a payment: checkout.service.ts and renewal.service.ts *)

\* Mutant: metadataJson is not written with the row.
CreatePaymentWithoutMetadata(p, t, f, isRenewal) ==
    /\ status[p] = "none"
    /\ status' = [status EXCEPT ![p] = "pending"]
    /\ call' = [call EXCEPT ![p] = "calling"]
    /\ UNCHANGED <<info, linked>>

CreatePayment(p, t, f, isRenewal) ==
    /\ status[p] = "none"
    /\ status' = [status EXCEPT ![p] = "pending"]
    /\ info' = [info EXCEPT ![p] = [tenant |-> t, tariff |-> f, renewal |-> isRenewal]]
    /\ call' = [call EXCEPT ![p] = "calling"]
    /\ UNCHANGED linked

Checkout(p, t, f) ==
    /\ CreatePayment(p, t, f, FALSE)
    /\ UNCHANGED <<yooVars, worker, subs, tenant, ledgerVars, cronVars, clockVars>>

\* The daily cron reads its list once and then works through it.
RenewScan ==
    /\ renewing = {} /\ ~RenewalInFlight
    /\ renewing' = {[tenant |-> t, tariff |-> f] : t \in Tenants, f \in Tariffs}
                   \cap UNION {{[tenant |-> t, tariff |-> subs[t][i].tariff] :
                                i \in {j \in ActiveSubs(t) :
                                         /\ subs[t][j].method
                                         /\ subs[t][j].end <= now + RenewAhead}}
                               : t \in Tenants}
    /\ renewing' # {}
    /\ UNCHANGED <<paymentVars, yooVars, worker, subs, tenant, ledgerVars,
                   expiring, clockVars>>

PendingRenewal(t) ==
    \E p \in Payments : /\ status[p] = "pending"
                        /\ info[p].renewal /\ info[p].tenant = t

RenewSubscription(item) ==
    /\ item \in renewing /\ ~RenewalInFlight
    /\ renewing' = renewing \ {item}
    /\ \/ PendingRenewal(item.tenant) /\ UNCHANGED paymentVars
       \/ /\ ~PendingRenewal(item.tenant)
          /\ \E p \in Payments : CreatePayment(p, item.tenant, item.tariff, TRUE)
    /\ UNCHANGED <<yooVars, worker, subs, tenant, ledgerVars, expiring, clockVars>>

\* client.payments.create: YooKassa may answer, refuse, or take the payment
\* while the caller sees a timeout.
CallYooKassa(p) ==
    /\ call[p] = "calling"
    /\ \/ /\ yoo' = [yoo EXCEPT ![p] = "pending"]
          /\ call' = [call EXCEPT ![p] = "created"]
          /\ UNCHANGED faults
       \/ /\ call' = [call EXCEPT ![p] = "failed"]
          /\ UNCHANGED <<yoo, faults>>
       \/ /\ CanFault("call_timeout")
          /\ yoo' = [yoo EXCEPT ![p] = "pending"]
          /\ call' = [call EXCEPT ![p] = "failed"]
          /\ faults' = faults + 1
    /\ UNCHANGED <<status, info, linked, notices, worker, subs, tenant,
                   ledgerVars, cronVars, now>>

\* payment.update sets yooKassaPaymentId; it may fail, or commit and its reply
\* be lost, and either way the catch block runs.
StoreYooId(p) ==
    /\ call[p] = "created"
    /\ ~RowLocked(p)
    /\ \/ /\ linked' = linked \cup {p}
          /\ call' = [call EXCEPT ![p] = "done"]
          /\ UNCHANGED faults
       \/ /\ CanFault("db_error")
          /\ call' = [call EXCEPT ![p] = "failed"]
          /\ faults' = faults + 1
          /\ UNCHANGED linked
       \/ /\ CanFault("db_lost_reply")
          /\ linked' = linked \cup {p}
          /\ call' = [call EXCEPT ![p] = "failed"]
          /\ faults' = faults + 1
    /\ UNCHANGED <<status, info, yooVars, worker, subs, tenant, ledgerVars,
                   cronVars, now>>

\* the catch block: payment.update sets status canceled, whatever it was
CatchFailure(p) ==
    /\ call[p] = "failed"
    /\ ~RowLocked(p)
    /\ status' = [status EXCEPT ![p] = "canceled"]
    /\ call' = [call EXCEPT ![p] = "done"]
    /\ UNCHANGED <<info, linked, yooVars, worker, subs, tenant, ledgerVars,
                   cronVars, clockVars>>

-----------------------------------------------------------------------------
(* YooKassa (external): it settles a payment once, may refund it later, and *)
(* keeps sending each notification until it is answered, sometimes again    *)
(* after that. A customer pays a checkout at the address stored with its    *)
(* yooKassaPaymentId; a renewal is charged to the saved method at once.     *)

Notify(event, p) == notices' = [notices EXCEPT ![<<event, p>>] = "sent"]

YooSettles(p) ==
    /\ yoo[p] = "pending"
    /\ info[p].renewal \/ p \in linked
    /\ \/ yoo' = [yoo EXCEPT ![p] = "succeeded"] /\ Notify("payment.succeeded", p)
       \/ yoo' = [yoo EXCEPT ![p] = "canceled"] /\ Notify("payment.canceled", p)
    /\ UNCHANGED <<paymentVars, worker, subs, tenant, ledgerVars, cronVars, clockVars>>

YooRefunds(p) ==
    /\ yoo[p] = "succeeded"
    /\ yoo' = [yoo EXCEPT ![p] = "refunded"]
    /\ Notify("refund.succeeded", p)
    /\ UNCHANGED <<paymentVars, worker, subs, tenant, ledgerVars, cronVars, clockVars>>

-----------------------------------------------------------------------------
(* The webhook: webhook.service.ts *)

Acknowledge(event, p) == notices' = [notices EXCEPT ![<<event, p>>] = "acked"]

\* Mutant: the notice is answered before it is processed.
HandleAnsweringFirst(w, event, p) ==
    /\ worker[w] = Idle
    /\ notices[<<event, p>>] # "unsent"
    /\ Acknowledge(event, p)
    /\ IF p \notin linked \/ status[p] \in Terminal THEN UNCHANGED worker
       ELSE worker' = [worker EXCEPT ![w] =
                         [pc |-> "loaded", event |-> event, payment |-> p]]
    /\ UNCHANGED <<paymentVars, yoo, subs, tenant, ledgerVars, cronVars, clockVars>>

\* handle: findUnique by yooKassaPaymentId; an unknown or terminal payment is
\* answered "received" and nothing else happens.
Handle(w, event, p) ==
    /\ worker[w] = Idle
    /\ notices[<<event, p>>] # "unsent"
    /\ \/ /\ p \notin linked \/ status[p] \in Terminal
          /\ Acknowledge(event, p)
          /\ UNCHANGED worker
       \/ /\ p \in linked /\ status[p] = "pending"
          /\ worker' = [worker EXCEPT ![w] =
                          [pc |-> "loaded", event |-> event, payment |-> p]]
          /\ UNCHANGED notices
    /\ UNCHANGED <<paymentVars, yoo, subs, tenant, ledgerVars, cronVars, clockVars>>

\* Mutant: the handler does not look at the event.
ActivateClaimAnyEvent(w) ==
    /\ worker[w].pc = "loaded"
    /\ LET p == worker[w].payment
           t == info[p].tenant
       IN  /\ ~RowLocked(p) /\ status[p] = "pending"
           /\ \E slot \in IF ActiveSubs(t) = {} THEN {0} ELSE ActiveSubs(t) :
                worker' = [worker EXCEPT ![w] =
                  [pc |-> "claimed", payment |-> p, slot |-> slot,
                   end |-> now + Months[info[p].tariff]]]
    /\ UNCHANGED <<paymentVars, yooVars, subs, tenant, ledgerVars, cronVars, clockVars>>

\* activatePayment, up to and including findFirst: the conditional updateMany
\* locks the payment, then the transaction looks for an active subscription.
ActivateClaim(w) ==
    /\ worker[w].pc = "loaded" /\ worker[w].event = "payment.succeeded"
    /\ LET p == worker[w].payment
           t == info[p].tenant
       IN  /\ ~RowLocked(p)
           /\ \/ /\ status[p] # "pending"
                 /\ worker' = [worker EXCEPT ![w] = Idle]
                 /\ Acknowledge("payment.succeeded", p)
              \/ /\ status[p] = "pending"
                 /\ \E slot \in IF ActiveSubs(t) = {} THEN {0} ELSE ActiveSubs(t) :
                      worker' = [worker EXCEPT ![w] =
                        [pc |-> "claimed", payment |-> p, slot |-> slot,
                         end |-> now + Months[info[p].tariff]]]
                 /\ UNCHANGED notices
    /\ UNCHANGED <<paymentVars, yoo, subs, tenant, ledgerVars, cronVars, clockVars>>

\* the rest of the transaction and its commit; the notice carries the saved
\* payment method
ActivateCommit(w) ==
    /\ worker[w].pc = "claimed"
    /\ LET p == worker[w].payment
           t == info[p].tenant
           f == info[p].tariff
           i == worker[w].slot
           renewed == [status |-> "active", tariff |-> f,
                       end |-> worker[w].end, method |-> TRUE]
       IN  /\ status' = [status EXCEPT ![p] = "succeeded"]
           /\ subs' = [subs EXCEPT ![t] =
                         IF i = 0 THEN Append(@, renewed)
                         ELSE [@ EXCEPT ![i] = [renewed EXCEPT !.status = subs[t][i].status]]]
           /\ tenant' = [tenant EXCEPT ![t] = [status |-> "active", tariff |-> f]]
           /\ credits' = [credits EXCEPT ![p] = @ + 1]
           /\ Acknowledge("payment.succeeded", p)
    /\ worker' = [worker EXCEPT ![w] = Idle]
    /\ UNCHANGED <<info, linked, call, yoo, refunds, cronVars, clockVars>>

CancelPayment(w) ==
    /\ worker[w].pc = "loaded" /\ worker[w].event = "payment.canceled"
    /\ LET p == worker[w].payment
       IN  /\ ~RowLocked(p)
           /\ status' = [status EXCEPT ![p] =
                           IF @ \in {"pending", "succeeded"} THEN "canceled" ELSE @]
           /\ Acknowledge("payment.canceled", p)
    /\ worker' = [worker EXCEPT ![w] = Idle]
    /\ UNCHANGED <<info, linked, call, yoo, subs, tenant, ledgerVars, cronVars, clockVars>>

\* Mutant: the refund is recorded whatever the status has become.
RefundPaymentUnconditionally(w) ==
    /\ worker[w].pc = "loaded" /\ worker[w].event = "refund.succeeded"
    /\ LET p == worker[w].payment
       IN  /\ ~RowLocked(p)
           /\ status' = [status EXCEPT ![p] = "refunded"]
           /\ refunds' = [refunds EXCEPT ![p] = @ + 1]
           /\ Acknowledge("refund.succeeded", p)
    /\ worker' = [worker EXCEPT ![w] = Idle]
    /\ UNCHANGED <<info, linked, call, yoo, subs, tenant, credits, cronVars, clockVars>>

RefundPayment(w) ==
    /\ worker[w].pc = "loaded" /\ worker[w].event = "refund.succeeded"
    /\ LET p == worker[w].payment
       IN  /\ ~RowLocked(p)
           /\ \/ /\ status[p] \in {"pending", "succeeded"}
                 /\ status' = [status EXCEPT ![p] = "refunded"]
                 /\ refunds' = [refunds EXCEPT ![p] = @ + 1]
              \/ /\ status[p] \notin {"pending", "succeeded"}
                 /\ UNCHANGED <<status, refunds>>
           /\ Acknowledge("refund.succeeded", p)
    /\ worker' = [worker EXCEPT ![w] = Idle]
    /\ UNCHANGED <<info, linked, call, yoo, subs, tenant, credits, cronVars, clockVars>>

\* the handler throws (its transaction is rolled back) and YooKassa is not answered
HandlerFails(w) ==
    /\ worker[w] # Idle
    /\ CanFault("rollback")
    /\ worker' = [worker EXCEPT ![w] = Idle]
    /\ faults' = faults + 1
    /\ UNCHANGED <<paymentVars, yooVars, subs, tenant, ledgerVars, cronVars, now>>

-----------------------------------------------------------------------------
(* Trial expiry: billing-cron.service.ts *)

\* Mutant: only tenants still on their trial subscription are looked at.
ExpiredTrialsOfTrialing ==
    {t \in Tenants : /\ tenant[t].status = "active"
                     /\ TrialEnd < now
                     /\ \E i \in NewestLive(t) : subs[t][i].status = "trialing"}

\* the tenants findMany returns, without those whose newest live subscription
\* is paid for
ExpiredTrials ==
    {t \in Tenants : /\ tenant[t].status = "active"
                     /\ TrialEnd < now
                     /\ ~\E i \in NewestLive(t) : Paid(subs[t][i])}

\* Mutant: the subscription is canceled whatever its status.
TrialSlotAnyStatus(t) == NewestLive(t)

\* the trialing subscription to cancel, or 0
TrialSlot(t) ==
    {i \in NewestLive(t) : subs[t][i].status = "trialing"}

ExpireScan ==
    /\ expiring = {}
    /\ ExpiredTrials # {}
    /\ expiring' = UNION {{[tenant |-> t, slot |-> i] :
                             i \in IF TrialSlot(t) = {} THEN {0} ELSE TrialSlot(t)}
                          : t \in ExpiredTrials}
    /\ UNCHANGED <<paymentVars, yooVars, worker, subs, tenant, ledgerVars,
                   renewing, clockVars>>

ExpireTrial(item) ==
    /\ item \in expiring
    /\ expiring' = expiring \ {item}
    /\ tenant' = [tenant EXCEPT ![item.tenant].status = "trial_expired"]
    /\ subs' = IF item.slot = 0 THEN subs
               ELSE [subs EXCEPT ![item.tenant][item.slot].status = "canceled"]
    /\ UNCHANGED <<paymentVars, yooVars, worker, ledgerVars, renewing, clockVars>>

-----------------------------------------------------------------------------
(* The administrator: admin-tenants.service.ts *)

BlockTenant(t) ==
    /\ tenant[t].status # "suspended"
    /\ tenant' = [tenant EXCEPT ![t].status = "suspended"]
    /\ UNCHANGED <<paymentVars, yooVars, worker, subs, ledgerVars, cronVars, clockVars>>

UnblockTenant(t) ==
    /\ tenant[t].status = "suspended"
    /\ tenant' = [tenant EXCEPT ![t].status = "active"]
    /\ UNCHANGED <<paymentVars, yooVars, worker, subs, ledgerVars, cronVars, clockVars>>

ChangeTariff(t, f) ==
    /\ tenant' = [tenant EXCEPT ![t].tariff = f]
    /\ UNCHANGED <<paymentVars, yooVars, worker, subs, ledgerVars, cronVars, clockVars>>

-----------------------------------------------------------------------------
(* The process and the clock *)

\* The API restarts: requests, cron runs and webhook deliveries in progress are
\* gone, their open transactions rolled back; the tables stay.
Crash ==
    /\ CanFault("crash")
    /\ worker' = [w \in Workers |-> Idle]
    /\ call' = [p \in Payments |->
                  IF call[p] \in {"calling", "created", "failed"} THEN "done" ELSE call[p]]
    /\ expiring' = {}
    /\ renewing' = {}
    /\ faults' = faults + 1
    /\ UNCHANGED <<status, info, linked, yooVars, subs, tenant, ledgerVars, now>>

Tick ==
    /\ now < MaxTime
    /\ now' = now + 1
    /\ UNCHANGED <<paymentVars, yooVars, worker, subs, tenant, ledgerVars,
                   cronVars, faults>>

-----------------------------------------------------------------------------

Webhook(w) ==
    \/ \E event \in Events, p \in Payments : Handle(w, event, p)
    \/ ActivateClaim(w)
    \/ ActivateCommit(w)
    \/ CancelPayment(w)
    \/ RefundPayment(w)
    \/ HandlerFails(w)

Next ==
    \/ \E p \in Payments, t \in Tenants, f \in Tariffs : Checkout(p, t, f)
    \/ RenewScan
    \/ \E item \in renewing : RenewSubscription(item)
    \/ \E p \in Payments :
          CallYooKassa(p) \/ StoreYooId(p) \/ CatchFailure(p) \/ YooSettles(p) \/ YooRefunds(p)
    \/ \E w \in Workers : Webhook(w)
    \/ ExpireScan
    \/ \E item \in expiring : ExpireTrial(item)
    \/ \E t \in Tenants : BlockTenant(t) \/ UnblockTenant(t)
    \/ \E t \in Tenants, f \in Tariffs : ChangeTariff(t, f)
    \/ Crash
    \/ Tick

Spec == Init /\ [][Next]_vars

-----------------------------------------------------------------------------
(* Properties *)

\* The ledger and the payment rows agree: a payment is credited once and
\* refunded once at most, however often and in whatever order YooKassa's
\* notices arrive and however many deliveries the API serves at once.
LedgerMatchesPayments ==
    \A p \in Payments :
        /\ credits[p] <= 1 /\ refunds[p] <= 1
        /\ status[p] \in {"none", "pending"} => credits[p] = 0 /\ refunds[p] = 0
        /\ status[p] = "succeeded" => credits[p] = 1 /\ refunds[p] = 0
        /\ status[p] = "refunded" => refunds[p] = 1

\* A subscription never outruns the money: a tenant has at most one active
\* subscription for each payment YooKassa has charged and the ledger shows.
SubsBackedByCharges ==
    \A t \in Tenants :
        Cardinality(ActiveSubs(t)) <=
          Cardinality({p \in Payments : /\ info[p] # NoInfo /\ info[p].tenant = t
                                        /\ credits[p] = 1
                                        /\ yoo[p] \in {"succeeded", "refunded"}})

\* The renewal cron never has two charges of one tenant open, though it works
\* from a list read earlier and the tenant may own several subscriptions.
OneRenewalPending ==
    \A p, q \in Payments :
        /\ status[p] = "pending" /\ status[q] = "pending"
        /\ info[p].renewal /\ info[q].renewal
        /\ info[p].tenant = info[q].tenant
        => p = q

\* expireTrials cancels by id a subscription it read earlier; by then the tenant
\* may have paid, and what was paid for must survive.
ActiveSubscriptionStays ==
    [][\A t \in Tenants : \A i \in ActiveSubs(t) : i \in ActiveSubs(t)']_subs

\* A tenant has one active subscription.  Two activations of one tenant at once
\* break this (each finds none); BillingProofs shows that nothing else does.
OneActiveSubscription == \A t \in Tenants : Cardinality(ActiveSubs(t)) <= 1

\* A refund YooKassa has been told is received shows in the ledger, if the
\* payment it gives back does.
AcknowledgedRefundIsRecorded ==
    \A p \in Payments :
        notices[<<"refund.succeeded", p>>] = "acked" /\ credits[p] = 1
          => refunds[p] = 1

\* A success YooKassa has been told is received is credited, unless the refund
\* that followed it was recorded first.
AcknowledgedSuccessIsCredited ==
    \A p \in Payments :
        notices[<<"payment.succeeded", p>>] = "acked"
          => credits[p] = 1 \/ refunds[p] = 1

\* A trial expires only for a tenant without a paid subscription.
TrialExpiresOnlyUnpaid ==
    [][\A t \in Tenants :
          tenant[t].status # "trial_expired" /\ tenant'[t].status = "trial_expired"
            => \A i \in DOMAIN subs[t] : ~Paid(subs[t][i])]_tenant

\* What billing does to the ledger is what PaymentLedger promises.
Ledger == INSTANCE PaymentLedger WITH
    charged  <- {p \in Payments : yoo[p] \in {"succeeded", "refunded"}},
    returned <- {p \in Payments : yoo[p] = "refunded"}

ImplementsLedger == Ledger!Spec

-----------------------------------------------------------------------------
(* Fairness. The server goes on with what it has begun, the crons run on    *)
(* their schedule, and YooKassa repeats a notification until it is          *)
(* answered; that a delivery finds one of the modelled Workers free in the  *)
(* end is strong fairness, the pool being a bound of the model. Customers,  *)
(* administrators, YooKassa's decisions, faults and time owe nothing.       *)

Deliver(event, p) ==
    /\ notices[<<event, p>>] = "sent"
    /\ \E w \in Workers : Handle(w, event, p)

Fairness ==
    /\ \A p \in Payments :
         /\ WF_vars(CallYooKassa(p)) /\ WF_vars(StoreYooId(p)) /\ WF_vars(CatchFailure(p))
         /\ \A event \in Events : SF_vars(Deliver(event, p))
    /\ \A w \in Workers :
         /\ WF_vars(ActivateClaim(w)) /\ WF_vars(ActivateCommit(w))
         /\ WF_vars(CancelPayment(w)) /\ WF_vars(RefundPayment(w))
    /\ WF_vars(ExpireScan)
    /\ \A t \in Tenants, i \in 0..Cardinality(Payments) + 1 :
         WF_vars(ExpireTrial([tenant |-> t, slot |-> i]))

FairSpec == Spec /\ Fairness

\* A customer's payment that YooKassa has charged is credited in the end, or
\* refunded, through restarts and failing handlers.
PaidCheckoutIsCredited ==
    \A p \in Payments :
        (yoo[p] = "succeeded" /\ ~info[p].renewal)
          ~> (credits[p] = 1 \/ refunds[p] = 1)

\* A tenant whose trial is over and who has no paid subscription does not stay
\* active, not even after an administrator's unblock or a lapsed period.
TrialEventuallyExpires ==
    \A t \in Tenants :
        (tenant[t].status = "active" /\ TrialEnd < now
           /\ \A i \in DOMAIN subs[t] : ~Paid(subs[t][i]))
          ~> (tenant[t].status # "active" \/ \E i \in DOMAIN subs[t] : Paid(subs[t][i]))
=============================================================================
