-------------------------- MODULE UsageMeterProofs --------------------------
(***************************************************************************)
(* Proofs about UsageMeter for any number of tenants, messages at work,    *)
(* overlapping copies and months.                                          *)
(***************************************************************************)
EXTENDS UsageMeter, FiniteSetTheorems, TLAPS

\* What the arguments need of types: the e-mails' bookkeeping of Notice has its
\* own invariant below.
Shapes ==
    /\ policy \in [Tenants -> Policies]
    /\ faults \in [FaultKinds -> Nat]
    /\ period \in Periods
    /\ redis \in [Counters -> Nat]
    /\ db \in [Counters -> Nat]
    /\ recorded \in [Counters -> Nat]
    /\ rows \subseteq Counters
    /\ dirty \subseteq Counters
    /\ request \in [Requests -> {Idle} \cup Admitted \cup Counted \cup Noticing]
    /\ sync \in [Syncs -> Syncing \cup Writing]

\* A fault is counted under its kind.
LEMMA FaultStep ==
    ASSUME NEW kind, Fault(kind)
    PROVE  kind \in FaultKinds /\ faults' = [faults EXCEPT ![kind] = @ + 1]
  BY BoundsAssumption, Zenon DEF Fault

LEMMA InitShapes == Init => Shapes
  BY BoundsAssumption DEF Init, Shapes, Idle, Periods, Counters, Syncing, NoSync

LEMMA StepShapes == Shapes /\ [Next]_vars => Shapes'
<1> SUFFICES ASSUME Shapes, [Next]_vars PROVE Shapes'
  OBVIOUS
<1> USE DEF Shapes, counterVars, copyVars, noticeVars
<1>1. ASSUME NEW r \in Requests, NEW t \in Tenants, Admit(r, t) PROVE Shapes'
  BY <1>1 DEF Admit, Admitted
<1>2. ASSUME NEW r \in Requests, Block(r) PROVE Shapes'
  BY <1>2 DEF Block
<1>3. ASSUME NEW r \in Requests, Count(r) PROVE Shapes'
  <2> DEFINE key == <<request[r].tenant, period>>
  <2>1. request[r] \in Admitted
    BY <1>3 DEF Count, Idle, Admitted, Counted, Noticing
  <2>2. key \in Counters
    BY <2>1 DEF Admitted, Counters
  <2>3. [pc |-> "counted", key |-> key, used |-> redis[key] + 1] \in Counted
    BY <2>2 DEF Counted
  <2> QED BY <1>3, <2>2, <2>3 DEF Count
<1>4. ASSUME NEW r \in Requests, MarkDirty(r) PROVE Shapes'
  <2>1. request[r] \in Counted
    BY <1>4 DEF MarkDirty, Idle, Admitted, Counted, Noticing
  <2>2. [pc |-> "noticing", key |-> request[r].key, used |-> request[r].used,
         todo |-> Reached(request[r].used)] \in Noticing
    BY <2>1 DEF Counted, Noticing, Reached
  <2> QED BY <1>4, <2>1, <2>2 DEF MarkDirty, Counted
<1>5. ASSUME NEW r \in Requests, Notice(r) PROVE Shapes'
  <2> DEFINE h == Min(request[r].todo)
  <2>1. request[r] \in Noticing
    BY <1>5 DEF Notice, Idle, Admitted, Counted, Noticing
  <2>2. [request[r] EXCEPT !.todo = @ \ {h}] \in Noticing
    BY <2>1 DEF Noticing
  <2>3. [request[r] EXCEPT !.pc = "mailing"] \in Noticing
    BY <2>1 DEF Noticing
  <2>4. \/ request' = [request EXCEPT ![r] = [request[r] EXCEPT !.todo = @ \ {h}]]
        \/ request' = [request EXCEPT ![r] = [request[r] EXCEPT !.pc = "mailing"]]
    BY <1>5 DEF Notice, Skip
  <2>5. request' \in [Requests -> {Idle} \cup Admitted \cup Counted \cup Noticing]
    BY <2>2, <2>3, <2>4
  <2>6. faults' \in [FaultKinds -> Nat]
    BY <1>5, FaultStep DEF Notice
  <2> QED BY <1>5, <2>5, <2>6 DEF Notice
<1>6. ASSUME NEW r \in Requests, Mail(r) PROVE Shapes'
  <2> DEFINE h == Min(request[r].todo)
  <2>1. request[r] \in Noticing
    BY <1>6 DEF Mail, Idle, Admitted, Counted, Noticing
  <2>2. [request[r] EXCEPT !.pc = "noticing", !.todo = @ \ {h}] \in Noticing
    BY <2>1 DEF Noticing
  <2>3. request' = [request EXCEPT ![r] =
                      [request[r] EXCEPT !.pc = "noticing", !.todo = @ \ {h}]]
    BY <1>6 DEF Mail
  <2> QED BY <1>6, <2>2, <2>3 DEF Mail
<1>7. ASSUME NEW r \in Requests, Charge(r) PROVE Shapes'
  BY <1>7 DEF Charge
<1>8. ASSUME NEW s \in Syncs, SyncStart(s) PROVE Shapes'
  <2>1. [left |-> dirty] \in Syncing
    BY DEF Syncing
  <2> QED BY <1>8, <2>1 DEF SyncStart
<1>9. ASSUME NEW s \in Syncs, NEW key \in Counters, SyncRead(s, key) PROVE Shapes'
  <2>1. [left |-> sync[s].left \ {key}, key |-> key, count |-> redis[key]] \in Writing
    BY <1>9 DEF SyncRead, Syncing, Writing
  <2> QED BY <1>9, <2>1 DEF SyncRead
<1>10. ASSUME NEW s \in Syncs, SyncWrite(s) PROVE Shapes'
  <2>1. [left |-> sync[s].left] \in Syncing
    BY <1>10 DEF SyncWrite, Written, Syncing, Writing
  <2>2. sync[s].key \in Counters /\ sync[s].count \in Nat
    BY <1>10 DEF SyncWrite, Written, Writing
  <2> QED BY <1>10, <2>1, <2>2 DEF SyncWrite, Written
<1>11. ASSUME NEW s \in Syncs, SyncFails(s) PROVE Shapes'
  <2>1. NoSync \in Syncing
    BY DEF NoSync, Syncing
  <2>2. faults' \in [FaultKinds -> Nat]
    BY <1>11, FaultStep DEF SyncFails
  <2> QED BY <1>11, <2>1, <2>2 DEF SyncFails
<1>12. ASSUME Restart PROVE Shapes'
  <2>1. NoSync \in Syncing
    BY DEF NoSync, Syncing
  <2>2. \A k \in Counters : Hydrated(k) \in Nat
    BY DEF Hydrated, Larger, ToHydrate
  <2>3. faults' \in [FaultKinds -> Nat]
    BY <1>12, FaultStep DEF Restart
  <2> QED BY <1>12, <2>1, <2>2, <2>3 DEF Restart
<1>13. ASSUME RedisLoss PROVE Shapes'
  <2>1. faults' \in [FaultKinds -> Nat]
    BY <1>13, FaultStep DEF RedisLoss
  <2> QED BY <1>13, <2>1 DEF RedisLoss
<1>14. ASSUME NextMonth PROVE Shapes'
  BY <1>14, BoundsAssumption DEF NextMonth, Periods
<1>15. ASSUME NEW r \in Requests, MessageFails(r) PROVE Shapes'
  <2>1. faults' \in [FaultKinds -> Nat]
    BY <1>15, FaultStep DEF MessageFails
  <2> QED BY <1>15, <2>1 DEF MessageFails
<1>16. ASSUME UNCHANGED vars PROVE Shapes'
  BY <1>16 DEF vars
<1> QED
  BY <1>1, <1>2, <1>3, <1>4, <1>5, <1>6, <1>7, <1>8, <1>9, <1>10, <1>11, <1>12,
     <1>13, <1>14, <1>15, <1>16 DEF Next, Message, SyncRun

-----------------------------------------------------------------------------
(* The limit. While Redis keeps its data, its counters are the counts, so    *)
(* every message that is admitted has seen the count at or after the last    *)
(* increment: what is counted and what is admitted but not yet counted never *)
(* exceed Limit - 1 messages that found room, and one message per request.   *)

AtWork(t) == {r \in Requests : request[r].pc = "admitted" /\ request[r].tenant = t}

CountersAgree ==
    /\ \A k \in Counters : redis[k] = recorded[k] /\ db[k] <= redis[k]
    /\ \A s \in Syncs : sync[s] \in Writing => sync[s].count <= redis[sync[s].key]

RoomForAdmitted ==
    \A t \in Tenants : policy[t] = "block" =>
        /\ \A p \in Periods : p > period => recorded[<<t, p>>] = 0
        /\ \A p \in Periods : p < period =>
              recorded[<<t, p>>] <= Limit + Cardinality(Requests) - 1
        /\ recorded[<<t, period>>] + Cardinality(AtWork(t))
              <= Limit + Cardinality(Requests) - 1

LimitInv == faults["redis_loss"] = 0 => CountersAgree /\ RoomForAdmitted

LEMMA AtWorkFinite ==
    ASSUME NEW t
    PROVE  /\ IsFiniteSet(AtWork(t))
           /\ Cardinality(AtWork(t)) \in Nat
           /\ Cardinality(AtWork(t)) <= Cardinality(Requests)
           /\ Cardinality(Requests) \in Nat \ {0}
  BY RequestsAssumption, FS_Subset, FS_CardinalityType, FS_EmptySet DEF AtWork

LEMMA InitLimitInv == Init => LimitInv
<1> SUFFICES ASSUME Init PROVE CountersAgree /\ RoomForAdmitted
  BY DEF LimitInv
<1>1. CountersAgree
  <2>1. ASSUME NEW s \in Syncs PROVE sync[s] \notin Writing
    <3>1. sync[s] = [left |-> {}]
      BY DEF Init, NoSync
    <3>2. ASSUME NEW w \in Writing PROVE "key" \in DOMAIN w
      BY DEF Writing
    <3>3. "key" \notin DOMAIN [left |-> {}]
      OBVIOUS
    <3> QED BY <3>1, <3>2, <3>3
  <2>2. \A k \in Counters : redis[k] = 0 /\ db[k] = 0 /\ recorded[k] = 0
    BY DEF Init
  <2> QED BY <2>1, <2>2 DEF CountersAgree
<1>2. ASSUME NEW t \in Tenants PROVE Cardinality(AtWork(t)) = 0
  <2>1. AtWork(t) = {}
    BY DEF Init, AtWork, Idle
  <2> QED BY <2>1, FS_EmptySet
<1>3. Cardinality(Requests) \in Nat \ {0}
  BY RequestsAssumption, FS_CardinalityType, FS_EmptySet
<1>4. RoomForAdmitted
  <2> SUFFICES ASSUME NEW t \in Tenants
               PROVE  /\ \A p \in Periods : p > period => recorded[<<t, p>>] = 0
                      /\ \A p \in Periods : p < period =>
                            recorded[<<t, p>>] <= Limit + Cardinality(Requests) - 1
                      /\ recorded[<<t, period>>] + Cardinality(AtWork(t))
                            <= Limit + Cardinality(Requests) - 1
    BY DEF RoomForAdmitted
  <2>1. \A p \in Periods : recorded[<<t, p>>] = 0
    BY DEF Init, Counters
  <2>2. period \in Periods /\ period = 1
    BY BoundsAssumption DEF Init, Periods
  <2>3. 0 <= Limit + Cardinality(Requests) - 1
    BY <1>3, TariffAssumption
  <2> QED BY <1>2, <2>1, <2>2, <2>3
<1> QED BY <1>1, <1>4

\* Steps that admit and count nothing leave room where it was.
LEMMA RoomStays ==
    ASSUME RoomForAdmitted,
           UNCHANGED <<policy, period, recorded>>,
           \A t \in Tenants : AtWork(t)' \subseteq AtWork(t),
           Shapes
    PROVE  RoomForAdmitted'
<1> SUFFICES ASSUME NEW t \in Tenants, policy[t] = "block"
             PROVE  recorded[<<t, period>>] + Cardinality(AtWork(t)')
                      <= Limit + Cardinality(Requests) - 1
  BY DEF RoomForAdmitted
<1>1. Cardinality(AtWork(t)') <= Cardinality(AtWork(t)) /\ Cardinality(AtWork(t)') \in Nat
  BY AtWorkFinite, FS_Subset, FS_CardinalityType
<1>2. recorded[<<t, period>>] + Cardinality(AtWork(t)) <= Limit + Cardinality(Requests) - 1
  BY DEF RoomForAdmitted
<1>3. recorded[<<t, period>>] \in Nat
  BY DEF Shapes, Counters
<1> QED BY <1>1, <1>2, <1>3, AtWorkFinite, TariffAssumption

LEMMA StepLimitInv == Shapes /\ LimitInv /\ [Next]_vars => LimitInv'
<1> SUFFICES ASSUME Shapes, LimitInv, [Next]_vars, faults'["redis_loss"] = 0
             PROVE  CountersAgree' /\ RoomForAdmitted'
  BY DEF LimitInv
<1> USE DEF counterVars, copyVars, noticeVars
<1>0. faults["redis_loss"] = 0 /\ ~RedisLoss
  <2>1. \A kind \in FaultKinds : Fault(kind) =>
           faults["redis_loss"] = 0 /\ kind # "redis_loss"
    BY FaultStep DEF Shapes, FaultKinds
  <2>2. ~RedisLoss
    BY <2>1 DEF RedisLoss, FaultKinds
  <2> QED
    BY <2>1, <2>2 DEF Next, Message, SyncRun, Admit, Block, Count, MarkDirty, Notice, Mail,
       Charge, MessageFails, SyncStart, SyncRead, SyncWrite, Written, SyncFails, Restart, NextMonth, vars, FaultKinds
<1> USE <1>0
<1>a. CountersAgree /\ RoomForAdmitted
  BY DEF LimitInv
<1>1. ASSUME NEW r \in Requests, NEW t \in Tenants, Admit(r, t)
      PROVE  CountersAgree' /\ RoomForAdmitted'
  <2>1. CountersAgree'
    BY <1>1, <1>a DEF Admit, CountersAgree
  <2>2. ASSUME NEW u \in Tenants, u # t PROVE AtWork(u)' \subseteq AtWork(u)
    BY <1>1, <2>2 DEF Admit, AtWork, Shapes
  <2>3. policy[t] = "block" => recorded[<<t, period>>] < Limit
    <3>1. <<t, period>> \in Counters
      BY DEF Shapes, Counters
    <3>2. Used(t) = recorded[<<t, period>>]
      BY <3>1, <1>a DEF Used, CountersAgree, Shapes
    <3> QED BY <1>1, <3>2 DEF Admit, MaySend
  <2>4. ASSUME NEW u \in Tenants, policy[u] = "block"
        PROVE  recorded[<<u, period>>] + Cardinality(AtWork(u)')
                 <= Limit + Cardinality(Requests) - 1
    <3>1. recorded[<<u, period>>] \in Nat
      BY DEF Shapes, Counters
    <3>2. CASE u = t
      <4>1. Cardinality(AtWork(u)') \in Nat /\ Cardinality(AtWork(u)') <= Cardinality(Requests)
        BY RequestsAssumption, FS_Subset, FS_CardinalityType DEF AtWork
      <4> QED BY <3>1, <3>2, <4>1, <2>3, <2>4, AtWorkFinite, TariffAssumption
    <3>3. CASE u # t
      <4>1. Cardinality(AtWork(u)') <= Cardinality(AtWork(u)) /\ Cardinality(AtWork(u)') \in Nat
        BY <3>3, <2>2, AtWorkFinite, FS_Subset, FS_CardinalityType
      <4>2. recorded[<<u, period>>] + Cardinality(AtWork(u)) <= Limit + Cardinality(Requests) - 1
        BY <1>a, <2>4 DEF RoomForAdmitted
      <4> QED BY <3>1, <4>1, <4>2, AtWorkFinite, TariffAssumption
    <3> QED BY <3>2, <3>3
  <2>5. UNCHANGED <<policy, period, recorded>>
    BY <1>1 DEF Admit
  <2> QED BY <1>a, <2>1, <2>4, <2>5 DEF RoomForAdmitted
<1>2. ASSUME NEW r \in Requests, Block(r) \/ MessageFails(r)
      PROVE  CountersAgree' /\ RoomForAdmitted'
  <2>1. CountersAgree'
    BY <1>2, <1>a DEF Block, MessageFails, CountersAgree
  <2>2. \A t \in Tenants : AtWork(t)' \subseteq AtWork(t)
    BY <1>2 DEF Block, MessageFails, AtWork, Shapes, Idle
  <2>3. UNCHANGED <<policy, period, recorded>>
    BY <1>2 DEF Block, MessageFails
  <2> QED BY <1>a, <2>1, <2>2, <2>3, RoomStays
<1>3. ASSUME NEW r \in Requests, Count(r) PROVE CountersAgree' /\ RoomForAdmitted'
  <2>0. PICK t \in Tenants : t = request[r].tenant
    BY <1>3 DEF Count, Shapes, Idle, Admitted, Counted, Noticing
  <2>k. PICK key \in Counters : key = <<t, period>>
    BY DEF Shapes, Counters
  <2>1. request'[r].pc = "counted" /\ request[r].pc = "admitted"
        /\ \A q \in Requests : q # r => request'[q] = request[q]
    BY <1>3 DEF Count, Shapes
  <2>2. /\ redis' = [redis EXCEPT ![key] = @ + 1]
        /\ recorded' = [recorded EXCEPT ![key] = @ + 1]
        /\ UNCHANGED <<policy, period, db, sync>>
    BY <1>3, <2>0, <2>k DEF Count
  <2>3. CountersAgree'
    <3>1. \A k \in Counters : redis'[k] = recorded'[k] /\ db'[k] <= redis'[k] /\ redis'[k] >= redis[k]
      BY <1>a, <2>1, <2>2 DEF CountersAgree, Shapes
    <3>2. ASSUME NEW s \in Syncs, sync[s] \in Writing PROVE sync[s].count <= redis'[sync[s].key]
      <4>1. sync[s].key \in Counters /\ sync[s].count \in Nat
        BY <3>2 DEF Writing
      <4>2. sync[s].count <= redis[sync[s].key]
        BY <3>2, <1>a DEF CountersAgree
      <4>3. redis[sync[s].key] \in Nat /\ redis'[sync[s].key] \in Nat
        BY <4>1, <2>1, <2>2 DEF Shapes
      <4> QED BY <3>1, <4>1, <4>2, <4>3
    <3> QED BY <3>1, <3>2, <2>2 DEF CountersAgree
  <2>4. AtWork(t)' = AtWork(t) \ {r} /\ r \in AtWork(t)
    BY <2>0, <2>1 DEF AtWork
  <2>5. \A u \in Tenants : u # t => AtWork(u)' = AtWork(u)
    BY <2>0, <2>1 DEF AtWork
  <2>6. Cardinality(AtWork(t)') = Cardinality(AtWork(t)) - 1
    BY <2>4, AtWorkFinite, FS_RemoveElement
  <2>7. ASSUME NEW u \in Tenants, policy[u] = "block"
        PROVE  /\ \A p \in Periods : p # period => recorded'[<<u, p>>] = recorded[<<u, p>>]
               /\ recorded'[<<u, period>>] + Cardinality(AtWork(u)')
                    <= Limit + Cardinality(Requests) - 1
    <3>1. \A p \in Periods : <<u, p>> \in Counters
      BY DEF Counters
    <3>2. \A p \in Periods : p # period => <<u, p>> # key
      BY <2>k
    <3>3. \A p \in Periods : p # period => recorded'[<<u, p>>] = recorded[<<u, p>>]
      BY <2>2, <3>1, <3>2 DEF Shapes
    <3>4. recorded[<<u, period>>] + Cardinality(AtWork(u)) <= Limit + Cardinality(Requests) - 1
      BY <1>a, <2>7 DEF RoomForAdmitted
    <3>5. recorded[<<u, period>>] \in Nat /\ <<u, period>> \in Counters
      BY DEF Shapes, Counters
    <3>6. CASE u = t
      <4>1. recorded'[<<u, period>>] = recorded[<<u, period>>] + 1
        BY <3>5, <3>6, <2>2, <2>k DEF Shapes
      <4> QED BY <3>3, <3>4, <3>5, <3>6, <4>1, <2>6, AtWorkFinite, TariffAssumption
    <3>7. CASE u # t
      <4>1. <<u, period>> # key
          BY <3>7, <2>k
      <4>2. recorded'[<<u, period>>] = recorded[<<u, period>>]
        BY <3>5, <4>1, <2>2 DEF Shapes
      <4>3. AtWork(u)' = AtWork(u)
        BY <3>7, <2>5
      <4> QED BY <3>3, <3>4, <4>2, <4>3
    <3> QED BY <3>6, <3>7
  <2>8. RoomForAdmitted'
    <3> SUFFICES ASSUME NEW u \in Tenants, policy[u] = "block"
                 PROVE  /\ \A p \in Periods : p > period => recorded'[<<u, p>>] = 0
                        /\ \A p \in Periods : p < period =>
                              recorded'[<<u, p>>] <= Limit + Cardinality(Requests) - 1
                        /\ recorded'[<<u, period>>] + Cardinality(AtWork(u)')
                              <= Limit + Cardinality(Requests) - 1
      BY <2>2 DEF RoomForAdmitted
    <3>1. \A p \in Periods : p \in Int /\ period \in Int
      BY DEF Periods, Shapes
    <3>2. /\ \A p \in Periods : p > period => recorded[<<u, p>>] = 0
          /\ \A p \in Periods : p < period =>
                recorded[<<u, p>>] <= Limit + Cardinality(Requests) - 1
      BY <1>a DEF RoomForAdmitted
    <3> QED BY <2>7, <3>1, <3>2
  <2> QED BY <2>3, <2>8
<1>4. ASSUME NEW r \in Requests,
             MarkDirty(r) \/ Notice(r) \/ Mail(r) \/ Charge(r)
      PROVE  CountersAgree' /\ RoomForAdmitted'
  <2>1. UNCHANGED <<policy, period, recorded, redis, db, sync>>
    BY <1>4 DEF MarkDirty, Notice, Mail, Charge
  <2>2. \A t \in Tenants : AtWork(t)' \subseteq AtWork(t)
    <3>1. \A q \in Requests \ {r} : request'[q] = request[q]
      BY <1>4 DEF MarkDirty, Notice, Mail, Charge, Skip, Shapes
    <3>2. request'[r].pc # "admitted"
      <4>1. CASE MarkDirty(r)
        BY <4>1 DEF MarkDirty, Shapes
      <4>2. CASE Notice(r)
        <5>1. \/ request'[r] = [request[r] EXCEPT !.todo = @ \ {Min(request[r].todo)}]
              \/ request'[r] = [request[r] EXCEPT !.pc = "mailing"]
          BY <4>2 DEF Notice, Skip, Shapes
        <5>2. request[r] \in Noticing /\ request[r].pc = "noticing"
          BY <4>2 DEF Notice, Shapes, Idle, Admitted, Counted, Noticing
        <5> QED BY <5>1, <5>2 DEF Noticing
      <4>3. CASE Mail(r)
        <5>1. request'[r] = [request[r] EXCEPT !.pc = "noticing",
                               !.todo = @ \ {Min(request[r].todo)}]
          BY <4>3 DEF Mail, Shapes
        <5>2. request[r] \in Noticing
          BY <4>3 DEF Mail, Shapes, Idle, Admitted, Counted, Noticing
        <5> QED BY <5>1, <5>2 DEF Noticing
      <4>4. CASE Charge(r)
        BY <4>4 DEF Charge, Shapes, Idle
      <4> QED BY <1>4, <4>1, <4>2, <4>3, <4>4
    <3> QED BY <3>1, <3>2 DEF AtWork
  <2>3. CountersAgree'
    BY <1>a, <2>1 DEF CountersAgree
  <2> QED BY <1>a, <2>1, <2>2, <2>3, RoomStays
<1>5. ASSUME NEW s \in Syncs,
             \/ SyncStart(s) \/ (\E key \in Counters : SyncRead(s, key))
             \/ SyncWrite(s) \/ SyncFails(s)
      PROVE  CountersAgree' /\ RoomForAdmitted'
  <2>1. UNCHANGED <<policy, period, recorded, redis, request>>
    BY <1>5 DEF SyncStart, SyncRead, SyncWrite, Written, SyncFails
  <2>2. RoomForAdmitted'
    BY <1>a, <2>1, RoomStays DEF AtWork
  <2>3. \A k \in Counters : db'[k] <= redis[k]
    <3>1. CASE SyncWrite(s)
      <4>1. sync[s].key \in Counters /\ sync[s].count <= redis[sync[s].key]
        BY <3>1, <1>a DEF SyncWrite, Written, CountersAgree, Writing
      <4>2. db' = [db EXCEPT ![sync[s].key] = sync[s].count]
        BY <3>1 DEF SyncWrite, Written
      <4> QED BY <4>1, <4>2, <1>a DEF CountersAgree, Shapes
    <3>2. CASE ~SyncWrite(s)
      BY <3>2, <1>5, <1>a DEF SyncStart, SyncRead, SyncFails, CountersAgree
    <3> QED BY <3>1, <3>2
  <2>4. ASSUME NEW q \in Syncs, sync'[q] \in Writing
        PROVE  sync'[q].count <= redis[sync'[q].key]
    <3>1. CASE sync'[q] = sync[q]
      BY <3>1, <2>4, <1>a DEF CountersAgree
    <3>2. CASE sync'[q] # sync[q]
      <4>1. q = s
        BY <3>2, <1>5 DEF SyncStart, SyncRead, SyncWrite, Written, SyncFails, Shapes
      <4>2. CASE \E key \in Counters : SyncRead(s, key)
        <5>1. PICK key \in Counters : SyncRead(s, key)
          BY <4>2
        <5>2. sync'[s] = [left |-> sync[s].left \ {key}, key |-> key, count |-> redis[key]]
          BY <5>1 DEF SyncRead, Shapes
        <5>3. redis[key] \in Nat
          BY DEF Shapes
        <5> QED BY <4>1, <5>2, <5>3
      <4>3. CASE SyncStart(s) \/ SyncWrite(s) \/ SyncFails(s)
        <5>1. sync'[s] \in {[left |-> dirty], [left |-> sync[s].left], NoSync}
          BY <4>3 DEF SyncStart, SyncWrite, Written, SyncFails, Shapes
        <5>2. sync'[s] \notin Writing
          BY <5>1 DEF NoSync, Writing
        <5> QED BY <4>1, <5>2, <2>4
      <4> QED BY <1>5, <4>2, <4>3
    <3> QED BY <3>1, <3>2
  <2>5. CountersAgree'
    BY <1>a, <2>1, <2>3, <2>4 DEF CountersAgree
  <2> QED BY <2>2, <2>5
<1>6. ASSUME Restart PROVE CountersAgree' /\ RoomForAdmitted'
  <2>1. \A k \in Counters : Hydrated(k) = redis[k]
    BY <1>a DEF Hydrated, Larger, CountersAgree, Shapes
  <2>2. CountersAgree'
    <3>1. \A s \in Syncs : sync'[s] \notin Writing
      BY <1>6 DEF Restart, NoSync, Writing
    <3>2. \A k \in Counters : redis'[k] = redis[k] /\ db'[k] \in {redis[k], db[k]}
      BY <1>6, <2>1 DEF Restart
    <3>3. recorded' = recorded
      BY <1>6 DEF Restart
    <3> QED BY <1>a, <3>1, <3>2, <3>3 DEF CountersAgree, Shapes
  <2>3. \A t \in Tenants : AtWork(t)' \subseteq AtWork(t)
    BY <1>6 DEF Restart, AtWork, Idle
  <2>4. UNCHANGED <<policy, period, recorded>>
    BY <1>6 DEF Restart
  <2> QED BY <1>a, <2>2, <2>3, <2>4, RoomStays
<1>7. ASSUME NextMonth PROVE CountersAgree' /\ RoomForAdmitted'
  <2>1. CountersAgree'
    BY <1>7, <1>a DEF NextMonth, CountersAgree
  <2>2. ASSUME NEW t \in Tenants, policy[t] = "block"
        PROVE  /\ \A p \in Periods : p > period + 1 => recorded[<<t, p>>] = 0
               /\ \A p \in Periods : p < period + 1 =>
                     recorded[<<t, p>>] <= Limit + Cardinality(Requests) - 1
               /\ recorded[<<t, period + 1>>] + Cardinality(AtWork(t))
                     <= Limit + Cardinality(Requests) - 1
    <3>1. period \in Int /\ period + 1 \in Periods /\ period \in Periods
      BY <1>7, BoundsAssumption DEF NextMonth, Shapes, Periods
    <3>0. /\ \A p \in Periods : p > period => recorded[<<t, p>>] = 0
          /\ \A p \in Periods : p < period =>
                recorded[<<t, p>>] <= Limit + Cardinality(Requests) - 1
          /\ recorded[<<t, period>>] + Cardinality(AtWork(t))
                <= Limit + Cardinality(Requests) - 1
      BY <1>a, <2>2 DEF RoomForAdmitted
    <3>2. recorded[<<t, period + 1>>] = 0
      BY <3>0, <3>1
    <3>3. recorded[<<t, period>>] \in Nat
      BY <3>1 DEF Shapes, Counters
    <3>4. recorded[<<t, period>>] <= Limit + Cardinality(Requests) - 1
      BY <3>0, <3>3, AtWorkFinite, TariffAssumption
    <3>5. \A p \in Periods : p \in Int
      BY DEF Periods
    <3>6. \A p \in Periods : p < period + 1 =>
             recorded[<<t, p>>] <= Limit + Cardinality(Requests) - 1
      <4>1. \A p \in Periods : p < period + 1 => p < period \/ p = period
        BY <3>1, <3>5
      <4> QED BY <3>0, <3>4, <4>1
    <3>7. \A p \in Periods : p > period + 1 => recorded[<<t, p>>] = 0
      BY <3>0, <3>1, <3>5
    <3>8. 0 + Cardinality(AtWork(t)) <= Limit + Cardinality(Requests) - 1
      BY AtWorkFinite, TariffAssumption
    <3> QED BY <3>2, <3>6, <3>7, <3>8
  <2>3. /\ period' = period + 1
        /\ UNCHANGED <<policy, recorded, request>>
    BY <1>7 DEF NextMonth
  <2>4. \A t \in Tenants : AtWork(t)' = AtWork(t)
    BY <2>3 DEF AtWork
  <2> QED BY <2>1, <2>2, <2>3, <2>4 DEF RoomForAdmitted
<1>8. ASSUME UNCHANGED vars PROVE CountersAgree' /\ RoomForAdmitted'
  <2>1. CountersAgree'
    BY <1>8, <1>a DEF vars, CountersAgree
  <2>2. RoomForAdmitted'
    BY <1>8, <1>a, RoomStays DEF vars, AtWork
  <2> QED BY <2>1, <2>2
<1> QED
  BY <1>1, <1>2, <1>3, <1>4, <1>5, <1>6, <1>7, <1>8 DEF Next, Message, SyncRun

\* In every reachable state, for any number of messages at work at once, months,
\* restarts and failing copies: a blocking limit is passed by one message less
\* than the API works on at once, and no more, while Redis keeps its data.
THEOREM LimitTheorem == Spec => []LimitOvershootBounded
<1>1. Init => Shapes /\ LimitInv
  BY InitShapes, InitLimitInv
<1>2. Shapes /\ LimitInv /\ [Next]_vars => Shapes' /\ LimitInv'
  BY StepShapes, StepLimitInv
<1>3. Shapes /\ LimitInv => LimitOvershootBounded
  <2> SUFFICES ASSUME Shapes, LimitInv, None({"redis_loss"}),
                      NEW k \in Counters, policy[k[1]] = "block"
               PROVE  recorded[k] <= Limit + Cardinality(Requests) - 1
    BY DEF LimitOvershootBounded
  <2>1. RoomForAdmitted
    BY DEF LimitInv, None
  <2>2. k[1] \in Tenants /\ k[2] \in Periods /\ k = <<k[1], k[2]>>
    BY DEF Counters
  <2>3. recorded[k] \in Nat /\ period \in Int /\ k[2] \in Int
    BY <2>2 DEF Shapes, Periods
  <2>4. CASE k[2] = period
    <3>1. recorded[<<k[1], period>>] + Cardinality(AtWork(k[1]))
             <= Limit + Cardinality(Requests) - 1
      BY <2>1, <2>2 DEF RoomForAdmitted
    <3> QED BY <2>2, <2>3, <2>4, <3>1, AtWorkFinite, TariffAssumption
  <2>5. CASE k[2] < period
    BY <2>1, <2>2, <2>5 DEF RoomForAdmitted
  <2>6. CASE k[2] > period
    <3>1. recorded[k] = 0
      BY <2>1, <2>2, <2>6 DEF RoomForAdmitted
    <3> QED BY <3>1, AtWorkFinite, TariffAssumption
  <2> QED BY <2>3, <2>4, <2>5, <2>6
<1> QED BY <1>1, <1>2, <1>3, PTL DEF Spec

-----------------------------------------------------------------------------
(* The notices. A request that is mailing owns its threshold: it created the *)
(* row, nobody has mailed it, and no other request is mailing it.            *)

Owned(r) == <<request[r].key, Min(request[r].todo)>>

IsMailing(r) == request[r].pc = "mailing"

OwnersInv ==
    /\ mailed \in [Counters \X Thresholds -> {0, 1}]
    /\ \A n \in Counters \X Thresholds : mailed[n] = 1 => n \in noticed
    /\ \A r \in Requests : IsMailing(r) =>
          Owned(r) \in noticed /\ (Owned(r) \in DOMAIN mailed => mailed[Owned(r)] = 0)
    /\ \A r, q \in Requests : IsMailing(r) /\ IsMailing(q) /\ Owned(r) = Owned(q) => r = q

LEMMA InitOwners == Init => OwnersInv
  BY DEF Init, OwnersInv, IsMailing, Idle

\* A step that sends no mail, takes no row away and lets nobody start mailing.
LEMMA OwnersStay ==
    ASSUME OwnersInv, mailed' = mailed, noticed \subseteq noticed',
           \A r \in Requests : IsMailing(r)' => request'[r] = request[r]
    PROVE  OwnersInv'
  BY DEF OwnersInv, IsMailing, Owned

LEMMA StepOwners == Shapes /\ OwnersInv /\ [Next]_vars => OwnersInv'
<1> SUFFICES ASSUME Shapes, OwnersInv, [Next]_vars PROVE OwnersInv'
  OBVIOUS
<1> USE DEF counterVars, copyVars, noticeVars
<1>1. ASSUME NEW r \in Requests, NEW t \in Tenants, Admit(r, t) PROVE OwnersInv'
  BY <1>1, OwnersStay DEF Admit, IsMailing, Shapes
<1>2. ASSUME NEW r \in Requests, Block(r) \/ MessageFails(r) \/ Charge(r) PROVE OwnersInv'
  BY <1>2, OwnersStay DEF Block, MessageFails, Charge, IsMailing, Shapes, Idle
<1>3. ASSUME NEW r \in Requests, Count(r) PROVE OwnersInv'
  <2>1. \A q \in Requests : IsMailing(q)' => request'[q] = request[q]
    BY <1>3 DEF Count, IsMailing, Shapes
  <2>2. UNCHANGED <<mailed, noticed>>
    BY <1>3 DEF Count
  <2> QED BY <2>1, <2>2, OwnersStay
<1>4. ASSUME NEW r \in Requests, MarkDirty(r) PROVE OwnersInv'
  <2>1. \A q \in Requests : IsMailing(q)' => request'[q] = request[q]
    BY <1>4 DEF MarkDirty, IsMailing, Shapes
  <2>2. UNCHANGED <<mailed, noticed>>
    BY <1>4 DEF MarkDirty
  <2> QED BY <2>1, <2>2, OwnersStay
<1>5. ASSUME NEW r \in Requests, Notice(r) PROVE OwnersInv'
  <2>1. PICK n : n = Owned(r)
    OBVIOUS
  <2>2. request[r] \in Noticing /\ request[r].pc = "noticing"
    BY <1>5 DEF Notice, Shapes, Idle, Admitted, Counted, Noticing
  <2>3. mailed' = mailed /\ \A q \in Requests \ {r} : request'[q] = request[q]
    BY <1>5 DEF Notice, Skip, Shapes
  <2>4. CASE request'[r].pc = "noticing"
    <3>1. noticed \subseteq noticed'
      BY <1>5 DEF Notice
    <3> QED BY <2>3, <2>4, <3>1, OwnersStay DEF IsMailing
  <2>5. CASE request'[r].pc # "noticing"
    <3>1. /\ n \notin noticed /\ noticed' = noticed \cup {n}
          /\ request' = [request EXCEPT ![r].pc = "mailing"]
      BY <1>5, <2>1, <2>2, <2>5 DEF Notice, Skip, Owned, Shapes, Noticing
    <3>2. /\ request'[r].pc = "mailing" /\ request'[r].key = request[r].key
          /\ request'[r].todo = request[r].todo
      BY <2>2, <3>1 DEF Shapes, Noticing
    <3>3. Owned(r)' = n
      BY <2>1, <3>2 DEF Owned
    <3>4. \A q \in Requests \ {r} : IsMailing(q)' = IsMailing(q) /\ Owned(q)' = Owned(q)
      BY <2>3 DEF IsMailing, Owned
    <3>5. \A q \in Requests \ {r} : IsMailing(q) => Owned(q) # n
      BY <3>1 DEF OwnersInv
    <3>6. n \in DOMAIN mailed => mailed[n] = 0
      BY <3>1 DEF OwnersInv
    <3>7. /\ mailed' \in [Counters \X Thresholds -> {0, 1}]
          /\ \A m \in Counters \X Thresholds : mailed'[m] = 1 => m \in noticed'
      BY <2>3, <3>1 DEF OwnersInv
    <3>8. \A q \in Requests : IsMailing(q)' =>
             Owned(q)' \in noticed' /\ (Owned(q)' \in DOMAIN mailed' => mailed'[Owned(q)'] = 0)
      BY <2>3, <3>1, <3>3, <3>4, <3>6 DEF OwnersInv
    <3>9. \A p, q \in Requests :
             IsMailing(p)' /\ IsMailing(q)' /\ Owned(p)' = Owned(q)' => p = q
      BY <3>3, <3>4, <3>5 DEF OwnersInv
    <3> QED BY <3>7, <3>8, <3>9 DEF OwnersInv
  <2> QED BY <2>4, <2>5
<1>6. ASSUME NEW r \in Requests, Mail(r) PROVE OwnersInv'
  <2>1. PICK n : n = Owned(r)
    OBVIOUS
  <2>2. mailed' = [mailed EXCEPT ![n] = @ + 1] /\ noticed' = noticed
    BY <1>6, <2>1 DEF Mail, Owned
  <2>3. request[r] \in Noticing /\ IsMailing(r)
    BY <1>6 DEF Mail, IsMailing, Shapes, Idle, Admitted, Counted, Noticing
  <2>4. /\ ~IsMailing(r)'
        /\ \A q \in Requests \ {r} : request'[q] = request[q]
    <3>1. request' = [request EXCEPT ![r] = [request[r] EXCEPT !.pc = "noticing",
                                   !.todo = @ \ {Min(request[r].todo)}]]
      BY <1>6 DEF Mail
    <3> QED BY <2>3, <3>1 DEF IsMailing, Shapes, Noticing
  <2>5. n \in noticed /\ (n \in DOMAIN mailed => mailed[n] = 0)
    BY <2>1, <2>3 DEF OwnersInv
  <2>6. \A q \in Requests \ {r} : IsMailing(q)' = IsMailing(q) /\ Owned(q)' = Owned(q)
    BY <2>4 DEF IsMailing, Owned
  <2>7. \A q \in Requests \ {r} : IsMailing(q) => Owned(q) # n
    BY <2>1, <2>3 DEF OwnersInv
  <2>8. /\ mailed' \in [Counters \X Thresholds -> {0, 1}]
        /\ \A m \in Counters \X Thresholds : mailed'[m] = 1 => m \in noticed'
    <3>1. PICK D : D = Counters \X Thresholds
      OBVIOUS
    <3>2. mailed \in [D -> {0, 1}] /\ \A m \in D : mailed[m] = 1 => m \in noticed
      BY <3>1 DEF OwnersInv
    <3>3. n \in D => mailed[n] + 1 = 1
      BY <2>5, <3>2
    <3>4. \A m \in D : mailed'[m] = IF m = n THEN 1 ELSE mailed[m]
      BY <2>2, <3>2, <3>3
    <3>5. mailed' \in [D -> {0, 1}]
      BY <2>2, <3>2, <3>3
    <3>6. \A m \in D : mailed'[m] = 1 => m \in noticed'
      BY <2>2, <2>5, <3>2, <3>4
    <3> QED BY <3>1, <3>5, <3>6
  <2>9. \A q \in Requests : IsMailing(q)' =>
           Owned(q)' \in noticed' /\ (Owned(q)' \in DOMAIN mailed' => mailed'[Owned(q)'] = 0)
    BY <2>2, <2>4, <2>6, <2>7 DEF OwnersInv
  <2>10. \A p, q \in Requests :
           IsMailing(p)' /\ IsMailing(q)' /\ Owned(p)' = Owned(q)' => p = q
    BY <2>4, <2>6 DEF OwnersInv
  <2> QED BY <2>8, <2>9, <2>10 DEF OwnersInv
<1>7. ASSUME UNCHANGED <<request, mailed, noticed>> PROVE OwnersInv'
  BY <1>7, OwnersStay
<1>8. ASSUME NEW s \in Syncs, SyncRun(s) PROVE OwnersInv'
  <2>1. UNCHANGED <<request, mailed, noticed>>
    BY <1>8 DEF SyncRun, SyncStart, SyncRead, SyncWrite, Written, SyncFails
  <2> QED BY <2>1, <1>7
<1>9. ASSUME Restart PROVE OwnersInv'
  BY <1>9, OwnersStay DEF Restart, IsMailing, Idle
<1>10. ASSUME RedisLoss \/ NextMonth \/ UNCHANGED vars PROVE OwnersInv'
  BY <1>10, <1>7 DEF RedisLoss, NextMonth, vars
<1> QED
  BY <1>1, <1>2, <1>3, <1>4, <1>5, <1>6, <1>8, <1>9, <1>10 DEF Next, Message

\* For any number of messages at work at once and any faults, also a Redis that
\* lost its data: a threshold is mailed once a month at most, by the request
\* that created its row.
THEOREM NoticeTheorem == Spec => []NoticeOncePerPeriod
<1>1. Init => Shapes /\ OwnersInv
  BY InitShapes, InitOwners
<1>2. Shapes /\ OwnersInv /\ [Next]_vars => Shapes' /\ OwnersInv'
  BY StepShapes, StepOwners
<1>3. OwnersInv => NoticeOncePerPeriod
  BY DEF OwnersInv, NoticeOncePerPeriod
<1> QED BY <1>1, <1>2, <1>3, PTL DEF Spec

-----------------------------------------------------------------------------

\* The counter messages are admitted by never falls while Redis keeps its data,
\* whatever hydration, copies and messages interleave.
THEOREM CounterTheorem == Spec => CounterNeverGoesBack
<1>1. ASSUME Shapes, Next, redis' # redis, ~RedisLoss, NEW k \in Counters
      PROVE  redis'[k] >= redis[k]
  <2> USE DEF counterVars, copyVars, noticeVars
  <2>1. \A c \in Counters : redis[c] \in Nat /\ db[c] \in Nat
    BY <1>1 DEF Shapes
  <2>2. CASE Restart
    <3>1. redis'[k] = Hydrated(k)
      BY <2>2 DEF Restart
    <3> QED BY <2>1, <3>1 DEF Hydrated, Larger
  <2>3. CASE \E r \in Requests : Count(r)
    <3>1. \E key : redis' = [redis EXCEPT ![key] = @ + 1]
      BY <2>3 DEF Count
    <3> QED BY <1>1, <2>1, <3>1 DEF Shapes
  <2> QED
    BY <1>1, <2>2, <2>3 DEF Next, Message, SyncRun, Admit, Block, MarkDirty, Notice, Mail,
       Charge, MessageFails, SyncStart, SyncRead, SyncWrite, Written, SyncFails, NextMonth
<1>2. ASSUME Shapes, RedisLoss PROVE faults'["redis_loss"] # 0
  BY <1>2, FaultStep DEF RedisLoss, Shapes, FaultKinds
<1>3. Shapes /\ [Next]_vars
        => [None({"redis_loss"})' => \A k \in Counters : redis'[k] >= redis[k]]_redis
  BY <1>1, <1>2 DEF None, vars, counterVars
<1> QED BY <1>3, InitShapes, StepShapes, PTL DEF Spec, CounterNeverGoesBack

-----------------------------------------------------------------------------
(* The balance. Below the limit nobody who is admitted will be charged, but  *)
(* for the n - 1 that pass the limit with the last free message; from the    *)
(* limit on whoever is admitted found the price of a message in the balance, *)
(* and n - 1 others may be at work.                                          *)

Owing(t) == AtWork(t) \cup Uncharged(t)

\* What a month may overdraw, as a negative number.
Overlap == 1 - Cardinality(Requests)

BalanceInv ==
    /\ balance \in [Tenants -> Int]
    /\ \A t \in Tenants : policy[t] # "charge" => balance[t] >= 0
    /\ faults["redis_loss"] = 0 => \A t \in Tenants : policy[t] = "charge" =>
          /\ \A p \in Periods : p > period => recorded[<<t, p>>] = 0
          /\ recorded[<<t, period>>] < Limit =>
                balance[t] >= (period - 1) * Overlap + Cardinality(Uncharged(t))
          /\ recorded[<<t, period>>] >= Limit =>
                balance[t] >= period * Overlap + Cardinality(Owing(t))

LEMMA OwingFinite ==
    ASSUME NEW t
    PROVE  /\ IsFiniteSet(Owing(t)) /\ Cardinality(Owing(t)) \in Nat
           /\ IsFiniteSet(Uncharged(t)) /\ Cardinality(Uncharged(t)) \in Nat
           /\ Cardinality(Uncharged(t)) <= Cardinality(Owing(t))
           /\ Cardinality(Owing(t)) <= Cardinality(Requests)
           /\ Overlap \in Int /\ Overlap <= 0
<1>1. Owing(t) \subseteq Requests /\ Uncharged(t) \subseteq Owing(t)
  BY DEF Owing, AtWork, Uncharged
<1>2. /\ IsFiniteSet(Owing(t)) /\ Cardinality(Owing(t)) \in Nat
      /\ Cardinality(Owing(t)) <= Cardinality(Requests)
  BY <1>1, RequestsAssumption, FS_Subset, FS_CardinalityType
<1>3. /\ IsFiniteSet(Uncharged(t)) /\ Cardinality(Uncharged(t)) \in Nat
      /\ Cardinality(Uncharged(t)) <= Cardinality(Owing(t))
  BY <1>1, <1>2, FS_Subset, FS_CardinalityType
<1>4. Cardinality(Requests) \in Nat \ {0}
  BY RequestsAssumption, FS_CardinalityType, FS_EmptySet
<1> QED BY <1>2, <1>3, <1>4 DEF Overlap

\* A month more allows as much more.
LEMMA MonthOfOverlap ==
    ASSUME NEW n \in Nat
    PROVE  /\ n * Overlap \in Int /\ n * Overlap <= 0
           /\ (n + 1) * Overlap = n * Overlap + Overlap
<1>1. Overlap \in Int /\ Overlap <= 0
  BY OwingFinite
<1>2. PICK d \in Int : d = Overlap /\ d <= 0
  BY <1>1
<1>3. n * d \in Int /\ n * d <= 0 /\ (n + 1) * d = n * d + d
  BY <1>2
<1> QED BY <1>2, <1>3

\* Steps after which nobody more owes anything and the balance is what it was.
LEMMA BalanceStays ==
    ASSUME Shapes, BalanceInv, UNCHANGED <<policy, period, recorded, balance>>,
           faults'["redis_loss"] = 0 => faults["redis_loss"] = 0,
           \A t \in Tenants : /\ AtWork(t)' \subseteq AtWork(t)
                              /\ Uncharged(t)' \subseteq Uncharged(t)
    PROVE  BalanceInv'
<1> SUFFICES ASSUME faults["redis_loss"] = 0, NEW t \in Tenants, policy[t] = "charge"
             PROVE  /\ recorded[<<t, period>>] < Limit =>
                          balance[t] >= (period - 1) * Overlap + Cardinality(Uncharged(t)')
                    /\ recorded[<<t, period>>] >= Limit =>
                          balance[t] >= period * Overlap + Cardinality(Owing(t)')
  BY DEF BalanceInv
<1>1. Cardinality(Uncharged(t)') <= Cardinality(Uncharged(t)) /\ Cardinality(Uncharged(t)') \in Nat
  BY OwingFinite, FS_Subset, FS_CardinalityType
<1>2. Owing(t)' \subseteq Owing(t)
  BY DEF Owing
<1>3. Cardinality(Owing(t)') <= Cardinality(Owing(t)) /\ Cardinality(Owing(t)') \in Nat
  BY <1>2, OwingFinite, FS_Subset, FS_CardinalityType
<1>4. /\ recorded[<<t, period>>] < Limit =>
            balance[t] >= (period - 1) * Overlap + Cardinality(Uncharged(t))
      /\ recorded[<<t, period>>] >= Limit =>
            balance[t] >= period * Overlap + Cardinality(Owing(t))
  BY DEF BalanceInv
<1>5. period \in Nat /\ period - 1 \in Nat /\ balance[t] \in Int
  BY BoundsAssumption DEF Shapes, Periods, BalanceInv
<1>6. (period - 1) * Overlap \in Int /\ period * Overlap \in Int
  BY <1>5, MonthOfOverlap
<1> QED BY <1>1, <1>3, <1>4, <1>5, <1>6, OwingFinite

\* While a message is between its count and its charge, what it owes stays.
LEMMA UnchargedStays ==
    ASSUME Shapes, NEW r \in Requests, MarkDirty(r) \/ Notice(r) \/ Mail(r), NEW t \in Tenants
    PROVE  AtWork(t)' \subseteq AtWork(t) /\ Uncharged(t)' = Uncharged(t)
<1>1. UNCHANGED policy /\ \A q \in Requests \ {r} : request'[q] = request[q]
  BY DEF MarkDirty, Notice, Mail, Skip, Shapes
<1>2. /\ request[r].pc \in {"counted", "noticing", "mailing"}
      /\ request'[r].pc \in {"noticing", "mailing"}
      /\ request'[r].key = request[r].key /\ request'[r].used = request[r].used
  <2>1. CASE MarkDirty(r)
    BY <2>1 DEF MarkDirty, Shapes
  <2>2. CASE Notice(r)
    <3>1. \/ request'[r] = [request[r] EXCEPT !.todo = @ \ {Min(request[r].todo)}]
          \/ request'[r] = [request[r] EXCEPT !.pc = "mailing"]
      BY <2>2 DEF Notice, Skip, Shapes
    <3>2. request[r] \in Noticing /\ request[r].pc = "noticing"
      BY <2>2 DEF Notice, Shapes, Idle, Admitted, Counted, Noticing
    <3> QED BY <3>1, <3>2 DEF Noticing
  <2>3. CASE Mail(r)
    <3>1. request'[r] = [request[r] EXCEPT !.pc = "noticing", !.todo = @ \ {Min(request[r].todo)}]
      BY <2>3 DEF Mail, Shapes
    <3>2. request[r] \in Noticing /\ request[r].pc = "mailing"
      BY <2>3 DEF Mail, Shapes, Idle, Admitted, Counted, Noticing
    <3> QED BY <3>1, <3>2 DEF Noticing
  <2> QED BY <2>1, <2>2, <2>3
<1> QED BY <1>1, <1>2 DEF AtWork, Uncharged, Overage

\* What came up to the limit leaves n - 1 others at work; what passes it owes.
LEMMA CountOwes ==
    ASSUME Shapes, CountersAgree, NEW r \in Requests, Count(r)
    PROVE  \E t \in Tenants :
              /\ r \in AtWork(t)
              /\ recorded' = [recorded EXCEPT ![<<t, period>>] = @ + 1]
              /\ AtWork(t)' = AtWork(t) \ {r}
              /\ Uncharged(t)' = IF policy[t] = "charge" /\ recorded[<<t, period>>] + 1 > Limit
                                 THEN Uncharged(t) \cup {r} ELSE Uncharged(t)
              /\ \A u \in Tenants \ {t} : AtWork(u)' = AtWork(u) /\ Uncharged(u)' = Uncharged(u)
<1>0. PICK t \in Tenants : t = request[r].tenant /\ request[r].pc = "admitted"
  BY DEF Count, Shapes, Idle, Admitted, Counted, Noticing
<1>1. PICK key \in Counters : key = <<t, period>> /\ key[1] = t
  <2>1. <<t, period>> \in Counters
    BY DEF Shapes, Counters
  <2> QED BY <2>1
<1>2. /\ request' = [request EXCEPT ![r] =
                       [pc |-> "counted", key |-> key, used |-> recorded[key] + 1]]
      /\ recorded' = [recorded EXCEPT ![key] = @ + 1]
      /\ UNCHANGED policy
  BY <1>0, <1>1 DEF Count, CountersAgree
<1>3. /\ request'[r] = [pc |-> "counted", key |-> key, used |-> recorded[key] + 1]
      /\ \A q \in Requests : q # r => request'[q] = request[q]
  BY <1>2 DEF Shapes
<1>4. AtWork(t)' = AtWork(t) \ {r} /\ r \in AtWork(t)
  BY <1>0, <1>3 DEF AtWork
<1>5. r \notin Uncharged(t)
  BY <1>0 DEF Uncharged
<1>6. Uncharged(t)' = IF policy[t] = "charge" /\ recorded[key] + 1 > Limit
                      THEN Uncharged(t) \cup {r} ELSE Uncharged(t)
  <2>1. ASSUME NEW q \in Requests, q # r PROVE q \in Uncharged(t)' <=> q \in Uncharged(t)
    BY <1>2, <1>3, <2>1 DEF Uncharged, Overage
  <2>2. r \in Uncharged(t)' <=> policy[t] = "charge" /\ recorded[key] + 1 > Limit
    BY <1>1, <1>2, <1>3 DEF Uncharged, Overage
  <2>3. Uncharged(t) \subseteq Requests /\ Uncharged(t)' \subseteq Requests
    BY DEF Uncharged
  <2> QED BY <1>5, <2>1, <2>2, <2>3
<1>7. ASSUME NEW u \in Tenants \ {t} PROVE AtWork(u)' = AtWork(u) /\ Uncharged(u)' = Uncharged(u)
  <2>1. AtWork(u)' = AtWork(u)
    BY <1>0, <1>3 DEF AtWork
  <2>2. r \notin Uncharged(u) /\ r \notin Uncharged(u)'
    BY <1>0, <1>1, <1>3 DEF Uncharged
  <2>3. \A q \in Requests : q # r => (q \in Uncharged(u)' <=> q \in Uncharged(u))
    BY <1>2, <1>3 DEF Uncharged, Overage
  <2>4. Uncharged(u) \subseteq Requests /\ Uncharged(u)' \subseteq Requests
    BY DEF Uncharged
  <2> QED BY <2>1, <2>2, <2>3, <2>4
<1> QED BY <1>1, <1>2, <1>4, <1>6, <1>7

LEMMA InitBalanceInv == Init => BalanceInv
<1> SUFFICES ASSUME Init PROVE BalanceInv
  OBVIOUS
<1>1. \A t \in Tenants : balance[t] = InitialBalance /\ Uncharged(t) = {}
  BY DEF Init, Uncharged, Idle
<1>2. /\ balance \in [Tenants -> Int] /\ InitialBalance \in Nat
      /\ \A t \in Tenants, p \in Periods : recorded[<<t, p>>] = 0
  BY TariffAssumption DEF Init, Counters
<1>3. period = 1 /\ period \in Periods
  BY BoundsAssumption DEF Init, Periods
<1>4. (period - 1) * Overlap = 0
  BY <1>3, OwingFinite
<1>5. ASSUME NEW t \in Tenants
      PROVE  /\ balance[t] >= 0
             /\ \A p \in Periods : p > period => recorded[<<t, p>>] = 0
             /\ balance[t] >= (period - 1) * Overlap + Cardinality(Uncharged(t))
             /\ ~(recorded[<<t, period>>] >= Limit)
  <2>1. Cardinality(Uncharged(t)) = 0
    BY <1>1, FS_EmptySet
  <2>2. balance[t] >= 0 /\ balance[t] \in Nat
    BY <1>1, <1>2
  <2>3. recorded[<<t, period>>] = 0 /\ Limit \in Nat \ {0}
    BY <1>2, <1>3, TariffAssumption
  <2> QED BY <1>2, <1>4, <2>1, <2>2, <2>3
<1> QED BY <1>2, <1>5 DEF BalanceInv

LEMMA StepBalanceInv == Shapes /\ LimitInv /\ BalanceInv /\ [Next]_vars => BalanceInv'
<1> SUFFICES ASSUME Shapes, LimitInv, BalanceInv, [Next]_vars PROVE BalanceInv'
  OBVIOUS
<1> USE DEF counterVars, copyVars, noticeVars
<1>1. faults'["redis_loss"] = 0 => faults["redis_loss"] = 0
  <2>1. \A kind \in FaultKinds :
             Fault(kind) => (faults'["redis_loss"] = 0 => faults["redis_loss"] = 0)
    BY FaultStep DEF Shapes, FaultKinds
  <2> QED
    BY <2>1 DEF Next, Message, SyncRun, Admit, Block, Count, MarkDirty, Notice, Mail,
       Charge, MessageFails, SyncStart, SyncRead, SyncWrite, Written, SyncFails, Restart, RedisLoss, NextMonth,
       vars, FaultKinds
<1>2. /\ period \in Nat /\ period - 1 \in Nat /\ balance \in [Tenants -> Int]
      /\ \A t \in Tenants : <<t, period>> \in Counters /\ recorded[<<t, period>>] \in Nat
      /\ Limit \in Nat \ {0}
  BY BoundsAssumption, TariffAssumption DEF Shapes, Periods, Counters, BalanceInv
<1>3. PICK m \in Int, n \in Int, d \in Int :
        /\ m = (period - 1) * Overlap /\ n = period * Overlap /\ d = Overlap
        /\ m <= 0 /\ n <= 0 /\ d <= 0 /\ n = m + d
  <2>1. (period - 1) + 1 = period
    BY <1>2
  <2> QED BY <1>2, <2>1, MonthOfOverlap, OwingFinite
<1>4. faults["redis_loss"] = 0 => CountersAgree
  BY DEF LimitInv
<1>5. ASSUME NEW r \in Requests, NEW t \in Tenants, Admit(r, t) PROVE BalanceInv'
  <2>1. /\ UNCHANGED <<policy, period, recorded, balance>>
        /\ request'[r] = [pc |-> "admitted", tenant |-> t]
        /\ request[r] = Idle /\ \A q \in Requests : q # r => request'[q] = request[q]
    BY <1>5 DEF Admit, Shapes
  <2>2. \A u \in Tenants : Uncharged(u)' = Uncharged(u)
    <3>1. ASSUME NEW u \in Tenants, NEW q \in Requests PROVE q \in Uncharged(u)' <=> q \in Uncharged(u)
      BY <2>1 DEF Uncharged, Overage, Idle
    <3>2. \A u \in Tenants : Uncharged(u) \subseteq Requests /\ Uncharged(u)' \subseteq Requests
      BY DEF Uncharged
    <3> QED BY <3>1, <3>2
  <2>3. \A u \in Tenants : u # t => AtWork(u)' = AtWork(u)
    BY <2>1 DEF AtWork, Idle
  <2>4. ASSUME NEW u \in Tenants, faults["redis_loss"] = 0, policy[u] = "charge",
               recorded[<<u, period>>] >= Limit
        PROVE  balance[u] >= n + Cardinality(Owing(u)')
    <3>1. CASE u = t
      <4>1. Used(t) = recorded[<<t, period>>]
        BY <1>2, <1>4, <2>4 DEF Used, CountersAgree, Shapes
      <4>2. balance[t] >= 1
        BY <1>2, <1>5, <2>4, <3>1, <4>1 DEF Admit, MaySend
      <4>3. Owing(u)' \subseteq Requests
        BY DEF Owing, AtWork, Uncharged
      <4>4. Cardinality(Owing(u)') \in Nat /\ Cardinality(Owing(u)') <= Cardinality(Requests)
        BY <4>3, RequestsAssumption, FS_Subset, FS_CardinalityType
      <4>5. d = 1 - Cardinality(Requests) /\ Cardinality(Requests) \in Nat
        BY <1>3, AtWorkFinite DEF Overlap
      <4> QED BY <1>2, <1>3, <3>1, <4>2, <4>4, <4>5
    <3>2. CASE u # t
      BY <1>3, <2>2, <2>3, <2>4, <3>2 DEF Owing, BalanceInv
    <3> QED BY <3>1, <3>2
  <2> QED BY <1>1, <1>3, <2>1, <2>2, <2>4 DEF BalanceInv
<1>6. ASSUME NEW r \in Requests, Block(r) \/ MessageFails(r) PROVE BalanceInv'
  <2>1. UNCHANGED <<policy, period, recorded, balance>>
    BY <1>6 DEF Block, MessageFails
  <2>2. \A q \in Requests : request'[q] \in {request[q], Idle}
    BY <1>6 DEF Block, MessageFails, Shapes
  <2>3. \A t \in Tenants : AtWork(t)' \subseteq AtWork(t) /\ Uncharged(t)' \subseteq Uncharged(t)
    BY <2>1, <2>2 DEF AtWork, Uncharged, Overage, Idle
  <2> QED BY <1>1, <2>1, <2>3, BalanceStays
<1>7. ASSUME NEW r \in Requests, MarkDirty(r) \/ Notice(r) \/ Mail(r) PROVE BalanceInv'
  <2>1. UNCHANGED <<policy, period, recorded, balance>>
    BY <1>7 DEF MarkDirty, Notice, Mail
  <2> QED BY <1>1, <1>7, <2>1, BalanceStays, UnchargedStays
<1>8. ASSUME NEW r \in Requests, Count(r) PROVE BalanceInv'
  <2>1. UNCHANGED <<policy, period, balance, faults>>
    BY <1>8 DEF Count
  <2>2. CASE faults["redis_loss"] # 0
    BY <2>1, <2>2 DEF BalanceInv
  <2>3. CASE faults["redis_loss"] = 0
    <3>1. PICK t \in Tenants :
              /\ r \in AtWork(t)
              /\ recorded' = [recorded EXCEPT ![<<t, period>>] = @ + 1]
              /\ AtWork(t)' = AtWork(t) \ {r}
              /\ Uncharged(t)' = IF policy[t] = "charge" /\ recorded[<<t, period>>] + 1 > Limit
                                 THEN Uncharged(t) \cup {r} ELSE Uncharged(t)
              /\ \A u \in Tenants \ {t} : AtWork(u)' = AtWork(u) /\ Uncharged(u)' = Uncharged(u)
      BY <1>4, <1>8, <2>3, CountOwes
    <3>2. \A u \in Tenants, p \in Periods : u # t \/ p # period => recorded'[<<u, p>>] = recorded[<<u, p>>]
      BY <3>1 DEF Shapes, Counters
    <3>3. recorded'[<<t, period>>] = recorded[<<t, period>>] + 1
      BY <1>2, <3>1 DEF Shapes
    <3>4. ASSUME policy[t] = "charge"
          PROVE  /\ recorded'[<<t, period>>] < Limit => balance[t] >= m + Cardinality(Uncharged(t)')
                 /\ recorded'[<<t, period>>] >= Limit => balance[t] >= n + Cardinality(Owing(t)')
      <4>0. /\ recorded[<<t, period>>] < Limit => balance[t] >= m + Cardinality(Uncharged(t))
            /\ recorded[<<t, period>>] >= Limit => balance[t] >= n + Cardinality(Owing(t))
        BY <1>3, <2>3, <3>4 DEF BalanceInv
      <4>1. CASE recorded'[<<t, period>>] < Limit
        BY <1>2, <3>1, <3>3, <4>0, <4>1
      <4>2. CASE recorded'[<<t, period>>] = Limit
        <5>1. Uncharged(t)' = Uncharged(t) /\ recorded[<<t, period>>] < Limit
          BY <1>2, <3>1, <3>3, <4>2
        <5>2. Owing(t)' = (AtWork(t) \ {r}) \cup Uncharged(t)
          BY <3>1, <5>1 DEF Owing
        <5>3. /\ IsFiniteSet(AtWork(t) \ {r}) /\ Cardinality(AtWork(t) \ {r}) \in Nat
              /\ Cardinality(AtWork(t) \ {r}) <= Cardinality(Requests) - 1
          <6>1. /\ IsFiniteSet(AtWork(t) \ {r})
                /\ Cardinality(AtWork(t) \ {r}) = Cardinality(AtWork(t)) - 1
            BY <3>1, AtWorkFinite, FS_RemoveElement
          <6> QED BY <6>1, AtWorkFinite, FS_CardinalityType
        <5>4. /\ Cardinality(Owing(t)') \in Nat
              /\ Cardinality(Owing(t)') <= Cardinality(AtWork(t) \ {r}) + Cardinality(Uncharged(t))
          <6>1. /\ IsFiniteSet(Owing(t)')
                /\ Cardinality(Owing(t)') =
                     Cardinality(AtWork(t) \ {r}) + Cardinality(Uncharged(t))
                       - Cardinality((AtWork(t) \ {r}) \cap Uncharged(t))
            BY <5>2, <5>3, OwingFinite, FS_Union
          <6>2. Cardinality((AtWork(t) \ {r}) \cap Uncharged(t)) \in Nat
            BY <5>3, FS_Intersection, FS_CardinalityType
          <6> QED BY <5>3, <6>1, <6>2, OwingFinite, FS_CardinalityType
        <5>5. d = 1 - Cardinality(Requests) /\ Cardinality(Requests) \in Nat
          BY <1>3, AtWorkFinite DEF Overlap
        <5> QED BY <1>2, <1>3, <4>0, <4>2, <5>1, <5>3, <5>4, <5>5, OwingFinite
      <4>3. CASE recorded'[<<t, period>>] > Limit
        <5>1. Owing(t)' = Owing(t) /\ recorded[<<t, period>>] >= Limit
          BY <1>2, <3>1, <3>3, <3>4, <4>3 DEF Owing
        <5> QED BY <1>2, <3>3, <4>0, <4>3, <5>1
      <4> QED BY <1>2, <3>3, <4>1, <4>2, <4>3
    <3>5. ASSUME NEW u \in Tenants, policy[u] = "charge"
          PROVE  /\ \A p \in Periods : p > period => recorded'[<<u, p>>] = 0
                 /\ recorded'[<<u, period>>] < Limit => balance[u] >= m + Cardinality(Uncharged(u)')
                 /\ recorded'[<<u, period>>] >= Limit => balance[u] >= n + Cardinality(Owing(u)')
      <4>1. \A p \in Periods : p > period => recorded'[<<u, p>>] = 0
        <5>1. \A p \in Periods : p > period => p # period
          BY <1>2 DEF Periods
        <5> QED BY <2>3, <3>2, <3>5, <5>1 DEF BalanceInv
      <4>2. CASE u = t
        BY <3>4, <3>5, <4>1, <4>2
      <4>3. CASE u # t
        <5>1. Owing(u)' = Owing(u) /\ Uncharged(u)' = Uncharged(u)
          BY <3>1, <4>3 DEF Owing
        <5>2. recorded'[<<u, period>>] = recorded[<<u, period>>]
          BY <3>2, <4>3 DEF Shapes
        <5> QED BY <1>3, <2>3, <3>5, <4>1, <5>1, <5>2 DEF BalanceInv
      <4> QED BY <4>2, <4>3
    <3> QED BY <1>3, <2>1, <2>3, <3>5 DEF BalanceInv
  <2> QED BY <2>2, <2>3
<1>9. ASSUME NEW r \in Requests, Charge(r) PROVE BalanceInv'
  <2>1. /\ UNCHANGED <<policy, period, recorded, faults>>
        /\ request'[r] = Idle /\ \A q \in Requests : q # r => request'[q] = request[q]
    BY <1>9 DEF Charge, Shapes
  <2>2. \A u \in Tenants : AtWork(u)' \subseteq AtWork(u) /\ Uncharged(u)' = Uncharged(u) \ {r}
    <3>1. ASSUME NEW u \in Tenants, NEW q \in Requests
          PROVE  q \in Uncharged(u)' <=> q # r /\ q \in Uncharged(u)
      BY <2>1 DEF Uncharged, Overage, Idle
    <3>2. \A u \in Tenants : Uncharged(u) \subseteq Requests /\ Uncharged(u)' \subseteq Requests
      BY DEF Uncharged
    <3>3. \A u \in Tenants : AtWork(u)' \subseteq AtWork(u)
      BY <2>1 DEF AtWork, Idle
    <3> QED BY <3>1, <3>2, <3>3
  <2>3. CASE ~Overage(r)
    BY <1>1, <1>9, <2>1, <2>2, <2>3, BalanceStays DEF Charge
  <2>4. CASE Overage(r)
    <3>1. PICK t \in Tenants : t = request[r].key[1] /\ r \in Uncharged(t)
      <4>1. request[r] \in Noticing /\ request[r].pc = "noticing"
        BY <1>9 DEF Charge, Shapes, Idle, Admitted, Counted, Noticing
      <4>2. request[r].key[1] \in Tenants
        BY <4>1 DEF Noticing, Counters
      <4> QED BY <2>4, <4>1, <4>2 DEF Uncharged
    <3>2. /\ balance' \in [Tenants -> Int] /\ balance'[t] = balance[t] - 1
          /\ \A u \in Tenants : u # t => balance'[u] = balance[u]
      BY <1>2, <1>9, <2>4, <3>1 DEF Charge
    <3>3. policy[t] = "charge"
      BY <2>4, <3>1 DEF Overage
    <3>4. Cardinality(Uncharged(t)') = Cardinality(Uncharged(t)) - 1
      BY <2>2, <3>1, OwingFinite, FS_RemoveElement
    <3>5. Cardinality(Owing(t)') <= Cardinality(Owing(t)) - 1 /\ Cardinality(Owing(t)') \in Nat
      <4>1. Owing(t)' \subseteq Owing(t) \ {r} /\ r \in Owing(t)
        <5>1. r \notin AtWork(t)'
          BY <2>1 DEF AtWork, Idle
        <5> QED BY <2>2, <3>1, <5>1 DEF Owing
      <4>2. IsFiniteSet(Owing(t) \ {r}) /\ Cardinality(Owing(t) \ {r}) = Cardinality(Owing(t)) - 1
        BY <4>1, OwingFinite, FS_RemoveElement
      <4> QED BY <4>1, <4>2, FS_Subset, FS_CardinalityType
    <3>6. ASSUME NEW u \in Tenants, u # t
          PROVE  /\ Cardinality(Uncharged(u)') <= Cardinality(Uncharged(u))
                 /\ Cardinality(Owing(u)') <= Cardinality(Owing(u))
                 /\ Cardinality(Uncharged(u)') \in Nat /\ Cardinality(Owing(u)') \in Nat
      <4>1. Owing(u)' \subseteq Owing(u) /\ Uncharged(u)' \subseteq Uncharged(u)
        BY <2>2 DEF Owing
      <4> QED BY <4>1, OwingFinite, FS_Subset, FS_CardinalityType
    <3>7. ASSUME NEW u \in Tenants, faults["redis_loss"] = 0, policy[u] = "charge"
          PROVE  /\ recorded[<<u, period>>] < Limit => balance'[u] >= m + Cardinality(Uncharged(u)')
                 /\ recorded[<<u, period>>] >= Limit => balance'[u] >= n + Cardinality(Owing(u)')
      <4>1. /\ recorded[<<u, period>>] < Limit => balance[u] >= m + Cardinality(Uncharged(u))
            /\ recorded[<<u, period>>] >= Limit => balance[u] >= n + Cardinality(Owing(u))
        BY <1>3, <3>7 DEF BalanceInv
      <4>2. balance[u] \in Int /\ Cardinality(Uncharged(u)) \in Nat /\ Cardinality(Owing(u)) \in Nat
        BY <1>2, OwingFinite
      <4> QED BY <1>2, <1>3, <3>2, <3>4, <3>5, <3>6, <4>1, <4>2
    <3> QED BY <1>3, <2>1, <3>2, <3>3, <3>7 DEF BalanceInv
  <2> QED BY <2>3, <2>4
<1>10. ASSUME NEW s \in Syncs, SyncRun(s) PROVE BalanceInv'
  <2>1. UNCHANGED <<policy, period, recorded, balance, request>>
    BY <1>10 DEF SyncRun, SyncStart, SyncRead, SyncWrite, Written, SyncFails
  <2> QED BY <1>1, <2>1, BalanceStays DEF AtWork, Uncharged, Overage
<1>11. ASSUME Restart \/ RedisLoss PROVE BalanceInv'
  <2>1. UNCHANGED <<policy, period, recorded, balance>>
    BY <1>11 DEF Restart, RedisLoss
  <2>2. \A q \in Requests : request'[q] \in {request[q], Idle}
    BY <1>11 DEF Restart, RedisLoss
  <2>3. \A t \in Tenants : AtWork(t)' \subseteq AtWork(t) /\ Uncharged(t)' \subseteq Uncharged(t)
    BY <2>1, <2>2 DEF AtWork, Uncharged, Overage, Idle
  <2> QED BY <1>1, <2>1, <2>3, BalanceStays
<1>12. ASSUME NextMonth PROVE BalanceInv'
  <2>1. /\ period' = period + 1 /\ period' \in Periods
        /\ UNCHANGED <<policy, recorded, balance, request, faults>>
    BY <1>12, BoundsAssumption DEF NextMonth, Shapes, Periods
  <2>2. \A t \in Tenants : Uncharged(t)' = Uncharged(t)
    BY <2>1 DEF Uncharged, Overage
  <2>3. ASSUME NEW t \in Tenants, faults["redis_loss"] = 0, policy[t] = "charge"
        PROVE  /\ \A p \in Periods : p > period + 1 => recorded[<<t, p>>] = 0
               /\ recorded[<<t, period + 1>>] = 0
               /\ balance[t] >= n + Cardinality(Uncharged(t))
    <3>1. \A p \in Periods : p > period => recorded[<<t, p>>] = 0
      BY <2>3 DEF BalanceInv
    <3>2. /\ recorded[<<t, period>>] < Limit => balance[t] >= m + Cardinality(Uncharged(t))
          /\ recorded[<<t, period>>] >= Limit => balance[t] >= n + Cardinality(Owing(t))
      BY <1>3, <2>3 DEF BalanceInv
    <3>3. balance[t] >= n + Cardinality(Uncharged(t))
      BY <1>2, <1>3, <3>2, OwingFinite
    <3>4. \A p \in Periods : p > period + 1 => p > period
      BY <1>2 DEF Periods
    <3> QED BY <1>2, <2>1, <3>1, <3>3, <3>4
  <2>4. (period + 1) - 1 = period
    BY <1>2
  <2> QED BY <1>2, <1>3, <2>1, <2>2, <2>3, <2>4 DEF BalanceInv
<1>13. ASSUME UNCHANGED vars PROVE BalanceInv'
  BY <1>1, <1>13, BalanceStays DEF vars, AtWork, Uncharged, Overage
<1> QED
  BY <1>5, <1>6, <1>7, <1>8, <1>9, <1>10, <1>11, <1>12, <1>13 DEF Next, Message

\* For any number of messages at work, months, restarts and failing copies, a
\* tenant's balance is overdrawn by n - 1 messages a month at most, while Redis
\* keeps its data.
THEOREM OverdraftTheorem == Spec => []OverdraftBounded
<1>1. Init => Shapes /\ LimitInv /\ BalanceInv
  BY InitShapes, InitLimitInv, InitBalanceInv
<1>2. Shapes /\ LimitInv /\ BalanceInv /\ [Next]_vars => Shapes' /\ LimitInv' /\ BalanceInv'
  BY StepShapes, StepLimitInv, StepBalanceInv
<1>3. Shapes /\ BalanceInv => OverdraftBounded
  <2> SUFFICES ASSUME Shapes, BalanceInv, faults["redis_loss"] = 0, NEW t \in Tenants
               PROVE  balance[t] >= period * Overlap
    BY DEF OverdraftBounded, None, Overlap
  <2>1. period \in Nat /\ period - 1 \in Nat /\ balance[t] \in Int /\ (period - 1) + 1 = period
    BY BoundsAssumption DEF Shapes, Periods, BalanceInv
  <2>2. PICK m \in Int, n \in Int, d \in Int :
          /\ m = (period - 1) * Overlap /\ n = period * Overlap /\ d = Overlap
          /\ m <= 0 /\ n <= 0 /\ d <= 0 /\ n = m + d
    BY <2>1, MonthOfOverlap, OwingFinite
  <2>3. <<t, period>> \in Counters /\ recorded[<<t, period>>] \in Nat /\ Limit \in Nat
    BY TariffAssumption DEF Shapes, Counters
  <2>4. CASE policy[t] # "charge"
    BY <2>1, <2>2, <2>4 DEF BalanceInv
  <2>5. CASE policy[t] = "charge"
    <3>1. /\ recorded[<<t, period>>] < Limit => balance[t] >= m + Cardinality(Uncharged(t))
          /\ recorded[<<t, period>>] >= Limit => balance[t] >= n + Cardinality(Owing(t))
      BY <2>2, <2>5 DEF BalanceInv
    <3> QED BY <2>1, <2>2, <2>3, <3>1, OwingFinite
  <2> QED BY <2>4, <2>5
<1> QED BY <1>1, <1>2, <1>3, PTL DEF Spec

-----------------------------------------------------------------------------
(* The charges. Each message past the limit is one element of PastLimit: it  *)
(* enters with its count and is owed from then until it is charged.          *)

ChargesKept == None({"redis_loss", "restart", "message_error"})

Balanced(t) ==
    /\ IsFiniteSet(PastLimit(t))
    /\ InitialBalance - balance[t] + Cardinality(Uncharged(t)) = Cardinality(PastLimit(t))

ChargedInv == ChargesKept => \A t \in Tenants : policy[t] = "charge" => Balanced(t)

PastOf(f, t) == UNION {{<<p, i>> : i \in (Limit + 1)..f[<<t, p>>]} : p \in Periods}

IsPast(f, t, x) == \E p \in Periods : \E i \in (Limit + 1)..f[<<t, p>>] : x = <<p, i>>

LEMMA NumberedPast ==
    ASSUME NEW f, NEW t, NEW x
    PROVE  x \in PastOf(f, t) <=> IsPast(f, t, x)
<1> DEFINE Past(p) == {<<p, i>> : i \in (Limit + 1)..f[<<t, p>>]}
<1>1. \A p : x \in Past(p) <=> \E i \in (Limit + 1)..f[<<t, p>>] : x = <<p, i>>
  OBVIOUS
<1> HIDE DEF Past
<1>2. x \in UNION {Past(p) : p \in Periods} <=> \E p \in Periods : x \in Past(p)
  OBVIOUS
<1> QED BY <1>1, <1>2 DEF Past, PastOf, IsPast

LEMMA InPastLimit ==
    ASSUME NEW t, NEW x
    PROVE  /\ x \in PastLimit(t) <=> IsPast(recorded, t, x)
           /\ x \in PastLimit(t)' <=> IsPast(recorded', t, x)
<1>1. PastLimit(t)' = PastOf(recorded', t) /\ PastLimit(t) = PastOf(recorded, t)
  BY DEF PastLimit, PastOf
<1> QED BY <1>1, NumberedPast

\* The same messages are past the limit when none of a tenant's is counted.
LEMMA PastLimitStays ==
    ASSUME NEW t, \A p \in Periods :
             (Limit + 1)..recorded'[<<t, p>>] = (Limit + 1)..recorded[<<t, p>>]
    PROVE  PastLimit(t)' = PastLimit(t)
<1>1. ASSUME NEW x PROVE x \in PastLimit(t)' <=> x \in PastLimit(t)
  BY InPastLimit DEF IsPast
<1> QED BY <1>1

\* The message that is counted is past the limit, or nobody is.
LEMMA CountPastLimit ==
    ASSUME Shapes, NEW t \in Tenants, <<t, period>> \in Counters,
           recorded' = [recorded EXCEPT ![<<t, period>>] = @ + 1]
    PROVE  /\ \A u \in Tenants : u # t => PastLimit(u)' = PastLimit(u)
           /\ recorded[<<t, period>>] + 1 > Limit =>
                 /\ PastLimit(t)' = PastLimit(t) \cup {<<period, recorded[<<t, period>>] + 1>>}
                 /\ <<period, recorded[<<t, period>>] + 1>> \notin PastLimit(t)
           /\ recorded[<<t, period>>] + 1 <= Limit => PastLimit(t)' = PastLimit(t)
<1> DEFINE n == recorded[<<t, period>>]
<1>1. /\ n \in Nat /\ Limit \in Nat /\ period \in Periods
      /\ \A u \in Tenants, p \in Periods :
            recorded'[<<u, p>>] = IF u = t /\ p = period THEN n + 1 ELSE recorded[<<u, p>>]
  BY TariffAssumption DEF Shapes, Counters
<1>2. ASSUME NEW u \in Tenants, u # t PROVE PastLimit(u)' = PastLimit(u)
  <2>1. \A p \in Periods : recorded'[<<u, p>>] = recorded[<<u, p>>]
    BY <1>1, <1>2
  <2> QED BY <2>1, PastLimitStays
<1>3. \A p \in Periods : p # period => recorded'[<<t, p>>] = recorded[<<t, p>>]
  BY <1>1
<1>4. recorded'[<<t, period>>] = n + 1
  BY <1>1
<1>6. ASSUME n + 1 > Limit PROVE PastLimit(t)' = PastLimit(t) \cup {<<period, n + 1>>}
  <2>1. (Limit + 1)..(n + 1) = ((Limit + 1)..n) \cup {n + 1}
    BY <1>1, <1>6
  <2>2. ASSUME NEW x PROVE x \in PastLimit(t)' <=> x \in PastLimit(t) \cup {<<period, n + 1>>}
    <3>1. ASSUME NEW p \in Periods, NEW i \in (Limit + 1)..recorded'[<<t, p>>], x = <<p, i>>
          PROVE  x \in PastLimit(t) \cup {<<period, n + 1>>}
      <4>1. CASE p = period
        BY <1>4, <2>1, <3>1, <4>1, InPastLimit DEF IsPast
      <4>2. CASE p # period
        BY <1>3, <3>1, <4>2, InPastLimit DEF IsPast
      <4> QED BY <4>1, <4>2
    <3>2. ASSUME NEW p \in Periods, NEW i \in (Limit + 1)..recorded[<<t, p>>], x = <<p, i>>
          PROVE  x \in PastLimit(t)'
      <4>1. i \in (Limit + 1)..recorded'[<<t, p>>]
        BY <1>3, <1>4, <2>1, <3>2
      <4> QED BY <3>2, <4>1, InPastLimit DEF IsPast
    <3>3. <<period, n + 1>> \in PastLimit(t)'
      <4>1. n + 1 \in (Limit + 1)..recorded'[<<t, period>>]
        BY <1>4, <2>1
      <4> QED BY <1>1, <4>1, InPastLimit DEF IsPast
    <3>4. x \in PastLimit(t) => x \in PastLimit(t)'
      BY <3>2, InPastLimit DEF IsPast
    <3>5. x \in PastLimit(t)' => x \in PastLimit(t) \cup {<<period, n + 1>>}
      <4> SUFFICES ASSUME x \in PastLimit(t)' PROVE x \in PastLimit(t) \cup {<<period, n + 1>>}
        OBVIOUS
      <4>0. IsPast(recorded', t, x)
        BY InPastLimit
      <4>1. PICK p \in Periods : \E i \in (Limit + 1)..recorded'[<<t, p>>] : x = <<p, i>>
        BY <4>0, Zenon DEF IsPast
      <4> QED BY <3>1, <4>1
    <3> QED BY <3>3, <3>4, <3>5
  <2> QED BY <2>2
<1>7. ASSUME n + 1 <= Limit PROVE PastLimit(t)' = PastLimit(t)
  <2>1. (Limit + 1)..(n + 1) = {} /\ (Limit + 1)..n = {}
    BY <1>1, <1>7
  <2>2. \A p \in Periods : (Limit + 1)..recorded'[<<t, p>>] = (Limit + 1)..recorded[<<t, p>>]
    BY <1>3, <1>4, <2>1
  <2> QED BY <2>2, PastLimitStays
<1>8. <<period, n + 1>> \notin PastLimit(t)
  <2> SUFFICES ASSUME NEW p \in Periods, NEW i \in (Limit + 1)..recorded[<<t, p>>],
                      <<period, n + 1>> = <<p, i>>
               PROVE  FALSE
    BY InPastLimit DEF IsPast
  <2>1. p = period /\ i = n + 1 /\ i \in (Limit + 1)..n
    OBVIOUS
  <2> QED BY <1>1, <2>1
<1> QED BY <1>2, <1>6, <1>7, <1>8

LEMMA StepChargedInv ==
    Shapes /\ LimitInv /\ BalanceInv /\ ChargedInv /\ [Next]_vars => ChargedInv'
<1> SUFFICES ASSUME Shapes, LimitInv, BalanceInv, ChargedInv, [Next]_vars, ChargesKept',
                    NEW t \in Tenants, policy'[t] = "charge"
             PROVE  Balanced(t)'
  BY DEF ChargedInv
<1> USE DEF counterVars, copyVars, noticeVars
<1>0. ASSUME NEW kind, Fault(kind)
      PROVE  kind \notin {"redis_loss", "restart", "message_error"} /\ ChargesKept
  <2>1. \A f \in FaultKinds : faults'[f] = IF f = kind THEN faults[f] + 1 ELSE faults[f]
    BY <1>0, FaultStep DEF Shapes
  <2>2. kind \in FaultKinds /\ \A f \in FaultKinds : faults[f] \in Nat
    BY <1>0, BoundsAssumption DEF Fault, Shapes
  <2>3. {"redis_loss", "restart", "message_error"} \subseteq FaultKinds
    BY DEF FaultKinds
  <2> QED BY <2>1, <2>2, <2>3 DEF ChargesKept, None
<1>1. ChargesKept /\ UNCHANGED policy
  <2>1. UNCHANGED faults => ChargesKept
    BY DEF ChargesKept, None
  <2> QED
    BY <1>0, <2>1 DEF Next, Message, SyncRun, Admit, Block, Count, MarkDirty, Notice, Mail,
       Charge, MessageFails, SyncStart, SyncRead, SyncWrite, Written, SyncFails, Restart, RedisLoss, NextMonth,
       vars
<1>2. policy[t] = "charge" /\ Balanced(t)
  BY <1>1 DEF ChargedInv
<1>3. ASSUME UNCHANGED <<recorded, balance>>, Uncharged(t)' = Uncharged(t) PROVE Balanced(t)'
  BY <1>2, <1>3 DEF Balanced, PastLimit
<1>4. ASSUME UNCHANGED <<recorded, balance, request, policy>> PROVE Balanced(t)'
  BY <1>3, <1>4 DEF Uncharged, Overage
<1>5. ASSUME NEW r \in Requests, (\E u \in Tenants : Admit(r, u)) \/ Block(r) PROVE Balanced(t)'
  <2>1. /\ UNCHANGED <<recorded, balance, policy>>
        /\ request[r].pc \notin {"counted", "noticing", "mailing"}
        /\ request'[r].pc \notin {"counted", "noticing", "mailing"}
        /\ \A q \in Requests : q # r => request'[q] = request[q]
    BY <1>5 DEF Admit, Block, Shapes, Idle
  <2>2. Uncharged(t)' = Uncharged(t)
    <3>1. ASSUME NEW q \in Requests PROVE q \in Uncharged(t)' <=> q \in Uncharged(t)
      BY <2>1 DEF Uncharged, Overage
    <3>2. Uncharged(t) \subseteq Requests /\ Uncharged(t)' \subseteq Requests
      BY DEF Uncharged
    <3> QED BY <3>1, <3>2
  <2> QED BY <1>3, <2>1, <2>2
<1>6. ASSUME NEW r \in Requests, MarkDirty(r) \/ Notice(r) \/ Mail(r) PROVE Balanced(t)'
  <2>1. UNCHANGED <<recorded, balance>>
    BY <1>6 DEF MarkDirty, Notice, Mail
  <2> QED BY <1>3, <1>6, <2>1, UnchargedStays
<1>7. ASSUME NEW r \in Requests, Count(r) PROVE Balanced(t)'
  <2>1. CountersAgree /\ UNCHANGED balance /\ \A u \in Tenants : <<u, period>> \in Counters
    BY <1>1, <1>7 DEF LimitInv, ChargesKept, None, Count, Shapes, Counters
  <2>2. PICK u \in Tenants :
            /\ r \in AtWork(u)
            /\ recorded' = [recorded EXCEPT ![<<u, period>>] = @ + 1]
            /\ AtWork(u)' = AtWork(u) \ {r}
            /\ Uncharged(u)' = IF policy[u] = "charge" /\ recorded[<<u, period>>] + 1 > Limit
                               THEN Uncharged(u) \cup {r} ELSE Uncharged(u)
            /\ \A v \in Tenants \ {u} : AtWork(v)' = AtWork(v) /\ Uncharged(v)' = Uncharged(v)
    BY <1>7, <2>1, CountOwes
  <2>3. CASE t # u
    BY <1>2, <2>1, <2>2, <2>3, CountPastLimit DEF Balanced
  <2>4. CASE t = u /\ recorded[<<u, period>>] + 1 <= Limit
    <3>1. recorded[<<u, period>>] \in Nat /\ Limit \in Nat
      BY <2>1, TariffAssumption DEF Shapes
    <3>2. Uncharged(t)' = Uncharged(t)
      BY <2>2, <2>4, <3>1
    <3>3. PastLimit(t)' = PastLimit(t)
      BY <2>1, <2>2, <2>4, CountPastLimit
    <3> QED BY <1>2, <2>1, <3>2, <3>3 DEF Balanced
  <2>5. CASE t = u /\ recorded[<<u, period>>] + 1 > Limit
    <3>1. PICK x : PastLimit(t)' = PastLimit(t) \cup {x} /\ x \notin PastLimit(t)
      BY <2>1, <2>2, <2>5, CountPastLimit
    <3>2. IsFiniteSet(PastLimit(t)') /\ Cardinality(PastLimit(t)') = Cardinality(PastLimit(t)) + 1
      BY <1>2, <3>1, FS_AddElement DEF Balanced
    <3>3. Uncharged(t)' = Uncharged(t) \cup {r} /\ r \notin Uncharged(t)
      BY <1>2, <2>2, <2>5 DEF AtWork, Uncharged
    <3>4. Cardinality(Uncharged(t)') = Cardinality(Uncharged(t)) + 1
      BY <3>3, OwingFinite, FS_AddElement
    <3>5. balance[t] \in Int /\ InitialBalance \in Int /\ Cardinality(Uncharged(t)) \in Nat
          /\ Cardinality(PastLimit(t)) \in Nat
      BY <1>2, OwingFinite, FS_CardinalityType, TariffAssumption DEF BalanceInv, Balanced
    <3> QED BY <1>2, <2>1, <3>2, <3>4, <3>5 DEF Balanced
  <2>6. recorded[<<u, period>>] \in Nat /\ Limit \in Nat
    BY <2>1, TariffAssumption DEF Shapes
  <2> QED BY <2>3, <2>4, <2>5, <2>6
<1>8. ASSUME NEW r \in Requests, Charge(r) PROVE Balanced(t)'
  <2>1. /\ UNCHANGED <<recorded, policy>>
        /\ request'[r] = Idle /\ \A q \in Requests : q # r => request'[q] = request[q]
        /\ request[r] \in Noticing /\ request[r].pc = "noticing"
    BY <1>8 DEF Charge, Shapes, Idle, Admitted, Counted, Noticing
  <2>2. Uncharged(t)' = Uncharged(t) \ {r}
    <3>1. ASSUME NEW q \in Requests PROVE q \in Uncharged(t)' <=> q # r /\ q \in Uncharged(t)
      BY <2>1 DEF Uncharged, Overage, Idle
    <3>2. Uncharged(t) \subseteq Requests /\ Uncharged(t)' \subseteq Requests
      BY DEF Uncharged
    <3> QED BY <3>1, <3>2
  <2>3. CASE r \in Uncharged(t)
    <3>1. Overage(r) /\ request[r].key[1] = t
      BY <2>3 DEF Uncharged
    <3>2. balance'[t] = balance[t] - 1
      BY <1>8, <3>1 DEF Charge, BalanceInv
    <3>3. Cardinality(Uncharged(t)') = Cardinality(Uncharged(t)) - 1
      BY <2>2, <2>3, OwingFinite, FS_RemoveElement
    <3>4. balance[t] \in Int /\ InitialBalance \in Int /\ Cardinality(Uncharged(t)) \in Nat
      BY OwingFinite, TariffAssumption DEF BalanceInv
    <3>5. PastLimit(t)' = PastLimit(t)
      BY <2>1 DEF PastLimit
    <3> QED BY <1>2, <3>2, <3>3, <3>4, <3>5 DEF Balanced
  <2>4. CASE r \notin Uncharged(t)
    <3>1. ~(Overage(r) /\ request[r].key[1] = t)
      BY <2>1, <2>4 DEF Uncharged
    <3>2. balance'[t] = balance[t]
      BY <1>8, <3>1 DEF Charge, BalanceInv
    <3>3. PastLimit(t)' = PastLimit(t) /\ Uncharged(t)' = Uncharged(t)
      BY <2>1, <2>2, <2>4 DEF PastLimit
    <3> QED BY <1>2, <3>2, <3>3 DEF Balanced
  <2> QED BY <2>3, <2>4
<1>9. ASSUME NEW r \in Requests, MessageFails(r) PROVE Balanced(t)'
  BY <1>0, <1>9 DEF MessageFails
<1>10. ASSUME NEW s \in Syncs, SyncRun(s) PROVE Balanced(t)'
  BY <1>4, <1>10 DEF SyncRun, SyncStart, SyncRead, SyncWrite, Written, SyncFails
<1>11. ~Restart /\ ~RedisLoss
  BY <1>0 DEF Restart, RedisLoss
<1>12. ASSUME NextMonth \/ UNCHANGED vars PROVE Balanced(t)'
  BY <1>4, <1>12 DEF NextMonth, vars
<1> QED
  BY <1>5, <1>6, <1>7, <1>8, <1>9, <1>10, <1>11, <1>12 DEF Next, Message

\* Each message past the limit is charged exactly once, for any number of
\* messages at work, months and copies, unless a restart, an error or a lost
\* Redis takes one away (recordMessage, chargeOverage).
THEOREM OverageTheorem == Spec => []OverageIsCharged
<1>1. Init => ChargedInv
  <2> SUFFICES ASSUME Init, NEW t \in Tenants PROVE Balanced(t)
    BY DEF ChargedInv
  <2>1. \A p \in Periods : recorded[<<t, p>>] = 0
    BY DEF Init, Counters
  <2>2. (Limit + 1)..0 = {}
    BY TariffAssumption
  <2>3. PastLimit(t) = {} /\ Uncharged(t) = {}
    BY <2>1, <2>2 DEF Init, PastLimit, Uncharged, Idle
  <2>4. balance[t] = InitialBalance /\ InitialBalance \in Nat
    BY TariffAssumption DEF Init
  <2> QED BY <2>3, <2>4, FS_EmptySet DEF Balanced
<1>2. Init => Shapes /\ LimitInv /\ BalanceInv
  BY InitShapes, InitLimitInv, InitBalanceInv
<1>3. Shapes /\ LimitInv /\ BalanceInv /\ ChargedInv /\ [Next]_vars =>
         Shapes' /\ LimitInv' /\ BalanceInv' /\ ChargedInv'
  BY StepShapes, StepLimitInv, StepBalanceInv, StepChargedInv
<1>4. ChargedInv => OverageIsCharged
  BY DEF ChargedInv, ChargesKept, Balanced, OverageIsCharged
<1> QED BY <1>1, <1>2, <1>3, <1>4, PTL DEF Spec

-----------------------------------------------------------------------------
(* The copy to Postgres. Nothing keeps the cron from starting a copy while   *)
(* the one of the minute before is under way: two copies may hold different  *)
(* counts of one counter, and they write in any order.                       *)

LEMMA WritingIsBusy ==
    ASSUME NEW s \in Syncs, sync[s] \in Writing
    PROVE  ~SyncIdle(s)
<1>1. "key" \in DOMAIN sync[s]
  BY DEF Writing
<1>2. "key" \notin DOMAIN NoSync
  BY DEF NoSync
<1> QED BY <1>1, <1>2 DEF SyncIdle

\* On whose list a counter is that is still to be read.
Listed(k) ==
    \/ k \in dirty
    \/ \E s \in Syncs : k \in sync[s].left
    \/ \E r \in Requests : request[r].pc = "counted" /\ request[r].key = k

\* ... or the count as it stands is in the hands of a copy.
Fresh(k) ==
    \/ Listed(k)
    \/ \E s \in Syncs : sync[s] \in Writing /\ sync[s].key = k /\ sync[s].count = redis[k]

\* Without a fault that empties a list, a row that does not show the count, and
\* a copy that does not hold it, will be followed by one that does, unless it
\* has been already.
Undisturbed == None({"redis_loss", "restart", "sync_error", "message_error"})

CountsListed == \A k \in Counters : db[k] # redis[k] => Fresh(k) \/ k \in late

WritesListed ==
    \A s \in Syncs : \A k \in Counters :
        sync[s] \in Writing /\ sync[s].key = k /\ sync[s].count # redis[k]
          => Fresh(k) \/ s \in overtaken

ListedInv == Undisturbed => CountsListed /\ WritesListed

LEMMA StepListedInv ==
    Shapes /\ LimitInv /\ ListedInv /\ [Next]_vars => ListedInv'
<1> SUFFICES ASSUME Shapes, LimitInv, ListedInv, [Next]_vars, Undisturbed'
             PROVE  CountsListed' /\ WritesListed'
  BY DEF ListedInv
<1> USE DEF counterVars, copyVars, noticeVars
<1> DEFINE Bad == {"redis_loss", "restart", "sync_error", "message_error"}
<1>0. ASSUME NEW kind, Fault(kind) PROVE kind \notin Bad /\ Undisturbed
  <2>1. \A f \in FaultKinds : faults'[f] = IF f = kind THEN faults[f] + 1 ELSE faults[f]
    BY <1>0, FaultStep DEF Shapes
  <2>2. Bad \subseteq FaultKinds /\ kind \in FaultKinds /\ \A f \in FaultKinds : faults[f] \in Nat
    BY <1>0, FaultStep DEF FaultKinds, Shapes
  <2>3. \A f \in Bad : faults'[f] = 0
    BY DEF Undisturbed, None
  <2>4. kind \notin Bad
    BY <2>1, <2>2, <2>3
  <2> QED BY <2>1, <2>2, <2>3, <2>4 DEF Undisturbed, None
<1>1. Undisturbed
  BY <1>0 DEF Undisturbed, None, Next, Message, SyncRun, Admit, Block, Count, MarkDirty, Notice, Mail,
     Charge, MessageFails, SyncStart, SyncRead, SyncWrite, Written, SyncFails, Restart, RedisLoss, NextMonth, vars
<1>2. /\ ~Restart /\ ~RedisLoss /\ \A s \in Syncs : ~SyncFails(s)
      /\ \A r \in Requests : ~MessageFails(r)
  BY <1>0 DEF Restart, RedisLoss, SyncFails, MessageFails
<1>3. CountsListed /\ WritesListed /\ CountersAgree
  BY <1>1 DEF ListedInv, LimitInv, Undisturbed, None
\* Steps of a message that keep the lists.
<1>4. ASSUME UNCHANGED <<redis, db, copyVars>>, \A k \in Counters : Listed(k) => Listed(k)'
      PROVE  CountsListed' /\ WritesListed'
  <2>1. \A k \in Counters : Fresh(k) => Fresh(k)'
    BY <1>4 DEF Fresh
  <2> QED BY <1>3, <1>4, <2>1 DEF CountsListed, WritesListed
<1>5. ASSUME NEW r \in Requests,
             (\E t \in Tenants : Admit(r, t)) \/ Block(r) \/ Notice(r) \/ Mail(r) \/ Charge(r)
      PROVE  UNCHANGED <<redis, db, copyVars>> /\ \A k \in Counters : Listed(k) => Listed(k)'
  <2>1. UNCHANGED <<redis, db, copyVars, dirty>>
    BY <1>5 DEF Admit, Block, Notice, Mail, Charge
  <2>2. request[r].pc # "counted" /\ \A q \in Requests : q # r => request'[q] = request[q]
    BY <1>5 DEF Admit, Block, Notice, Mail, Charge, Skip, Shapes, Idle
  <2> QED BY <2>1, <2>2 DEF Listed
<1>6. ASSUME NEW r \in Requests, MarkDirty(r)
      PROVE  UNCHANGED <<redis, db, copyVars>> /\ \A k \in Counters : Listed(k) => Listed(k)'
  <2>1. UNCHANGED <<redis, db, copyVars>> /\ dirty' = dirty \cup {request[r].key}
    BY <1>6 DEF MarkDirty
  <2>2. \A q \in Requests : q # r => request'[q] = request[q]
    BY <1>6 DEF MarkDirty, Shapes
  <2> QED BY <2>1, <2>2 DEF Listed
<1>7. ASSUME NEW r \in Requests, Count(r)
      PROVE  CountsListed' /\ WritesListed'
  <2>1. PICK key \in Counters :
          /\ request'[r].pc = "counted" /\ request'[r].key = key
          /\ redis' = [redis EXCEPT ![key] = @ + 1]
    <3>1. request[r].tenant \in Tenants
      BY <1>7 DEF Count, Shapes, Idle, Admitted, Counted, Noticing
    <3>2. <<request[r].tenant, period>> \in Counters
      BY <3>1 DEF Shapes, Counters
    <3> QED BY <1>7, <3>2 DEF Count, Shapes
  <2>2. /\ UNCHANGED <<db, copyVars, dirty>> /\ request[r].pc = "admitted"
        /\ \A q \in Requests : q # r => request'[q] = request[q]
    BY <1>7 DEF Count, Shapes
  <2>3. Listed(key)' /\ \A k \in Counters : Listed(k) => Listed(k)'
    BY <2>1, <2>2 DEF Listed
  <2>4. \A k \in Counters : k # key => redis'[k] = redis[k]
    BY <2>1 DEF Shapes
  <2>5. \A k \in Counters : Fresh(k) => Fresh(k)'
    BY <2>2, <2>3, <2>4 DEF Fresh
  <2>6. \A k \in Counters : Listed(k)' => Fresh(k)'
    BY DEF Fresh
  <2>7. CountsListed'
    BY <1>3, <2>2, <2>3, <2>4, <2>5, <2>6 DEF CountsListed
  <2>8. WritesListed'
    BY <1>3, <2>2, <2>3, <2>4, <2>5, <2>6 DEF WritesListed
  <2> QED BY <2>7, <2>8
\* A copy takes over the dirty set ...
<1>8. ASSUME NEW s \in Syncs, SyncStart(s)
      PROVE  CountsListed' /\ WritesListed'
  <2>1. /\ UNCHANGED <<redis, db, request, overtaken, late>>
        /\ sync[s] = NoSync /\ sync'[s] = [left |-> dirty]
        /\ \A q \in Syncs : q # s => sync'[q] = sync[q]
    BY <1>8 DEF SyncStart, SyncIdle, Shapes
  <2>2. sync[s] \notin Writing /\ sync[s].left = {} /\ sync'[s] \notin Writing /\ sync'[s].left = dirty
    BY <2>1, WritingIsBusy DEF SyncIdle, NoSync, Writing
  <2>3. ASSUME NEW k \in Counters, Listed(k) PROVE Listed(k)'
    <3>1. k \in dirty => k \in sync'[s].left
      BY <2>2
    <3>2. \A q \in Syncs : k \in sync[q].left => k \in sync'[q].left
      BY <2>1, <2>2
    <3> QED BY <2>1, <2>3, <3>1, <3>2 DEF Listed
  <2>4. \A k \in Counters : Fresh(k) => Fresh(k)'
    BY <2>1, <2>2, <2>3 DEF Fresh
  <2>5. \A q \in Syncs : sync'[q] \in Writing => sync'[q] = sync[q]
    BY <2>1, <2>2
  <2> QED BY <1>3, <2>1, <2>4, <2>5 DEF CountsListed, WritesListed
\* ... reads a counter off its list and holds it ...
<1>9. ASSUME NEW s \in Syncs, NEW key \in Counters, SyncRead(s, key)
      PROVE  CountsListed' /\ WritesListed'
  <2>1. /\ UNCHANGED <<redis, db, dirty, request, overtaken, late>> /\ sync[s] \in Syncing
        /\ sync'[s] = [left |-> sync[s].left \ {key}, key |-> key, count |-> redis[key]]
        /\ \A q \in Syncs : q # s => sync'[q] = sync[q]
    BY <1>9 DEF SyncRead, Shapes
  <2>2. sync[s] \notin Writing
    BY <2>1 DEF Syncing, Writing
  <2>3. /\ sync'[s] \in Writing /\ sync'[s].left = sync[s].left \ {key}
        /\ sync'[s].key = key /\ sync'[s].count = redis'[key]
    BY <2>1 DEF Writing, Syncing, Shapes
  <2>4. ASSUME NEW k \in Counters, Listed(k) PROVE Fresh(k)'
    <3>1. CASE k = key
      BY <2>3, <3>1 DEF Fresh
    <3>2. CASE k # key
      <4>1. \A q \in Syncs : k \in sync[q].left => k \in sync'[q].left
        BY <2>1, <2>3, <3>2
      <4> QED BY <2>1, <2>4, <4>1 DEF Listed, Fresh
    <3> QED BY <3>1, <3>2
  <2>5. \A k \in Counters : Fresh(k) => Fresh(k)'
    BY <2>1, <2>2, <2>4 DEF Fresh
  <2>6. \A q \in Syncs : q = s \/ sync'[q] = sync[q]
    BY <2>1
  <2> QED BY <1>3, <2>1, <2>3, <2>5, <2>6 DEF CountsListed, WritesListed
\* ... and writes it. What was the count leaves every other copy of the counter
\* behind; what was not is followed by the count, or comes after it.
<1>10. ASSUME NEW s \in Syncs, SyncWrite(s)
       PROVE  CountsListed' /\ WritesListed'
  <2>1. PICK key \in Counters : key = sync[s].key /\ sync[s] \in Writing
    BY <1>10 DEF SyncWrite, Written, Writing
  <2>2. /\ UNCHANGED <<redis, dirty, request>> /\ db' = [db EXCEPT ![key] = sync[s].count]
        /\ sync'[s] = [left |-> sync[s].left]
        /\ \A q \in Syncs : q # s => sync'[q] = sync[q]
    BY <1>10, <2>1 DEF SyncWrite, Written, Shapes
  <2>3. /\ overtaken' = (overtaken \ {s}) \cup Behind(s)
        /\ late' = IF s \in overtaken THEN late \cup {key} ELSE late \ {key}
    BY <1>10, <2>1 DEF SyncWrite, Written
  <2>4. sync'[s] \notin Writing /\ sync'[s].left = sync[s].left
    BY <2>2 DEF Writing
  <2>5. \A k \in Counters : Listed(k) => Listed(k)'
    BY <2>2, <2>4 DEF Listed
  <2>6. ASSUME NEW k \in Counters, Fresh(k), k # key \/ sync[s].count # redis[key]
        PROVE  Fresh(k)'
    BY <2>1, <2>2, <2>5, <2>6 DEF Fresh
  <2>7. \A k \in Counters : k # key => db'[k] = db[k] /\ (k \in late' <=> k \in late)
    BY <2>2, <2>3 DEF Shapes
  <2>8. db'[key] = sync[s].count
    BY <2>2 DEF Shapes
  <2>9. CountsListed'
    <3> SUFFICES ASSUME NEW k \in Counters, db'[k] # redis'[k] PROVE Fresh(k)' \/ k \in late'
      BY DEF CountsListed
    <3>1. CASE k # key
      BY <1>3, <2>2, <2>6, <2>7, <3>1 DEF CountsListed
    <3>2. CASE k = key
      <4>1. Fresh(key) \/ s \in overtaken
        BY <1>3, <2>1, <2>2, <2>8, <3>2 DEF WritesListed
      <4> QED BY <2>2, <2>3, <2>6, <2>8, <3>2, <4>1
    <3> QED BY <3>1, <3>2
  <2>10. WritesListed'
    <3> SUFFICES ASSUME NEW q \in Syncs, NEW k \in Counters, sync'[q] \in Writing,
                        sync'[q].key = k, sync'[q].count # redis'[k]
                 PROVE  Fresh(k)' \/ q \in overtaken'
      BY DEF WritesListed
    <3>1. q # s /\ sync'[q] = sync[q]
      BY <2>2, <2>4
    <3>2. Fresh(k) \/ q \in overtaken
      BY <1>3, <2>2, <3>1 DEF WritesListed
    <3>3. q \in overtaken => q \in overtaken'
      BY <2>3, <3>1
    <3>4. CASE k # key \/ sync[s].count # redis[key]
      BY <2>6, <3>2, <3>3, <3>4
    <3>5. CASE k = key /\ sync[s].count = redis[key]
      <4>1. sync[q].count <= redis[key] /\ sync[q].count # redis[key]
        BY <1>3, <2>2, <3>1, <3>5 DEF CountersAgree
      <4>2. sync[q].count \in Nat /\ sync[s].count \in Nat
        BY <2>1, <3>1 DEF Writing
      <4>3. sync[q].count < sync[s].count
        BY <3>5, <4>1, <4>2
      <4>4. q \in Behind(s)
        BY <2>1, <3>1, <3>5, <4>3 DEF Behind
      <4> QED BY <2>3, <4>4
    <3> QED BY <3>4, <3>5
  <2> QED BY <2>9, <2>10
<1>13. ASSUME NEW s \in Syncs, SyncRun(s)
       PROVE  CountsListed' /\ WritesListed'
  BY <1>2, <1>8, <1>9, <1>10, <1>13 DEF SyncRun
<1>14. ASSUME NextMonth \/ UNCHANGED vars
       PROVE  UNCHANGED <<redis, db, copyVars>> /\ \A k \in Counters : Listed(k) => Listed(k)'
  BY <1>14 DEF NextMonth, vars, Listed
<1> QED
  BY <1>2, <1>4, <1>5, <1>6, <1>7, <1>13, <1>14 DEF Next, Message

\* While no fault empties a list, a count that Postgres does not show is on one,
\* or an overtaken copy was the last to write its row: for any number of messages
\* at work and of copies that overlap, however the messages fall between the
\* reads and the writes of the copies.
THEOREM ForgottenTheorem == Spec => []NoCountForgotten
<1>1. Init => ListedInv
  <2>1. ASSUME Init, NEW s \in Syncs PROVE sync[s] \notin Writing
    BY <2>1, WritingIsBusy DEF Init, SyncIdle
  <2>2. Init => \A k \in Counters : db[k] = redis[k]
    BY DEF Init
  <2> QED BY <2>1, <2>2 DEF ListedInv, CountsListed, WritesListed
<1>2. Init => Shapes /\ LimitInv
  BY InitShapes, InitLimitInv
<1>3. Shapes /\ LimitInv /\ ListedInv /\ [Next]_vars => Shapes' /\ LimitInv' /\ ListedInv'
  BY StepShapes, StepLimitInv, StepListedInv
<1>4. ListedInv => NoCountForgotten
  BY DEF ListedInv, CountsListed, NoCountForgotten, Undisturbed, Fresh, Listed, Unsynced
<1> QED BY <1>1, <1>2, <1>3, <1>4, PTL DEF Spec

\* While Redis keeps its data, what a copy is about to write is not older than
\* what Postgres shows, unless another copy has overtaken it.
CopyInv ==
    faults["redis_loss"] = 0 =>
        \A s \in Syncs \ overtaken : sync[s] \in Writing => db[sync[s].key] <= sync[s].count

LEMMA StepCopyInv ==
    Shapes /\ LimitInv /\ CopyInv /\ [Next]_vars => CopyInv'
<1> SUFFICES ASSUME Shapes, LimitInv, CopyInv, [Next]_vars, faults'["redis_loss"] = 0,
                    NEW q \in Syncs, q \notin overtaken', sync'[q] \in Writing
             PROVE  db'[sync'[q].key] <= sync'[q].count
  BY DEF CopyInv
<1> USE DEF counterVars, copyVars, noticeVars
<1>1. faults["redis_loss"] = 0
  <2>1. \A kind \in FaultKinds : Fault(kind) => faults["redis_loss"] = 0
    BY FaultStep DEF Shapes, FaultKinds
  <2> QED
    BY <2>1 DEF Next, Message, SyncRun, Admit, Block, Count, MarkDirty, Notice, Mail,
       Charge, MessageFails, SyncStart, SyncRead, SyncWrite, Written, SyncFails, Restart, RedisLoss, NextMonth,
       vars, FaultKinds
<1>2. CountersAgree /\ (q \notin overtaken /\ sync[q] \in Writing => db[sync[q].key] <= sync[q].count)
  BY <1>1 DEF LimitInv, CopyInv
<1>3. CASE UNCHANGED <<db, copyVars>>
  BY <1>2, <1>3
<1>4. CASE Restart
  <2>1. sync'[q] = NoSync
    BY <1>4 DEF Restart
  <2> QED BY <2>1 DEF NoSync, Writing
<1>5. ASSUME NEW s \in Syncs, SyncRun(s) PROVE db'[sync'[q].key] <= sync'[q].count
  <2>1. CASE SyncStart(s) \/ SyncFails(s)
    <3>1. /\ UNCHANGED db
          /\ q # s => sync'[q] = sync[q]
          /\ q = s => sync'[q] \in {[left |-> dirty], NoSync}
          /\ overtaken \subseteq overtaken' \cup {s}
      BY <2>1 DEF SyncStart, SyncFails, Shapes
    <3>2. q # s
      BY <3>1 DEF NoSync, Writing
    <3> QED BY <1>2, <3>1, <3>2
  <2>2. ASSUME NEW key \in Counters, SyncRead(s, key) PROVE db'[sync'[q].key] <= sync'[q].count
    <3>1. /\ UNCHANGED <<db, overtaken>>
          /\ q # s => sync'[q] = sync[q]
          /\ q = s => sync'[q] = [left |-> sync[s].left \ {key}, key |-> key, count |-> redis[key]]
      BY <2>2 DEF SyncRead, Shapes
    <3>2. CASE q = s
      <4>1. sync'[q].key = key /\ sync'[q].count = redis[key] /\ db[key] <= redis[key]
        BY <1>2, <3>1, <3>2 DEF CountersAgree
      <4> QED BY <3>1, <4>1
    <3>3. CASE q # s
      BY <1>2, <3>1, <3>3
    <3> QED BY <3>2, <3>3
  <2>3. CASE SyncWrite(s)
    <3>1. sync[s] \in Writing /\ sync'[s] = [left |-> sync[s].left]
          /\ (\A p \in Syncs : p # s => sync'[p] = sync[p])
          /\ db' = [db EXCEPT ![sync[s].key] = sync[s].count]
          /\ overtaken' = (overtaken \ {s}) \cup Behind(s)
      BY <2>3 DEF SyncWrite, Written, Shapes
    <3>2. q # s /\ sync'[q] = sync[q] /\ q \notin overtaken
      BY <3>1 DEF Writing
    <3>3. sync[q].count \in Nat /\ sync[s].count \in Nat /\ sync[q].key \in Counters
      BY <3>1, <3>2 DEF Writing
    <3>4. sync[q].key = sync[s].key => ~(sync[q].count < sync[s].count)
      BY <3>1, <3>2 DEF Behind
    <3>5. db'[sync[q].key] = IF sync[q].key = sync[s].key THEN sync[s].count ELSE db[sync[q].key]
      BY <3>1, <3>3 DEF Shapes
    <3> QED BY <1>2, <3>2, <3>3, <3>4, <3>5
  <2> QED BY <1>5, <2>1, <2>2, <2>3 DEF SyncRun
<1>6. ASSUME NEW r \in Requests, Message(r) PROVE UNCHANGED <<db, copyVars>>
  BY <1>6 DEF Message, Admit, Block, Count, MarkDirty, Notice, Mail, Charge, MessageFails
<1>7. RedisLoss \/ NextMonth \/ UNCHANGED vars => UNCHANGED <<db, copyVars>>
  BY DEF RedisLoss, NextMonth, vars
<1> QED BY <1>3, <1>4, <1>5, <1>6, <1>7 DEF Next

\* What Postgres has been told of a month is taken back by an overtaken copy
\* only, while Redis keeps its data: by no restart's hydration, no turn of the
\* month, and no copy that nobody wrote before, for any number of them at once.
THEOREM PostgresTheorem == Spec => PostgresNeverGoesBack
<1>1. Init => CopyInv
  <2>1. ASSUME Init, NEW s \in Syncs PROVE sync[s] \notin Writing
    BY <2>1, WritingIsBusy DEF Init, SyncIdle
  <2> QED BY <2>1 DEF CopyInv
<1>2. Init => Shapes /\ LimitInv
  BY InitShapes, InitLimitInv
<1>3. Shapes /\ LimitInv /\ CopyInv /\ [Next]_vars => Shapes' /\ LimitInv' /\ CopyInv'
  BY StepShapes, StepLimitInv, StepCopyInv
<1>4. ASSUME Shapes, LimitInv, CopyInv, [Next]_vars, None({"redis_loss"}), NEW k \in Counters
      PROVE  db'[k] >= db[k] \/ k \in late'
  <2> USE DEF counterVars, copyVars, noticeVars
  <2>1. /\ db[k] \in Nat /\ redis[k] \in Nat /\ db[k] <= redis[k]
        /\ \A s \in Syncs \ overtaken : sync[s] \in Writing => db[sync[s].key] <= sync[s].count
    BY <1>4 DEF Shapes, LimitInv, CopyInv, CountersAgree, None
  <2>2. CASE Restart
    <3>1. db'[k] \in {db[k], redis[k]}
      BY <2>1, <2>2 DEF Restart, Hydrated, Larger
    <3> QED BY <2>1, <3>1
  <2>3. ASSUME NEW s \in Syncs, SyncWrite(s) PROVE db'[k] >= db[k] \/ k \in late'
    <3>1. /\ sync[s] \in Writing /\ db' = [db EXCEPT ![sync[s].key] = sync[s].count]
          /\ s \in overtaken => late' = late \cup {sync[s].key}
      BY <2>3 DEF SyncWrite, Written
    <3>2. sync[s].count \in Nat
      BY <3>1 DEF Writing
    <3>3. CASE k # sync[s].key
      BY <1>4, <2>1, <3>1, <3>3 DEF Shapes
    <3>4. CASE k = sync[s].key
      <4>1. db'[k] = sync[s].count
        BY <1>4, <3>1, <3>4 DEF Shapes
      <4> QED BY <2>1, <3>1, <3>2, <3>4, <4>1
    <3> QED BY <3>3, <3>4
  <2>4. UNCHANGED db => db'[k] >= db[k]
    BY <2>1
  <2> QED
    BY <1>4, <2>2, <2>3, <2>4 DEF Next, Message, SyncRun, Admit, Block, Count, MarkDirty, Notice, Mail,
       Charge, MessageFails, SyncStart, SyncRead, SyncFails, RedisLoss, NextMonth, vars
<1>5. Shapes /\ LimitInv /\ CopyInv /\ [Next]_vars
        => [None({"redis_loss"}) => \A k \in Counters : db'[k] >= db[k] \/ k \in late']_db
  BY <1>4
<1> QED BY <1>1, <1>2, <1>3, <1>5, PTL DEF Spec, PostgresNeverGoesBack
=============================================================================
