----------------------------- MODULE UsageMeter -----------------------------
(***************************************************************************)
(* Metering of messages: usage-limit.service.ts, called by the             *)
(* orchestrator for every visitor's message, and the minute's cron that    *)
(* copies the Redis counters to Postgres.                                  *)
(*                                                                         *)
(* A message is admitted, counted, notified and charged in steps between   *)
(* which other messages run; the copy to Postgres works from an in-memory  *)
(* set of dirty counters.                                                  *)
(***************************************************************************)
EXTENDS Integers, FiniteSets, FiniteSetsExt

CONSTANTS
    Tenants,
    Limit,           \* messageLimit of the tariff
    Thresholds,      \* USAGE_THRESHOLDS, in percent
    InitialBalance,  \* Tenant.balance, in units of price / messageLimit
    Requests,        \* messages the API may be working on at once
    Syncs,           \* runs of the cron that may overlap
    LastPeriod,      \* bound: the months of a run are 1..LastPeriod
    MaxMessages,     \* bound: messages counted in a run
    Faults, MaxFaults

FaultKinds == {"restart", "message_error", "sync_error", "notice_error", "redis_loss"}
Policies   == {"block", "charge", "allow"}

ASSUME TariffAssumption ==
    /\ Limit \in Nat \ {0}
    /\ Thresholds \subseteq 1..100
    /\ InitialBalance \in Nat

ASSUME BoundsAssumption ==
    /\ LastPeriod \in Nat \ {0} /\ MaxMessages \in Nat
    /\ Faults \subseteq FaultKinds /\ MaxFaults \in Nat

ASSUME RequestsAssumption == IsFiniteSet(Requests) /\ Requests # {}

Periods  == 1..LastPeriod
Counters == Tenants \X Periods

VARIABLES
    policy,      \* overagePolicy of each tenant's tariff
    period,      \* the current month, getPeriodKey
    redis,       \* the keys usage:<tenant>:<period>, 0 when missing
    db,          \* UsageCounter.messageCount
    rows,        \* the counters that have a row UsageCounter
    dirty,       \* dirtyTenants, in memory
    request,     \* the messages in progress
    sync,        \* the runs of syncDirtyCountersToPostgres in progress
    balance,     \* Tenant.balance
    noticed,     \* rows UsageNotification
    mailed,      \* e-mails sent, per counter and threshold
    recorded,    \* messages counted (history)
    overtaken,   \* copies that hold an older count than another copy has
                 \* written since they read theirs (history)
    late,        \* counters whose row an overtaken copy wrote last (history)
    faults       \* how many faults of each kind there were

counterVars == <<redis, db, rows, dirty, recorded>>
copyVars    == <<sync, overtaken, late>>
noticeVars  == <<noticed, mailed>>
vars == <<policy, period, counterVars, request, copyVars, balance, noticeVars, faults>>

Idle     == [pc |-> "idle"]
Admitted == [pc : {"admitted"}, tenant : Tenants]
Counted  == [pc : {"counted"}, key : Counters, used : Nat]
Noticing == [pc : {"noticing", "mailing"}, key : Counters, used : Nat,
             todo : SUBSET Thresholds]

Syncing  == [left : SUBSET Counters]
Writing  == [left : SUBSET Counters, key : Counters, count : Nat]
NoSync   == [left |-> {}]

TypeOK ==
    /\ policy \in [Tenants -> Policies]
    /\ period \in Periods
    /\ redis \in [Counters -> Nat]
    /\ db \in [Counters -> Nat]
    /\ rows \subseteq Counters
    /\ dirty \subseteq Counters
    /\ request \in [Requests -> {Idle} \cup Admitted \cup Counted \cup Noticing]
    /\ \A r \in Requests : request[r].pc = "mailing" =>
         \E h \in request[r].todo : <<request[r].key, h>> \in noticed
    /\ sync \in [Syncs -> Syncing \cup Writing]
    /\ overtaken \subseteq {s \in Syncs : sync[s] \in Writing}
    /\ late \subseteq rows
    /\ balance \in [Tenants -> Int]
    /\ noticed \subseteq Counters \X Thresholds
    /\ mailed \in [Counters \X Thresholds -> Nat]
    /\ recorded \in [Counters -> Nat]
    /\ faults \in [FaultKinds -> Nat]

Init ==
    /\ policy \in [Tenants -> Policies]
    /\ period = 1
    /\ redis = [k \in Counters |-> 0]
    /\ db = [k \in Counters |-> 0]
    /\ rows = {}
    /\ dirty = {}
    /\ request = [r \in Requests |-> Idle]
    /\ sync = [s \in Syncs |-> NoSync]
    /\ overtaken = {}
    /\ late = {}
    /\ balance = [t \in Tenants |-> InitialBalance]
    /\ noticed = {}
    /\ mailed = [n \in Counters \X Thresholds |-> 0]
    /\ recorded = [k \in Counters |-> 0]
    /\ faults = [kind \in FaultKinds |-> 0]

Fault(kind) ==
    /\ kind \in Faults
    /\ MapThenSumSet(LAMBDA f : faults[f], FaultKinds) < MaxFaults
    /\ faults' = [faults EXCEPT ![kind] = @ + 1]

-----------------------------------------------------------------------------
(* A message *)

\* getCurrentCount: the Redis key, or the row when the key is missing
Used(t) == IF redis[<<t, period>>] # 0 THEN redis[<<t, period>>] ELSE db[<<t, period>>]

\* Mutant: the last message of the limit is not the last one.
MayUseOneMore(t) ==
    \/ Used(t) <= Limit
    \/ policy[t] = "allow"
    \/ policy[t] = "charge" /\ balance[t] >= 1

\* Mutant: the balance is not looked at.
MayUseWithoutBalance(t) ==
    \/ Used(t) < Limit
    \/ policy[t] = "allow"
    \/ policy[t] = "charge"

MaySend(t) ==
    \/ Used(t) < Limit
    \/ policy[t] = "allow"
    \/ policy[t] = "charge" /\ balance[t] >= 1

\* assertCanSendMessage passes; a message refused leaves no trace
Admit(r, t) ==
    /\ request[r] = Idle
    /\ MaySend(t)
    /\ request' = [request EXCEPT ![r] = [pc |-> "admitted", tenant |-> t]]
    /\ UNCHANGED <<policy, period, counterVars, copyVars, balance, noticeVars, faults>>

\* the orchestrator blocks the message after it was admitted
Block(r) ==
    /\ request[r].pc = "admitted"
    /\ request' = [request EXCEPT ![r] = Idle]
    /\ UNCHANGED <<policy, period, counterVars, copyVars, balance, noticeVars, faults>>

AllRecorded == MapThenSumSet(LAMBDA k : recorded[k], Counters)

\* recordMessage up to INCR, under the key of the month it runs in
Count(r) ==
    /\ request[r].pc = "admitted"
    /\ LET key == <<request[r].tenant, period>>
       IN  /\ AllRecorded < MaxMessages
           /\ redis' = [redis EXCEPT ![key] = @ + 1]
           /\ recorded' = [recorded EXCEPT ![key] = @ + 1]
           /\ request' = [request EXCEPT ![r] =
                            [pc |-> "counted", key |-> key, used |-> redis[key] + 1]]
    /\ UNCHANGED <<policy, period, db, rows, dirty, copyVars, balance, noticeVars, faults>>

\* the count from which (used / limit) * 100 is at least h
Needed(h) == (h * Limit + 99) \div 100

\* Mutant: a threshold is reached when it is passed.
ReachedAbove(used) == {h \in Thresholds : used > Needed(h)}

Reached(used) == {h \in Thresholds : used >= Needed(h)}

\* Mutant: the counter is not remembered for the cron.
MarkDirtyNever(r) ==
    /\ request[r].pc = "counted"
    /\ request' = [request EXCEPT ![r] =
                     [pc |-> "noticing", key |-> @.key, used |-> @.used,
                      todo |-> Reached(@.used)]]
    /\ UNCHANGED <<policy, period, counterVars, copyVars, balance, noticeVars, faults>>

\* the INCR has answered: dirtyTenants.add, and the loop over the thresholds begins
MarkDirty(r) ==
    /\ request[r].pc = "counted"
    /\ dirty' = dirty \cup {request[r].key}
    /\ request' = [request EXCEPT ![r] =
                     [pc |-> "noticing", key |-> @.key, used |-> @.used,
                      todo |-> Reached(@.used)]]
    /\ UNCHANGED <<policy, period, redis, db, rows, recorded, copyVars, balance, noticeVars, faults>>

Skip(r, h) == request' = [request EXCEPT ![r].todo = @ \ {h}]

\* Mutant: the row of the notification does not stop a second one.
NoticeAgain(r) ==
    /\ request[r].pc = "noticing" /\ request[r].todo # {}
    /\ noticed' = noticed \cup {<<request[r].key, Min(request[r].todo)>>}
    /\ request' = [request EXCEPT ![r].pc = "mailing"]
    /\ UNCHANGED <<policy, period, counterVars, copyVars, balance, mailed, faults>>

\* one threshold of checkThresholdNotifications: the row, unique per counter
\* and threshold, is created by the request that sends the e-mail; when it is
\* there already, or creating it fails, the loop goes on
Notice(r) ==
    /\ request[r].pc = "noticing" /\ request[r].todo # {}
    /\ LET h == Min(request[r].todo)
           n == <<request[r].key, h>>
       IN  \/ n \in noticed /\ Skip(r, h) /\ UNCHANGED <<noticed, faults>>
           \/ /\ n \notin noticed
              /\ noticed' = noticed \cup {n}
              /\ request' = [request EXCEPT ![r].pc = "mailing"]
              /\ UNCHANGED faults
           \/ n \notin noticed /\ Fault("notice_error") /\ Skip(r, h) /\ UNCHANGED noticed
    /\ UNCHANGED <<policy, period, counterVars, copyVars, balance, mailed>>

Mail(r) ==
    /\ request[r].pc = "mailing"
    /\ LET h == Min(request[r].todo)
       IN  /\ mailed' = [mailed EXCEPT ![<<request[r].key, h>>] = @ + 1]
           /\ request' = [request EXCEPT ![r].pc = "noticing", ![r].todo = @ \ {h}]
    /\ UNCHANGED <<policy, period, counterVars, copyVars, balance, noticed, faults>>

\* Mutant: the message that reaches the limit is charged as well.
OverageFromLimit(r) == policy[request[r].key[1]] = "charge" /\ request[r].used >= Limit

Overage(r) == policy[request[r].key[1]] = "charge" /\ request[r].used > Limit

\* chargeOverage; then the answer is generated
Charge(r) ==
    /\ request[r].pc = "noticing" /\ request[r].todo = {}
    /\ balance' = IF Overage(r) THEN [balance EXCEPT ![request[r].key[1]] = @ - 1]
                  ELSE balance
    /\ request' = [request EXCEPT ![r] = Idle]
    /\ UNCHANGED <<policy, period, counterVars, copyVars, noticeVars, faults>>

\* an await throws, or its reply is lost: the rest of the message's steps is
\* not made
MessageFails(r) ==
    /\ request[r] # Idle /\ Fault("message_error")
    /\ request' = [request EXCEPT ![r] = Idle]
    /\ UNCHANGED <<policy, period, counterVars, copyVars, balance, noticeVars>>

-----------------------------------------------------------------------------
(* The copy to Postgres: the cron is started each minute whether or not the  *)
(* copy of the minute before has ended, so copies overlap.                   *)

SyncIdle(s) == sync[s] = NoSync

SyncStart(s) ==
    /\ SyncIdle(s) /\ dirty # {}
    /\ sync' = [sync EXCEPT ![s] = [left |-> dirty]]
    /\ dirty' = {}
    /\ UNCHANGED <<policy, period, redis, db, rows, recorded, request, overtaken, late,
                   balance, noticeVars, faults>>

\* Mutant: the key of the current month is read for every counter.
SyncReadThisMonth(s, key) ==
    /\ sync[s] \in Syncing /\ key \in sync[s].left
    /\ sync' = [sync EXCEPT ![s] = [left |-> @.left \ {key}, key |-> key,
                                    count |-> redis[<<key[1], period>>]]]
    /\ UNCHANGED <<policy, period, counterVars, request, overtaken, late, balance,
                   noticeVars, faults>>

SyncRead(s, key) ==
    /\ sync[s] \in Syncing /\ key \in sync[s].left
    /\ sync' = [sync EXCEPT ![s] = [left |-> @.left \ {key}, key |-> key,
                                    count |-> redis[key]]]
    /\ UNCHANGED <<policy, period, counterVars, request, overtaken, late, balance,
                   noticeVars, faults>>

\* the copies that hold an older count of the counter s writes
Behind(s) ==
    {q \in Syncs : /\ sync[q] \in Writing
                   /\ sync[q].key = sync[s].key /\ sync[q].count < sync[s].count}

Written(s) ==
    /\ sync[s] \in Writing
    /\ db' = [db EXCEPT ![sync[s].key] = sync[s].count]
    /\ rows' = rows \cup {sync[s].key}
    /\ sync' = [sync EXCEPT ![s] = [left |-> @.left]]
    /\ overtaken' = (overtaken \ {s}) \cup Behind(s)
    /\ late' = IF s \in overtaken THEN late \cup {sync[s].key} ELSE late \ {sync[s].key}
    /\ UNCHANGED <<policy, period, redis, recorded, request, balance, noticeVars, faults>>

\* Mutant: a counter is taken off the dirty set when it has been written.
SyncWriteClearing(s) == Written(s) /\ dirty' = dirty \ {sync[s].key}

\* the upsert puts the count that was read, whatever the row shows by now
SyncWrite(s) == Written(s) /\ UNCHANGED dirty

\* the loop throws: what is left of its list is not dirty any more
SyncFails(s) ==
    /\ ~SyncIdle(s) /\ Fault("sync_error")
    /\ sync' = [sync EXCEPT ![s] = NoSync]
    /\ overtaken' = overtaken \ {s}
    /\ UNCHANGED <<policy, period, counterVars, request, late, balance, noticeVars>>

-----------------------------------------------------------------------------
(* Restarts and the calendar *)

\* the rows findMany returns to hydrateRedisFromPostgres: the current month's
ToHydrate(k) == k \in rows /\ k[2] = period

Larger(k) == IF redis[k] >= db[k] THEN redis[k] ELSE db[k]

\* key and row of a counter of this month become the larger of the two
Hydrated(k) == IF ToHydrate(k) THEN Larger(k) ELSE redis[k]

\* The API restarts: what it held in memory is gone. It serves no message
\* before onModuleInit has gone through the rows, so that is one step.
Restart ==
    /\ Fault("restart")
    /\ request' = [r \in Requests |-> Idle]
    /\ sync' = [s \in Syncs |-> NoSync]
    /\ overtaken' = {}
    /\ late' = {k \in late : ~ToHydrate(k)}
    /\ dirty' = {}
    /\ redis' = [k \in Counters |-> Hydrated(k)]
    /\ db' = [k \in Counters |-> IF ToHydrate(k) THEN Hydrated(k) ELSE db[k]]
    /\ UNCHANGED <<policy, period, rows, recorded, balance, noticeVars>>

\* Redis restarts without a snapshot while the API goes on.
RedisLoss ==
    /\ Fault("redis_loss")
    /\ redis' = [k \in Counters |-> 0]
    /\ UNCHANGED <<policy, period, db, rows, dirty, recorded, request, copyVars, balance, noticeVars>>

NextMonth ==
    /\ period < LastPeriod
    /\ period' = period + 1
    /\ UNCHANGED <<policy, counterVars, request, copyVars, balance, noticeVars, faults>>

-----------------------------------------------------------------------------

Message(r) ==
    \/ \E t \in Tenants : Admit(r, t)
    \/ Block(r) \/ Count(r) \/ MarkDirty(r) \/ Notice(r) \/ Mail(r) \/ Charge(r)
    \/ MessageFails(r)

SyncRun(s) ==
    \/ SyncStart(s)
    \/ \E key \in Counters : SyncRead(s, key)
    \/ SyncWrite(s)
    \/ SyncFails(s)

Next ==
    \/ \E r \in Requests : Message(r)
    \/ \E s \in Syncs : SyncRun(s)
    \/ Restart \/ RedisLoss \/ NextMonth

Spec == Init /\ [][Next]_vars

\* The server goes on with a message it has counted, and the cron runs.
Fairness ==
    /\ \A r \in Requests :
         WF_vars(MarkDirty(r)) /\ WF_vars(Notice(r)) /\ WF_vars(Mail(r)) /\ WF_vars(Charge(r))
    /\ \A s \in Syncs :
         /\ WF_vars(SyncStart(s)) /\ WF_vars(SyncWrite(s))
         /\ \A key \in Counters : WF_vars(SyncRead(s, key))

FairSpec == Spec /\ Fairness

-----------------------------------------------------------------------------
(* Properties *)

None(kinds) == \A kind \in kinds : faults[kind] = 0

\* The limit is checked before and counted after; with n messages at work at
\* once a blocking limit is passed by n - 1 at most, through restarts, failing
\* copies and the turn of the month, as long as Redis keeps its data.
LimitOvershootBounded ==
    None({"redis_loss"}) =>
      \A k \in Counters :
        policy[k[1]] = "block" => recorded[k] <= Limit + Cardinality(Requests) - 1

\* The prepaid balance is checked before and charged after; n messages at once
\* overdraw it by the cost of n - 1 messages at most, and once in each month:
\* below the limit of a new month no balance is asked for.
OverdraftBounded ==
    None({"redis_loss"}) =>
      \A t \in Tenants : balance[t] >= period * (1 - Cardinality(Requests))

\* The messages past the limit, by month and number.
PastLimit(t) == UNION {{<<p, i>> : i \in (Limit + 1)..recorded[<<t, p>>]} : p \in Periods}

Uncharged(t) ==
    {r \in Requests : /\ request[r].pc \in {"counted", "noticing", "mailing"}
                      /\ request[r].key[1] = t /\ Overage(r)}

\* Every message past the limit is charged exactly once, in whatever order the
\* messages at work reach their charge; only a restart or an error drops one
\* uncharged.
OverageIsCharged ==
    None({"redis_loss", "restart", "message_error"}) =>
      \A t \in Tenants :
        policy[t] = "charge" =>
          InitialBalance - balance[t] + Cardinality(Uncharged(t)) = Cardinality(PastLimit(t))

\* A threshold is mailed at most once per month, and only once its row exists,
\* although several messages may find it reached, and whatever fails.
NoticeOncePerPeriod ==
    \A n \in Counters \X Thresholds :
        mailed[n] <= 1 /\ (mailed[n] = 1 => n \in noticed)

Unsynced(k) ==
    \/ k \in dirty
    \/ \E s \in Syncs : k \in sync[s].left \/ (sync[s] \in Writing /\ sync[s].key = k)
    \/ \E r \in Requests : request[r].pc = "counted" /\ request[r].key = k

\* A counter that Postgres does not show is on somebody's list: an increment
\* that falls between the cron's read and its write makes it dirty again, and
\* two copies that overlap do not lose it between them. Faults that empty a list,
\* or Redis, take it off; without one, only a copy that writes later than
\* another copy which read more leaves a row short that is on no list.
NoCountForgotten ==
    None({"redis_loss", "restart", "sync_error", "message_error"}) =>
      \A k \in Counters : db[k] # redis[k] => Unsynced(k) \/ k \in late

\* While Redis keeps its data, what Postgres has been told of a month's usage is
\* taken back in one way only: by a copy that another copy, of a later minute,
\* has overtaken between its read and its write. Neither the hydration of a
\* restart, nor the turn of the month, nor a copy on its own takes it back.
PostgresNeverGoesBack ==
    [][None({"redis_loss"}) => \A k \in Counters : db'[k] >= db[k] \/ k \in late']_db

\* The counter messages are admitted by never shows less than was counted,
\* unless Redis loses its data.
CounterNeverGoesBack ==
    [][None({"redis_loss"})' => \A k \in Counters : redis'[k] >= redis[k]]_redis

\* A counter stands in Postgres in the end, unless an overtaken copy is the
\* last that wrote its row.
CountReachesPostgres ==
    \A k \in Counters, n \in 1..MaxMessages :
        recorded[k] >= n ~> db[k] >= n \/ k \in late

\* "Periodic synchronisation into Postgres": what a copy has put into the row of
\* a month, later copies only raise, as long as nothing fails.
CopyKeepsCount ==
    [][None(FaultKinds) => \A k \in Counters : db'[k] >= db[k]]_db

\* A threshold that a month's messages have reached is mailed in the end.
ThresholdIsMailed ==
    \A k \in Counters, h \in Thresholds :
        recorded[k] >= Needed(h) ~> mailed[<<k, h>>] = 1

\* "No data on usage is lost by a restart": what was counted before a restart
\* reaches Postgres all the same.
CountSurvivesRestart ==
    \A k \in Counters, n \in 1..MaxMessages :
        None(FaultKinds \ {"restart"}) /\ recorded[k] >= n ~> db[k] >= n
=============================================================================
