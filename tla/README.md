# Verification of the AI consultant platform's API

TLA+ models of the API in `src/apps/api`, the TLC runs that check them on small
instances, and theorems the TLA+ proof system checks for every value of the
constants. The API is a NestJS process over Postgres (Prisma), Redis and BullMQ
queues. Its state lives in tables; requests, socket messages, webhooks, cron
jobs and queue workers read and write them concurrently, nearly always as
*read, await, write*. What is hard to test is what happens between the read
and the write, and that is what the models are about.

## 1. Inventory

`src/apps/api/src/modules` holds the program's own logic (about 25 000 lines of
TypeScript). The React applications (`web-client`, `web-admin`, `widget`,
`public-site`), the shared types and the scripts in `src/scripts` are not modelled, but for those
that deploy a version.
File names below are under `src/apps/api/src/modules` unless they say otherwise;
*MASTER* is `src/AI-Consultant-Platform-MASTER.md`, the specification the code
was written to.

| Part | State | Operations and callers | Hard behaviour | What makes it correct | Module |
|---|---|---|---|---|---|
| Billing | Payment, Subscription, Transaction, Tenant.status | checkout, YooKassa webhook, daily renewal, hourly trial expiry, administrator | repeated and reordered notices, two deliveries at once, crash between charge and link, stale cron list | money is entered once, subscriptions never outrun it, expiry only for the unpaid | `Billing`, `PaymentLedger` |
| Usage metering | Redis counter, UsageCounter, UsageNotification, Tenant.balance, dirty set | recordMessage, assertCanSendMessage, chargeOverage, minute sync, hydrate at start | Redis lost or restarted, sync racing increments and the next sync, check-then-charge | no message is forgotten, one notice per threshold, a bounded overshoot | `UsageMeter` |
| Conversation | Message, Dialog.summary, semantic cache, Prompt, PromptExperiment, assignments | streamResponse, compressIfNeeded, edits of prompts, experiments | answers of one dialog overlapping, statements without a transaction | the last messages stay, nothing unsummarised goes, one variant per dialog | `Conversation` |
| Dialogs and leads | Dialog, Message, Lead, link markers | gateway, orchestrator, extraction, deduplication, merge, archive | two messages of a session at once, a link of a dialog while it is used | a number leads to a lead, a linked dialog gets none | `LeadCapture` |
| CRM status sync | Lead.status, history, Redis sync lock, push jobs | updateStatus, push worker, CRM webhook | webhooks out of order and at once, lock expiring under its holder, stale jobs, echo of one's own change | no ping-pong, changes of the CRM in order | `CrmStatusSync` |
| CRM export, lead delivery | Lead.crmSyncStatus, delivery log, two BullMQ queues | lead creation, workers, retry button | crash between the external call and its record, held job ids | duplicates have a cause, what is logged is not repeated | `LeadDelivery` |
| Follow-up | Dialog.nextFollowUpAt, followUpCount, closerState, jobs | user and assistant messages, minute cron, worker | cron and job racing, the visitor answering meanwhile, un-awaited updates | bounded count, none after the lead is complete | `FollowUp` |
| Knowledge base | KnowledgeDocument, chunks, IndexingJob | crawl and ingest workers, edits, exclusion, deletion | two jobs at once, restart in mid-crawl, exclusion during a crawl | what is read is one content, exclusions last | `KnowledgeIndex` |
| Deployment of updates | SystemUpdate, snapshots, host slot, agent, DeploymentRecord | administrator, queue worker, host agent and scripts | a deployment restarts the API it reports to; agents overlap; what is built is the head of main | the host is given only what passed its test, a deployment is not lost track of | `SystemUpdates` |
| Stability monitor | incidents, last statuses in memory | cron every two hours | restart and overlap | an incident closes when its component recovers | - |
| Authentication, team | User, refresh tokens, sessionVersion, invites | login, refresh, reset | token reuse, version bump during refresh | request/response, few interleavings | - |
| Sources, channels, analytics, notifications, push, export, health | configuration rows and reads | CRUD | little concurrency | validation and queries, better tested than model-checked | - |

How they interact: a message of the gateway passes `UsageMeter`'s admission, is
stored and read by `LeadCapture`'s extraction, is counted, answered as in
`Conversation` from what `KnowledgeIndex` keeps, and starts `FollowUp`'s un-awaited
updates. A lead that is created is sent out by `LeadDelivery`; once it is
exported, `CrmStatusSync` keeps its status. `Billing` decides whether a tenant may
send at all. The parts share rows, not locks: each module models what the others
do to its rows as actions of its own (a message of `FollowUp` in `Conversation`, a
restart of the API in `SystemUpdates`), and they are checked apart.

## 2. Modules

| Module | Models | State |
|---|---|---|
| `PaymentLedger` | the abstract promise of billing about money | charges and refunds of the provider, entries of the ledger |
| `Billing` | checkout, renewal, YooKassa webhook, trial expiry, block and change of tariff | the rows `Payment`, `Subscription`, `Transaction`, `Tenant`; requests, deliveries and cron runs in progress; YooKassa |
| `UsageMeter` | metering of messages and the copy of the counters to Postgres | Redis keys, `UsageCounter`, `UsageNotification`, `Tenant.balance`, the dirty set; messages and copies in progress |
| `CrmStatusSync` | status changes of an exported lead in both directions | `Lead`, `LeadStatusHistory`, push jobs, the Redis lock; requests, pushes and webhooks in progress; the CRM |
| `FollowUp` | follow-ups of one dialog | its row, the gateway's statements under way, the scan, the jobs |
| `LeadDelivery` | what happens to one new lead outside | the lead's export, both queues, the delivery log, what each channel received |
| `KnowledgeIndex` | the knowledge of one source | documents, chunks, rows of jobs, crawls, ingests and edits in progress, the site |
| `LeadCapture` | from a message to a lead or a link | dialogs, leads, link markers, where messages and answers are; handlers and merges in progress |
| `SystemUpdates` | tests, approval, deployment, rollback | rows of updates, the queue, the host's slot, agents and scripts, the running version and the code built for it, main, deployment records |
| `Conversation` | memory of a dialog, cache, prompts, experiments | messages, what was summarised, assignments, prompts; answers and edits in progress |
| `MC...` | instances for TLC | |
| `...Proofs` | theorems for every value of the constants | |

### How code becomes actions

A handler is split where it awaits something another process can get in
between: one action per database statement or transaction and per external call.
What is read before an await is kept in the process's own state (`worker`,
`request`, `handler`, `job`, ...), as the code keeps it in local variables. Postgres runs
READ COMMITTED; a transaction's writes appear at its commit. Definitions introduced
by *Mutant:* are faulty variants of the one that follows. Nothing uses them: they
show that a property fails when the code is wrong. Variables called *history* are
read by properties and by nothing else.

BullMQ is not in the tree. What the models take from it: `add` with an id the
queue still holds does nothing; `removeOnComplete`/`removeOnFail` decide how long it
does; a job whose worker died is started once more without using an attempt
(`MaxStalled`), and fails the second time; attempts and backoff are those of the
options. Several ids contain a colon (`lead-delivery:...`), which recent versions of
BullMQ discourage and may refuse; the models take them as the code writes them.

**Billing.** `Checkout` and `RenewSubscription` create the row, `CallYooKassa`
calls YooKassa, `StoreYooId` links the row to YooKassa's payment, `CatchFailure` is the
catch block of both services. `Handle` is what `webhook.service.ts` does up to the
handler it picks; `ActivateClaim` and `ActivateCommit` are the transaction of
`activatePayment`, split because the conditional `updateMany` locks the payment's
row (`RowLocked`) and a second delivery waits for it; `CancelPayment` and
`RefundPayment` are single transactions. `ExpireScan` and `ExpireTrial` are the
list `expireTrials` reads and one iteration over it. `Crash` drops all that is in
progress and keeps the tables; `HandlerFails` rolls a handler back. YooKassa
settles a payment once, repeats a notice until it is answered and may send it again
after that.
Abstracted: amounts, receipts and time units; a tariff is never deleted; every
notice carries the saved payment method; `metadataJson` always holds the tariff
(both callers write it); a cron does not overlap with itself; `blockTenantsBulk`
is `BlockTenant` for each tenant.

**UsageMeter.** A message goes through `Admit` (`assertCanSendMessage`), perhaps
`Block` (the injection filter of the orchestrator), `Count` (`INCR`), `MarkDirty`,
`Notice` and `Mail` for each threshold, and `Charge`. The cron's copy is
`SyncStart`, then `SyncRead` and `SyncWrite` for each counter; a minute later the next one may start beside it.
`overtaken` are the copies in progress that have read a counter which another copy has written since, `late` the counters whose
row such a copy wrote last (history). `Restart` drops
messages, copies and the dirty set and hydrates. Faults: a restart, a failing
message, a copy that throws, a row of a notification that cannot be created, and a
Redis that comes back empty (`RedisLoss`).
Abstracted: the limit is positive and a message costs one unit; policy and
limit do not change in a run; a missing key is 0; Redis always has a client
(`RedisService` creates one, so the fallback without Redis is unreachable); hydration is one
step because the API serves nothing before `onModuleInit` ends. `Needed(h)` is
the count at which the percentage of the code reaches `h`.

**CrmStatusSync.** An editor's request is `SaveStatus`, `RecordHistory`,
`EnqueuePush`: three statements without a transaction. A push is `StartPush`,
`LockPush`, `YieldOrRefresh`, `RefreshPushLock`, `CallCrm`, `EndPush`; an inbound
webhook is `ReceiveWebhook`, `LockInbound`, `SkipOrRefresh`, `RefreshInboundLock`,
`ApplyInbound`, `ReleaseInbound`. A push job's id is lead and status. The lock may
expire at any moment (`LockExpires`), which covers every relation between the 5
seconds of its key and the time of a call. The CRM dates each change and
reports it by webhook, also one our push made. Webhooks arrive in any order, and the lead
is read (`ReceiveWebhook`) long before it is written (`ApplyInbound`). Three dates tell the properties apart:
`at` is `Lead.updatedAt`, which the comparison uses and every update of the row sets; `of` (history) is the
latest change the lead was found to show, by a change or by the answer `no_change` (`Confirm`), which
writes nothing; `outdated` are the webhooks past their comparison
whose comparison does not tell what it should, because a later change came after it or because the row was
older than the change it had been found to show.
Abstracted: one lead that has been exported, a complete status mapping,
bidirectionalSync on; errors between the lock and the `try`, or in the inbound
transaction, are covered only by a restart.

**FollowUp.** The gateway stores a message (`StoreMessage`), answers it (`Answer`)
and starts statements with `void` (`background`), which run when they run. The scan
of every minute reads due dialogs, checks each, queues a job and writes the next date
last. A job checks again, generates, stores its message, counts it and answers. Time
is relative: `next` is the minutes that are left. A job lasts its minute at most,
except when it is *slow*, a bounded fault of its own. `ReceiveMessage` starts the reset with `void`;
after that `RefuseMessage` is the way of a message that the limit, the trial or a block refuses: nothing is stored
or answered, and the reset is written all the same.
Abstracted: one dialog of a source whose closer is enabled; texts and receivers. The reset goes to the dialog the
widget names, the message and the answer to the one it was linked to: a dialog that is linked is not modelled here.

**LeadDelivery.** A delivery is loaded, calls its channel and logs the success; an
export (the retry button's, or a delivery to a CRM) creates the deal, then links the
lead in a transaction. `received` counts what an external system got. Faults: a
restart, an answer that is lost after the call was effective, a failing write.
Abstracted: one lead; texts, addresses and mappings; channels do not change.

**KnowledgeIndex.** A crawl fetches each page, compares its hash, and indexes it: a
page is `processing`, its chunks are cleared and inserted one by one, and it is
`completed`; at the end orphans are deleted. An ingest job does the same with a file, an
edit of a text inside the owner's request. `assertNoRunningJob` is a read
(`NoRunningJob`) that awaits before the row it looks for is written. The owner excludes in two statements
(`excluding`) and deletes.
Abstracted: contents are versions; fetching, parsing and embedding; limits. Ids of documents come
from a finite set; one whose row is gone is given to a new row only when no job and no
request still works with it (`Unused`), as a uuid is never given twice.

**LeadCapture.** A message's handler resolves its dialog, stores the message, resolves
again, looks for the dialog's lead, for one of the visitor, for one with the number,
and creates a lead or links the dialog: the messages move, a marker names the target
dialog. A merge moves and archives in one transaction after reading both leads.
Abstracted: names and e-mail addresses, the 30 days of deduplication.

**SystemUpdates.** A request reads, creates its snapshot, reads again, queues and
writes. The host's queue is one Redis key (`slot`): `SET` by the API, `GETDEL` by the agent that
cron starts every minute. The agent's scripts build, replace the API's container
(which cuts off requests and jobs), record, verify and report in calls that may be
lost. What they build is not the version they were asked for: `fast-update.sh` resets the host's tree to the head of
`origin/main` (`main`, which `Push` moves) and builds what has changed since the last time, so that the API
is replaced (`ReplaceApi`) or not (`KeepApi`). The version is the name `APP_VERSION` the API is started with (`running`), which
`/health` and the deployment record repeat; `code` is the version whose code was checked out. A rollback, too, takes the
head of main, because `deploy-update.sh` does. Abstracted: logs, reports, imports of releases; deployments by hand
(RELEASE.md:14-18), which go past the rows altogether; a stale image `main` of the registry.

**Conversation.** A message is stored (`Ask`), perhaps blocked, looked up in the cache, given its
prompt (`ReadExperiment`, `ReadAssignment`, `Assign`, `Assemble`), answered (`StoreAnswer`) and
cached; in between the history is compressed: `ReadHistory`, `WriteSummary`,
`DeleteMessages` are `compressIfNeeded` at its awaits. Messages are numbers in the
order of `createdAt`. Edits of prompts are two statements each (`Deactivate`, then
`InsertVersion` or `ActivateVersion`), so is the start of an experiment.
Abstracted: what is said; a question is a class of similar ones; some provider of
the chain always answers, because the chain ends with the mock provider
(provider-registry.service.ts:105); merges of dialogs are `LeadCapture`'s.

## 3. Runs

| Run | Question | Bounds that matter | Distinct states |
|---|---|---|---|
| `billing_core` | Is money entered once, do subscriptions never outrun it, does expiry leave a paid subscription alone, and is the ledger implemented? | one tenant, two payments, two deliveries at once, one fault of any kind | 918 000 |
| `billing_live` | Is a charged checkout credited in the end, and does an unpaid trial end? | one payment, two deliveries, a restart or a rollback | 12 000 |
| `usage_meter` | How far are limit and balance passed, is overage charged once, a threshold mailed once, is a count forgotten, does the row go back? | every policy, two messages and two copies at once, two months, four messages, one fault of any kind | 2 302 000 |
| `usage_live` | Does every count reach Postgres and every reached threshold get mailed? | two messages and two copies at once, two thresholds, no fault | 43 000 |
| `crm_order` | By what may the lead go back to an earlier change? | three statuses, an edit, another update of the row, two changes in the CRM, two webhooks handled at once, one fault | 3 178 000 |
| `crm_sync` | Are pushes retried, and does the exchange end? | two statuses, one webhook at a time, otherwise the same | 138 000 |
| `followup_closer` | How many follow-ups can a silent visitor get, and does one whose lead is complete get any? | two jobs, two messages of the visitor that may be refused, three attempts with short delays, one slow job, one fault | 1 817 000 |
| `lead_deliver` | What may be sent twice and by what cause, and is what was logged left alone? | a CRM and one other channel, two attempts, one use of the retry button, one reconnection, two faults | 2 010 000 |
| `index_index` | When can two crawls overlap, is what is completed one content, does an exclusion last? | two pages, a file and a text, two crawls, an edit, two requests of the owner, one change of the site or fault | 1 177 000 |
| `capture` | Does a number lead to a lead, when can a linked dialog get one of its own or a number two? | two visitors, three messages, one phone number, three dialogs, two merges or archivings, a restart | 1 294 000 |
| `conversation` | What may summarising delete, does a dialog keep its variant, when is no prompt active, or two? | one dialog, two messages answered at once, a follow-up, three edits, two experiments, one fault | 2 095 000 |
| `updates` | Is the host given only what passed its test, when is a deployment lost track of, when are two records active? | two versions, two requests or pushes, two agents, one fault | 2 421 000 |

Why the bounds suffice. Tenants share nothing in `Billing` but the lists of the
two crons, whose iterations are separate actions in any order; one tenant with a
scan that is older than its rows meets every interleaving there is. Two payments
are needed for a renewal next to a checkout and for two activations at once; two deliveries are the
fewest that race. Time advances through the end of the trial and the end of a
period. In `UsageMeter` a limit of 1 with four messages has messages below,
at and past it, the second month the copy of a closed one; two copies are the fewest that overlap. In `CrmStatusSync` two
changes of the CRM and two webhooks at once let the later one be handled first, or between the other's comparison and its
transaction; the third status tells a change that is confirmed from one that is not. In `FollowUp` short
delays let a job overlap with the next scan, two messages of the visitor one with the other. There are
more attempts than jobs because a fault adds whichever is more (`PerFault`): with two jobs and two
attempts the two terms are the same, and the longer one, a whole new series, does not show. In `LeadDelivery` a CRM has both a delivery and an export, and two faults
strike one job twice or two jobs. In `KnowledgeIndex` two crawls, a file and a text
meet on one set of documents; two chunks make a half-written document, two copies a duplicate. In
`LeadCapture` two visitors with three messages in three dialogs allow a link of a dialog
that is itself the target of another. In `SystemUpdates` two versions, requests and
agents are the fewest that get into each other's way. In `Conversation` the threshold
is 3, of which 2 are kept and 4 read at most: with two questions and answers and a follow-up a
dialog passes each of them, and both answers may be compressing at once.
Faults are bounded in number, not in place. Symmetry is declared only for sets whose
members the modules do not tell apart; runs with liveness properties declare none.
Deadlock is not checked: with the bounds used up the models stop, as the system does when
nobody does anything.

Properties that name their exceptions. Much of this code has no lock, so its
correct statement is not "never" but "only by these causes", and the causes are part
of the property: `OneCrawlAtATime`, `CompletedIsIndexed`, `ExclusionStays`,
`LinkedHasNoLead`, `SameNumberIsRace`, `DeployingIsAttended`, `ActiveIsRace`,
`ActiveIsEdited`, `FollowUpsBounded`, `DuplicatesBounded`, `CrmChangesInOrder`, `NoCountForgotten`,
`PostgresNeverGoesBack`. What they exclude is
everything else, in particular any sequence without the race; section 5 shows the exceptions that contradict what is said of
the code. No cause is left out by an instance: webhooks, copies, crawls, edits and agents overlap in the runs.

Two properties of `Billing` are proved and in no run. `OneActiveSubscription` does not survive two activations of one
tenant at once, each of which finds no active subscription and creates one; it is proved of the behaviours
without them, and `SubsBackedByCharges` bounds the race itself. `OneRenewalPending` takes three payments to be about anything.

Each module's `TypeOK` was checked on the bounds of its run; it is listed there
where a theorem proves it.

### Fairness

Only `Billing`, `UsageMeter` and `CrmStatusSync` have liveness runs.
`Billing`: calls and database steps that have begun go on, the hourly expiry runs,
and YooKassa repeats an unanswered notice (strong fairness of a delivery, since
the number of deliveries at once is a bound of the model and a worker may be busy whenever
it comes). `UsageMeter`: a message that was counted goes on, and the minute's cron
runs; nobody has to send a message, and a message that was admitted may be blocked. `CrmStatusSync`: the
worker takes its jobs, a request that has begun goes on, webhooks are delivered,
Redis expires keys. Users, administrators, YooKassa's decisions, the CRM's users, the
clock, faults and the forgetting of finished jobs owe nothing. `FollowUp`,
`LeadDelivery` and `KnowledgeIndex` state a `FairSpec` in the same spirit (what has
begun goes on, workers work), under which the behaviours of section 5 are shown.

## 4. Theorems

Checked by TLAPS for every value of the constants.

- `TypeCorrect` (BillingProofs): `TypeOK`, strengthened by `RowsExist`: the rows a
  process refers to exist, which is what makes its updates well typed.
- `LedgerCorrect`: `LedgerMatchesPayments`. It is not inductive: a commit
  credits a payment without looking at it again. `ClaimsExclusive` says that a delivery
  about to commit holds the row of a payment that is still pending and is the
  only one to; this is what the conditional `updateMany` inside the transaction gives. `NoticesTrue`
  and `LedgerTrue` tie the notices and the ledger to what happened at YooKassa.
- `BillingImplementsLedger`: `Billing` refines `PaymentLedger` under the mapping
  of `Ledger`; every step is a step of the ledger or a stutter, by the same invariant.
- `PaidStays`: `ActiveSubscriptionStays`. What waits in
  `expiring` is a trial (`CancelsTrials`): it was one when it was read, and no row
  becomes active later, since an activation keeps the status of the row it renews.
- `SubscriptionsArePaid`: `SubsBackedByCharges`. A commit adds at most one active
  row (`CommitRows`) and, by the ledger's invariant, always one credited payment, so
  the two cardinalities keep their order (`Backed`).
- `OneRenewalTheorem`: `OneRenewalPending`, inductive with the types: a payment
  becomes pending only when it is created, and the cron creates none beside a pending renewal.
- `OneActiveTheorem`: `OneActiveSubscription` in every behaviour in which no two activations of
  one tenant are between claim and commit at once (`ActivationsApart`). By `NoneFound` (what a claim
  did not find is still not there at its commit) and `OneActive`. Deliveries of other tenants, of
  other kinds, expiry and restarts are free. Nothing in the code keeps such activations apart.
- `LimitTheorem` (UsageMeterProofs): a blocking limit is passed by n - 1 messages
  at most when the API works on n at once. While Redis keeps its data the counter
  equals the count and no row is ahead of it (`CountersAgree`; hydration changes
  nothing then), and what is counted plus what is admitted and not yet counted
  never exceeds `Limit + n - 1` (`RoomForAdmitted`): a message is admitted only
  below the limit, when at most n are at work, and counting moves it from one side to the other.
- `NoticeTheorem`: a threshold is mailed once a month at most. A request that is
  mailing owns its threshold (`OwnersInv`): it created the row, no other request is
  mailing it, and it has not been mailed.
- `CounterTheorem`: the counter never falls while Redis keeps its data.
- `OverdraftTheorem`: `OverdraftBounded`. `BalanceInv` gives each message that was admitted and not
  charged the room its charge needs: the balance less what is still to be charged never falls
  below the bound, since a message is admitted past the limit only with a positive balance.
- `ForgottenTheorem`: `NoCountForgotten`, for any number of copies at once, by `ListedInv`: a row that does not show
  the count, and a copy in hand that does not hold it, will be followed by one that does (`Fresh`), unless the copy has been overtaken.
- `PostgresTheorem`: `PostgresNeverGoesBack`, likewise, by `CopyInv`: what a copy has read is not older than the row,
  unless it has been overtaken.
- `OverageTheorem`: `OverageIsCharged`, by `ChargedInv`: for each tenant the messages past the limit
  are those that were charged and those still owed (`Balanced`). A count puts one message into
  `PastLimit` and one into what is owed, or none into either, and a charge moves one; month by month
  nothing is added up, so the argument needs only that the sets are finite.
- `InOrderTheorem` (CrmProofs): `CrmChangesInOrder`, with any number of users, pushes, changes and webhooks handled at once.
  `CrmProofs` holds the proofs of both CRM modules: it extends `LeadDelivery`, and speaks of
  `CrmStatusSync` through an instance, `Sync`, whose variables and constants have names of their own
  where the two modules share one (`exported` for `lead`, `push` for `job`); what that module
  assumes of its constants is a hypothesis of the theorem (`SyncConstants`).
  Nothing is dated in the future (`NotAhead`), and a webhook that passed the comparison reports a change no older than
  what the lead shows, unless it is among the `outdated` (`StillNewer`): whatever brings a later change
  puts it there, and so does a comparison with a row that is older than what it was found to show.
- `TypeCorrect` (FollowUpProofs): by `CloserInv`, the types together with `InboundOK`
  (nobody handles more messages than there are) and `JobOK` (a job goes on only with a
  count that leaves room for an attempt, which keeps the row's count in range).
- `LeftAloneTheorem`: `CompleteLeadIsLeftAlone`. What was sent since the completing
  message plus what is past its check never exceeds the jobs there are: a check under a
  complete lead adds nothing to either, and storing moves a job from one to the other.
- `BoundedTheorem`: `FollowUpsBounded`, with the term that refused messages add. `SeriesInv` says in which of three ways the bound has been
  used: nothing beyond the row's count and the jobs at work has been sent (`Low`), the dialog's
  series is over (`Ended`), or it is on the way up from a reset with one job in hand (`Level`). A minute
  that nobody overruns keeps jobs of two scans apart (`OneJob`), which only a fault can end; each fault
  adds either a further job at work or a whole series, when a restart loses the visitor's message
  after its reset of the count and the job in flight arms the schedule again. A message that is refused does the latter without any
  fault, and its reset may be written long after it: the bound rises when it is refused, and as long as a reset
  is outstanding the room for its series is kept (`Floor`).
- `TypeCorrect`, `LinkTheorem` (CrmProofs): by `DeliveryInv`, the types with
  what a job's step says of the world: an export is under way only for a CRM
  (`ExportSteps`), a call that returned was received (`CallsMade`), a success row means that the
  delivery is past its call (`LoggedDone`).
- `NotRepeatedTheorem`: `LoggedIsNotRepeated`, from `LoggedDone`: who may still call has no
  success row.
- `DuplicatesTheorem`: `DuplicatesBounded`. Not inductive: the bound must leave room for
  calls yet to come. `CallsBounded` says that what was received plus what jobs still owe
  never exceeds what was allowed; each call turns a debt into a receipt, and each fault or
  use of the button raises both sides.
- `OneCrawlTheorem` (KnowledgeIndexProofs): `OneCrawlAtATime`, by `CrawlsApart`: until two requests have raced or a
  crawl has stalled, at most one crawl is past the check and not yet ended, and from the creation of its row to its
  end that row is queued or running (`RowOfLive`), so the check of the next one refuses.
- `IndexedTheorem`: `CompletedIsIndexed`. `ContentInv` says of a document nobody else has touched
  what its chunks are from the clearing on: those of the parts inserted so far (`Written`), then all of one
  version; it is not `completed` meanwhile, and has one indexer. `OneRowInv` is the second half: a crawl that found no document of a page (`NewIsNew`)
  still finds none when it creates one, because no other crawl is at work (`OneAtWork`), unless two overlapped.
- `ExclusionTheorem`: `ExclusionStays`, by `LateHold`: whoever works with an excluded document held it when it was
  excluded; no step of a crawl or an ingest comes to a document that is excluded by then. That a file
  has no document before its upload (`NoRowYet`) excludes the one step that could.
- `TypeCorrect`, `NumberTheorem` (LeadCaptureProofs): by `CaptureInv`. `NumberTheorem` says that the dialog, one hop on, has a lead, not
  that the lead has the message's number. A lead, once there,
  stays a lead of its number, a served dialog stays served (`Grows`), and `ReliesOn` says for
  each await what a handler counts on afterwards; the step from one to the next needs only what grows.
- `RaceTheorem`: `SameNumberIsRace`, from `LeadsReal`: whoever created a lead knew of no
  other with its number, at the moment he looked.
- `LinkTheorem`: `LinkedHasNoLead`. While no two messages of a session are handled at once
  (`~crossed`), a handler that links or creates is alone with its dialog and finds it clear (`Alone`).
- `RecentTheorem` (ConversationProofs): `RecentMessagesStay`, from `OldIsOld`: what a request
  is about to delete is older than the newest `Keep`, and messages that are stored meanwhile only
  make it older; so the overlap of compressions does no harm to them.
- `SummarisedTheorem`: `DeletedIsSummarised`, with `DeletesSummarised`: who is about to
  delete has stored the summary.
- `VariantTheorem`: `OneVariant`, from `GivenIsAssigned`: the variant a prompt is made from is the
  one in the dialog's only row, because the loser of two creates is refused.
- `EditTheorem`: `ActiveIsEdited`. Until two edits overlapped, at most one version is active, and
  none while an edit is between its statements (`Undisputed`); none active is always explained by an edit that is
  half-way or was lost there, or by one that is yet to activate its version (`Explained`).
- `TestedTheorem` (SystemUpdatesProofs): `HostJobsAreTested`, by `TestedInv`: who is past a check of the status,
  and every job and slot that came of it, names an update whose row passed, and its snapshot exists. It is said of the row: what is
  built may be something else (`TestedCodeIsBuilt`, section 5).
- `ActiveTheorem`: `ActiveIsRace`, by `RaceInv`: what an agent saw when it put the earlier records aside are
  the records there were then, and whatever was active among them is so no more.
- `AttendedTheorem`: `DeployingIsAttended`, by `AttendedInv`: who is about to write `deploying` has queued
  the job, and it is in the slot or with an agent, or `stranded` has the update already.

The assumptions are those the modules name: of the constants, that a tariff's
period is positive, the limit is positive and the set of requests is finite and not empty,
that `CRMs` are channels and `NoPhone` no phone number, `Keep < Threshold <= Limit`, that there
are attempts, that pages, files and texts are different things, and so are crawls, files and edits (`IndexSets`:
they are rows of different tables, or of different types); the rest are the types of the bounds.

Only model-checked: the liveness properties (`PaidCheckoutIsCredited`, `TrialEventuallyExpires`,
`CountReachesPostgres`, `ThresholdIsMailed`, `Settles`, `PushIsRetried`), which rest on fairness and
ENABLED. Every invariant and action property of the runs is proved. The type invariants of `UsageMeter`,
`KnowledgeIndex`, `Conversation` and `SystemUpdates` are parts of the inductive invariants (`Shapes`) and no
theorems of their own.

## 5. Where the code differs from what is said of it

Each line has a configuration in which TLC finds the behaviour (`tlc -config X.cfg
MCModule`); they are kept beside the project and are not runs of `PROJECT.json`.

| Configuration | Property | What the code does |
|---|---|---|
| `Billing_refund` | `AcknowledgedRefundIsRecorded` (MASTER:1309) | a refund of a payment that succeeded is acknowledged and not recorded, because `succeeded` counts as terminal before the event is looked at |
| `Billing_early_notice` | `AcknowledgedSuccessIsCredited` (MASTER:1309) | the success of a renewal that arrives before the renewal stored its YooKassa id is acknowledged as unknown and never credited |
| `Billing_trial_race` | `TrialExpiresOnlyUnpaid` (MASTER:1298) | trial expiry writes what it read before the tenant paid |
| `Usage_restart` | `CountSurvivesRestart` (MASTER:1301) | a count that is dirty at a restart and has no row is not copied |
| `Usage_overlap` | `CopyKeepsCount` (MASTER:1290) | two copies overlap, because the next minute's does not wait, and the later write puts an older count over a newer one |
| `CrmSync_confirmed` | `LaterChangeWins` (MASTER:1069) | a later change that is confirmed as `no_change` leaves the row its date, and a late webhook of an earlier change puts the lead back |
| `CrmSync_later` | `LaterChangeWins` (MASTER:1069) | a user's change between the check and the transaction of an inbound webhook is overwritten by the earlier one |
| `CrmSync_job_id` | `LocalChangeReachesCrm` (MASTER:1388) | a status chosen again while the job of its first push is held is not pushed |
| `FollowUp_race` | `FollowUpIsSent` (packages/shared-types/src/closer.ts:3) | the scan writes the next date before its job has checked, and the job then skips the dialog as not due |
| `FollowUp_refused` | `MaxAttemptsKept` (packages/shared-types/src/closer.ts:8) | a message that is refused for the limit has reset the count: the silent visitor gets five follow-ups with a maximum of three |
| `LeadDelivery_retry` | `RetryIsMade` (MASTER:1374) | the retry of an export whose failed job the queue still holds sets the lead to pending and nothing runs |
| `LeadCapture_answer` | `AnswerIsRouted` (lead-dedup.service.ts:171) | a message whose handling links its dialog is moved, and its answer is stored in the dialog it left |
| `KnowledgeIndex_hang` | `NoJobHangs` (MASTER:1050) | a file deleted before its ingest leaves the job's row running for ever, and every later crawl is refused |
| `SystemUpdates_failed` | `FailedIsRolledBack` (docs/RELEASE.md:9, system-updates.service.ts:272) | a deployment that fails after the container was replaced is reported as rolled back and goes on running |
| `SystemUpdates_slot` | `QueuedIsTaken` (system-updates.service.ts:238) | a job queued before the agent took the last one overwrites it |
| `SystemUpdates_tested` | `TestedCodeIsBuilt` (MASTER:584) | a push to main between the test of a version and its deployment: the untested head is built, verified under the tested version's name and completed |
| `Conversation_prompts` | `OnePromptActive` (MASTER:1244) | two edits that overlap leave two versions active |
| `Conversation_converted` | `ConversionIsCounted` (MASTER:948) | a lead that is complete with a dialog's first message is never counted for its variant, whose row is created later in the same request |

Read in the code or seen in a trace while modelling; the models contain the behaviour, without a configuration of
its own:

- *Billing.* A renewal charged ahead of time counts its period from the charge, not from the
  end of the running one (webhook.service.ts:95; MASTER:1322). The catch block of checkout and
  renewal cancels a payment that a webhook has settled meanwhile, when the update's reply was
  lost (checkout.service.ts:116).
- *Usage.* With a blocking limit of n, message n + 1 passes when several are at work at once (MASTER:1299);
  the balance becomes negative in the same way (admin-tenants.service.ts:344). A restart
  between the row of a notification and its e-mail loses the e-mail (MASTER:1300). A Redis that
  comes back empty under a running API takes the counter, and with the next copy the row, back
  to 1 (docs/RUNBOOK.md:50). A copy that throws forgets the rest of its list until another
  message or a restart.
- *Follow-up.* A restart can lose a visitor's message whose reset of the count has been written; a job in flight
  then arms the schedule again, and the silent visitor gets a whole new series.
- *CRM.* A delayed push sends the status it was queued with, and its echo puts the lead back;
  a second change in the CRM before the first one's webhook was processed is rejected (MASTER:1069).
  `release` deletes the lock whoever set it, and `refresh` sets it over another holder
  (MASTER:1381). Status and history are two statements: the timeline's last row can differ
  from the status (MASTER:1281).
- *Leads.* Two overlapping links of one dialog move the first one's marker with the messages. A
  merge into a lead that was archived meanwhile, or two merges that cross, archive both; later messages of a merged
  dialog go to an archived lead.
- *Knowledge.* An exclusion during a page's indexing is overwritten. A page that could not be
  fetched is deleted as an orphan. A crash between the two statements of an exclusion leaves
  a completed document without chunks. A row that finished before its queue's job is run again after a restart.
- *Updates.* The staging test looks at the server that runs, not at the version (deployment-runner.service.ts:62). A
  deployment that finds nothing to build is a success if the API has the version's name already. A request that is refused on its second read has queued its job and is deployed all
  the same. A rollback that failed leaves `deploying`. The ids `:staging` and `:rollback` of an
  update stay held, so a second test or rollback never runs; a rollback's job may run twice after
  a restart. The rollback script's call of `/sync` is refused (`rolledBackAt` is not in
  the DTO). Nothing keeps two agents apart; `production_deploy` jobs are never queued;
  `appendLog` reads and writes without a transaction.
- *Conversation.* A new summary replaces the last one and is made without it, so what was summarised
  twice over is lost to the AI; two compressions at once lose the earlier one's part.
  Answers that come from the cache or are refused do not compress, and beyond 50 messages the newest
  are summarised first. The answer of the mock provider during an outage is cached like any other,
  for 168 hours, which also makes the error branch of `streamResponse` unreachable. The cache is per tenant, not
  per source, and new knowledge or prompts do not empty it. An edit of a prompt that is lost
  between its statements leaves none active until the next. A dialog keeps its variant's letter under the next experiment.

## 6. Not modelled, and the plan

Not modelled, with the reason in `PROJECT.json`: the stability monitor (a cron every two
hours whose last statuses are in memory, so that a restart or an overlap can leave an incident open);
authentication and team; sources, channels, reports, notifications, push and export files; the
choice of a provider, retrieval and embeddings; the rate limits and sessions of the widget (a burst passes the
limit, since it counts before it adds); tariff limits on pages and storage; names, e-mail
addresses, tags and notes of leads; provider keys (testing a draft key puts it in place of
the live one for a moment); outgoing webhooks and conversion tracking, which are tried once; the
user interfaces and installation scripts. Most of the repository's lines are of these
kinds: components of React, DTOs, controllers, queries and texts, in which nothing
happens between two steps. That, not a lack of modules, limits the share of lines the models cover.

What is left, in order:

1. Liveness of `FollowUp`, `LeadDelivery` and `KnowledgeIndex` outside the behaviours of section 5.
2. Abstract specifications for `KnowledgeIndex` (a document is either what retrieval may read or not) and
   `SystemUpdates` (an update is tested, then handed to the host), with proofs of refinement like that of `PaymentLedger`.
3. A composition of `LeadCapture` and `Conversation`: merges that move messages while a compression deletes.
4. The stability monitor, and token refresh of the authentication.
