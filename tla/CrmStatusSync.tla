--------------------------- MODULE CrmStatusSync ---------------------------
(***************************************************************************)
(* Two-way synchronisation of a lead's status with an external CRM:        *)
(* leads.service.ts (updateStatus), the queue and worker of status pushes, *)
(* crm-status-sync.service.ts and the Redis lock of crm-sync-lock.         *)
(*                                                                         *)
(* One lead that has been exported, with a complete status mapping and     *)
(* bidirectionalSync on; leads share nothing but the queue. A push, an     *)
(* inbound webhook and an editor's request are each split at their awaits. *)
(***************************************************************************)
EXTENDS Naturals, FiniteSets, Sequences

CONSTANTS
    Statuses, FirstStatus,
    Editors,         \* requests of our users that change the status
    Handlers,        \* inbound webhooks the API may be handling at once
    Concurrency,     \* of the push worker
    Attempts,        \* of a push job
    MaxTime,         \* bound: the clock stops here
    MaxEdits,        \* bound: status changes by our users ...
    MaxTouches,      \* ... other updates of the lead's row ...
    MaxCrmEdits,     \* ... and status changes by users of the CRM
    Faults, MaxFaults

FaultKinds == {"restart", "call_fails", "call_times_out"}

ASSUME SyncAssumption ==
    /\ FirstStatus \in Statuses
    /\ Concurrency \in Nat \ {0} /\ Attempts \in Nat \ {0}

ASSUME BoundsAssumption ==
    /\ MaxTime \in Nat /\ MaxEdits \in Nat /\ MaxTouches \in Nat /\ MaxCrmEdits \in Nat
    /\ Faults \subseteq FaultKinds /\ MaxFaults \in Nat

VARIABLES
    lead,      \* statusId and updatedAt; of: when the latest change was made that
               \* it has shown, or that a webhook found it showing (history)
    lastRow,   \* toStatusId of the newest LeadStatusHistory row
    chosen,    \* the status our users chose last (history)
    editor,    \* requests that have saved the status and not yet queued its push
    job,       \* the job <lead>:status:<s>, with the step its worker has reached
    tries,     \* attempts the job has used
    stalls,    \* how often its worker died
    queue,     \* the jobs waiting for a worker, in order
    lock,      \* crm:sync:lock:<lead>
    handler,   \* inbound webhooks in progress
    outdated,  \* those of them whose comparison of dates does not tell what it
               \* should: see Overtaken and ReceiveWebhook (history)
    crm,       \* the deal's status in the CRM, and when it was set
    sent,      \* webhooks the CRM has sent and not yet seen answered
    now,
    spent      \* what is used up of each bound

leadVars == <<lead, lastRow, chosen>>
jobVars  == <<job, tries, stalls, queue>>
crmVars  == <<crm, sent>>
inboundVars == <<handler, outdated>>
vars == <<leadVars, editor, jobVars, lock, inboundVars, crmVars, now, spent>>

Times   == 0..MaxTime
Webhook == [status : Statuses, at : Times]
Running == {"started", "contended", "refreshing", "calling", "called", "threw"}
Origins == {"internal", "external"}

\* maxStalledCount of a BullMQ worker
MaxStalled == 1

Idle == [pc |-> "idle"]

TypeOK ==
    /\ lead \in [status : Statuses, at : Times, of : Times]
    /\ lastRow \in Statuses /\ chosen \in Statuses
    /\ editor \in [Editors -> {Idle} \cup [pc : {"saved", "recorded"}, to : Statuses]]
    /\ job \in [Statuses -> Running \cup {"none", "waiting", "delayed", "completed", "failed"}]
    /\ queue \in Seq(Statuses)
    /\ \A s \in Statuses : job[s] = "waiting" <=> \E i \in DOMAIN queue : queue[i] = s
    /\ tries \in [Statuses -> 0..Attempts]
    /\ stalls \in [Statuses -> 0..MaxStalled + 1]
    /\ lock \in Origins \cup {"free"}
    /\ handler \in [Handlers -> {Idle} \cup
                      [pc : {"checked", "contended", "refreshing", "locked", "applied"},
                       hook : Webhook]]
    /\ outdated \subseteq {h \in Handlers : handler[h] # Idle}
    /\ crm \in Webhook
    /\ sent \subseteq Webhook
    /\ now \in Times
    /\ spent \in [{"edits", "touches", "crm", "faults"} -> Nat]

Init ==
    /\ lead = [status |-> FirstStatus, at |-> 0, of |-> 0]
    /\ lastRow = FirstStatus /\ chosen = FirstStatus
    /\ editor = [e \in Editors |-> Idle]
    /\ job = [s \in Statuses |-> "none"]
    /\ tries = [s \in Statuses |-> 0]
    /\ stalls = [s \in Statuses |-> 0]
    /\ queue = <<>>
    /\ lock = "free"
    /\ handler = [h \in Handlers |-> Idle]
    /\ outdated = {}
    /\ crm = [status |-> FirstStatus, at |-> 0]
    /\ sent = {}
    /\ now = 0
    /\ spent = [b \in {"edits", "touches", "crm", "faults"} |-> 0]

Spend(b, max) == spent[b] < max /\ spent' = [spent EXCEPT ![b] = @ + 1]

Fault(kind) == kind \in Faults /\ Spend("faults", MaxFaults)

-----------------------------------------------------------------------------
(* Our users: leads.service.ts *)

\* A webhook that has passed the comparison of dates and is not yet applied.
Accepted(h) == handler[h].pc \in {"checked", "contended", "refreshing", "locked"}

\* the webhooks in progress that report an earlier change than one made at t
Overtaken(t) == {h \in Handlers : Accepted(h) /\ handler[h].hook.at < t}

\* updateStatus up to lead.update
SaveStatus(e, s) ==
    /\ editor[e] = Idle
    /\ Spend("edits", MaxEdits)
    /\ lead' = [status |-> s, at |-> now, of |-> now]
    /\ chosen' = s
    /\ editor' = [editor EXCEPT ![e] = [pc |-> "saved", to |-> s]]
    /\ outdated' = outdated \cup Overtaken(now)
    /\ UNCHANGED <<lastRow, jobVars, lock, handler, crmVars, now>>

\* leadStatusHistory.create
RecordHistory(e) ==
    /\ editor[e].pc = "saved"
    /\ lastRow' = editor[e].to
    /\ editor' = [editor EXCEPT ![e].pc = "recorded"]
    /\ UNCHANGED <<lead, chosen, jobVars, lock, inboundVars, crmVars, now, spent>>

\* statusQueue.add: a job whose id the queue still holds, finished or not, is
\* not added again
AddJob(s) ==
    IF job[s] # "none" THEN UNCHANGED jobVars
    ELSE /\ job' = [job EXCEPT ![s] = "waiting"]
         /\ tries' = [tries EXCEPT ![s] = 0]
         /\ stalls' = [stalls EXCEPT ![s] = 0]
         /\ queue' = Append(queue, s)

EnqueuePush(e) ==
    /\ editor[e].pc = "recorded"
    /\ AddJob(editor[e].to)
    /\ editor' = [editor EXCEPT ![e] = Idle]
    /\ UNCHANGED <<leadVars, lock, inboundVars, crmVars, now, spent>>

\* assign, updateNotes, enrichLead, ...: any update of the row sets updatedAt
TouchLead ==
    /\ Spend("touches", MaxTouches)
    /\ lead' = [lead EXCEPT !.at = now]
    /\ UNCHANGED <<lastRow, chosen, editor, jobVars, lock, inboundVars, crmVars, now>>

-----------------------------------------------------------------------------
(* The push worker: pushStatusOutbound *)

StartPush(s) ==
    /\ queue # <<>> /\ s = Head(queue)
    /\ queue' = Tail(queue)
    /\ Cardinality({q \in Statuses : job[q] \in Running}) < Concurrency
    /\ job' = [job EXCEPT ![s] = "started"]
    /\ tries' = [tries EXCEPT ![s] = @ + 1]
    /\ UNCHANGED <<leadVars, editor, stalls, lock, inboundVars, crmVars, now, spent>>

\* SET NX EX of the lock's key
LockPush(s) ==
    /\ job[s] = "started"
    /\ \/ /\ lock = "free"
          /\ lock' = "internal"
          /\ job' = [job EXCEPT ![s] = "calling"]
       \/ /\ lock # "free"
          /\ job' = [job EXCEPT ![s] = "contended"]
          /\ UNCHANGED lock
    /\ UNCHANGED <<leadVars, editor, tries, stalls, queue, inboundVars, crmVars, now, spent>>

\* getOrigin: the push gives way to an inbound webhook, and is done
YieldOrRefresh(s) ==
    /\ job[s] = "contended"
    /\ job' = [job EXCEPT ![s] = IF lock = "external" THEN "completed" ELSE "refreshing"]
    /\ UNCHANGED <<leadVars, editor, tries, stalls, queue, lock, inboundVars, crmVars, now, spent>>

RefreshPushLock(s) ==
    /\ job[s] = "refreshing"
    /\ lock' = "internal"
    /\ job' = [job EXCEPT ![s] = "calling"]
    /\ UNCHANGED <<leadVars, editor, tries, stalls, queue, inboundVars, crmVars, now, spent>>

\* the CRM takes the status and reports a change of it by webhook
CrmTakes(s) ==
    /\ crm' = [status |-> s, at |-> now]
    /\ sent' = IF crm.status = s THEN sent ELSE sent \cup {crm'}

\* updateExternalStatus: it sends the job's status, whatever the lead's is now
CallCrm(s) ==
    /\ job[s] = "calling"
    /\ \/ CrmTakes(s) /\ job' = [job EXCEPT ![s] = "called"] /\ UNCHANGED spent
       \/ Fault("call_fails") /\ job' = [job EXCEPT ![s] = "threw"] /\ UNCHANGED crmVars
       \/ Fault("call_times_out") /\ CrmTakes(s) /\ job' = [job EXCEPT ![s] = "threw"]
    /\ UNCHANGED <<leadVars, editor, tries, stalls, queue, lock, inboundVars, now>>

\* Mutant: a push that threw is not tried again.
EndPushForGood(s) ==
    /\ job[s] \in {"called", "threw"}
    /\ lock' = "free"
    /\ job' = [job EXCEPT ![s] = IF @ = "called" THEN "completed" ELSE "failed"]
    /\ UNCHANGED <<leadVars, editor, tries, stalls, queue, inboundVars, crmVars, now, spent>>

\* finally: the lock's key is deleted, whoever holds it; a job that threw is
\* put off until its next attempt
EndPush(s) ==
    /\ job[s] \in {"called", "threw"}
    /\ lock' = "free"
    /\ job' = [job EXCEPT ![s] = IF @ = "called" THEN "completed"
                                 ELSE IF tries[s] < Attempts THEN "delayed" ELSE "failed"]
    /\ UNCHANGED <<leadVars, editor, tries, stalls, queue, inboundVars, crmVars, now, spent>>

\* the backoff is over
Retry(s) ==
    /\ job[s] = "delayed"
    /\ job' = [job EXCEPT ![s] = "waiting"]
    /\ queue' = Append(queue, s)
    /\ UNCHANGED <<leadVars, editor, tries, stalls, lock, inboundVars, crmVars, now, spent>>

\* BullMQ forgets a finished job when 200 completed or 100 failed ones follow it.
ForgetJob(s) ==
    /\ job[s] \in {"completed", "failed"}
    /\ job' = [job EXCEPT ![s] = "none"]
    /\ UNCHANGED <<leadVars, editor, tries, stalls, queue, lock, inboundVars, crmVars, now, spent>>

-----------------------------------------------------------------------------
(* Inbound webhooks: applyStatusInbound *)

Answer(m) == sent' = sent \ {m}

\* Mutant: the dates are not compared.
OverwrittenNever(m) == FALSE

\* the lead's row is newer than the change the webhook reports
Overwritten(m) == lead.at > m.at /\ lead.status # m.status

\* no_change: the lead shows the status already; nothing is written, so the row
\* keeps its date, whatever the date of the change
Confirm(m) ==
    /\ lead' = [lead EXCEPT !.of = IF m.at > @ THEN m.at ELSE @]
    /\ outdated' = outdated \cup Overtaken(m.at)
    /\ Answer(m)
    /\ UNCHANGED handler

\* The webhook goes on; it is outdated from the start when the row's date is
\* older than a change the lead was only confirmed to show.
Accept(h, m) ==
    /\ handler' = [handler EXCEPT ![h] = [pc |-> "checked", hook |-> m]]
    /\ outdated' = IF lead.of > lead.at THEN outdated \cup {h} ELSE outdated
    /\ UNCHANGED <<lead, sent>>

\* Mutant: a webhook that comes too late is refused, so that the CRM repeats it.
ReceiveWebhookRefusing(h, m) ==
    /\ handler[h] = Idle /\ m \in sent
    /\ \/ Overwritten(m) /\ UNCHANGED <<lead, inboundVars, sent>>
       \/ lead.status = m.status /\ Confirm(m)
       \/ ~Overwritten(m) /\ lead.status # m.status /\ Accept(h, m)
    /\ UNCHANGED <<lastRow, chosen, editor, jobVars, lock, crm, now, spent>>

\* lead.findFirst and the decisions taken on what it returns
ReceiveWebhook(h, m) ==
    /\ handler[h] = Idle /\ m \in sent
    /\ \/ Overwritten(m) /\ Answer(m) /\ UNCHANGED <<lead, inboundVars>>
       \/ lead.status = m.status /\ Confirm(m)
       \/ ~Overwritten(m) /\ lead.status # m.status /\ Accept(h, m)
    /\ UNCHANGED <<lastRow, chosen, editor, jobVars, lock, crm, now, spent>>

LockInbound(h) ==
    /\ handler[h].pc = "checked"
    /\ \/ /\ lock = "free"
          /\ lock' = "external"
          /\ handler' = [handler EXCEPT ![h].pc = "locked"]
       \/ /\ lock # "free"
          /\ handler' = [handler EXCEPT ![h].pc = "contended"]
          /\ UNCHANGED lock
    /\ UNCHANGED <<leadVars, editor, jobVars, outdated, crmVars, now, spent>>

\* getOrigin: the webhook gives way to a push, and is answered
SkipOrRefresh(h) ==
    /\ handler[h].pc = "contended"
    /\ \/ /\ lock = "internal"
          /\ Answer(handler[h].hook)
          /\ handler' = [handler EXCEPT ![h] = Idle]
          /\ outdated' = outdated \ {h}
       \/ /\ lock # "internal"
          /\ handler' = [handler EXCEPT ![h].pc = "refreshing"]
          /\ UNCHANGED <<outdated, sent>>
    /\ UNCHANGED <<leadVars, editor, jobVars, lock, crm, now, spent>>

RefreshInboundLock(h) ==
    /\ handler[h].pc = "refreshing"
    /\ lock' = "external"
    /\ handler' = [handler EXCEPT ![h].pc = "locked"]
    /\ UNCHANGED <<leadVars, editor, jobVars, outdated, crmVars, now, spent>>

\* the transaction: lead, history and log
ApplyInbound(h) ==
    /\ handler[h].pc = "locked"
    /\ LET m == handler[h].hook
       IN  /\ lead' = [status |-> m.status, at |-> now, of |-> m.at]
           /\ lastRow' = m.status
           /\ outdated' = (outdated \cup Overtaken(m.at)) \ {h}
    /\ handler' = [handler EXCEPT ![h].pc = "applied"]
    /\ UNCHANGED <<chosen, editor, jobVars, lock, crmVars, now, spent>>

ReleaseInbound(h) ==
    /\ handler[h].pc = "applied"
    /\ lock' = "free"
    /\ Answer(handler[h].hook)
    /\ handler' = [handler EXCEPT ![h] = Idle]
    /\ UNCHANGED <<leadVars, editor, jobVars, outdated, crm, now, spent>>

-----------------------------------------------------------------------------
(* The rest of the world *)

\* a user of the CRM (external); the CRM dates changes in their order
EditInCrm(s) ==
    /\ s # crm.status /\ crm.at < now
    /\ Spend("crm", MaxCrmEdits)
    /\ CrmTakes(s)
    /\ UNCHANGED <<leadVars, editor, jobVars, lock, inboundVars, now>>

\* CRM_SYNC_LOCK_TTL_SEC are over
LockExpires ==
    /\ lock # "free"
    /\ lock' = "free"
    /\ UNCHANGED <<leadVars, editor, jobVars, inboundVars, crmVars, now, spent>>

\* The API restarts: requests are gone, and BullMQ starts a job whose worker
\* died again, which is no attempt, MaxStalled times.
Restart ==
    /\ Fault("restart")
    /\ editor' = [e \in Editors |-> Idle]
    /\ handler' = [h \in Handlers |-> Idle]
    /\ outdated' = {}
    /\ stalls' = [s \in Statuses |-> IF job[s] \in Running THEN stalls[s] + 1 ELSE stalls[s]]
    /\ job' = [s \in Statuses |-> IF job[s] \notin Running THEN job[s]
                                  ELSE IF stalls'[s] > MaxStalled THEN "failed" ELSE "delayed"]
    /\ tries' = [s \in Statuses |-> IF job[s] \in Running THEN tries[s] - 1 ELSE tries[s]]
    /\ UNCHANGED <<leadVars, queue, lock, crmVars, now>>

Tick ==
    /\ now < MaxTime
    /\ now' = now + 1
    /\ UNCHANGED <<leadVars, editor, jobVars, lock, inboundVars, crmVars, spent>>

-----------------------------------------------------------------------------

Edit(e) ==
    \/ \E s \in Statuses : SaveStatus(e, s)
    \/ RecordHistory(e) \/ EnqueuePush(e)

PushStep(s) ==
    \/ StartPush(s) \/ LockPush(s) \/ YieldOrRefresh(s) \/ RefreshPushLock(s)
    \/ CallCrm(s) \/ EndPush(s) \/ Retry(s)

InboundStep(h) ==
    \/ LockInbound(h) \/ SkipOrRefresh(h) \/ RefreshInboundLock(h)
    \/ ApplyInbound(h) \/ ReleaseInbound(h)

Next ==
    \/ \E e \in Editors : Edit(e)
    \/ TouchLead
    \/ \E s \in Statuses : PushStep(s) \/ ForgetJob(s) \/ EditInCrm(s)
    \/ \E h \in Handlers : InboundStep(h) \/ \E m \in sent : ReceiveWebhook(h, m)
    \/ LockExpires \/ Restart \/ Tick

Spec == Init /\ [][Next]_vars

\* The worker takes its jobs, the API goes on with what it has begun, webhooks
\* are delivered, and Redis expires its keys. Users owe nothing.
Fairness ==
    /\ \A e \in Editors : WF_vars(RecordHistory(e)) /\ WF_vars(EnqueuePush(e))
    /\ \A s \in Statuses : WF_vars(PushStep(s))
    /\ \A h \in Handlers :
         /\ WF_vars(InboundStep(h))
         /\ \A m \in Webhook : WF_vars(ReceiveWebhook(h, m))
    /\ WF_vars(LockExpires)

FairSpec == Spec /\ Fairness

-----------------------------------------------------------------------------
(* Properties *)

Quiet ==
    /\ \A e \in Editors : editor[e] = Idle
    /\ \A s \in Statuses : job[s] \notin Running \cup {"waiting", "delayed"}
    /\ \A h \in Handlers : handler[h] = Idle
    /\ sent = {}

\* The lead goes from a change to a later one and never back, whoever made the
\* two, in whatever order the webhooks arrive and whatever else updates its row,
\* with two exceptions. A webhook in progress puts the lead back when, after its
\* comparison of dates, another webhook or one of our users brought a later
\* change. And it does when the row it was compared with had been found to show
\* a later change already: no_change leaves the row its older date.
CrmChangesInOrder ==
    [][\/ lead'.of >= lead.of
       \/ \E h \in outdated : Accepted(h) /\ ~Accepted(h)']_lead

\* Both sides come to rest after the last change: a push that the CRM echoes, a
\* webhook that changes the lead, retries and a lock lost on the way make no
\* endless exchange.
Settles == <>[]Quiet

\* The CRM takes the status of a queued push, though calls fail or the API
\* restarts, unless there are as many faults as a job has attempts, its worker
\* dies twice, or a webhook has taken the lock, to which a push gives way.
PushIsRetried ==
    \A s \in Statuses :
        job[s] = "waiting" ~>
          \/ crm.status = s
          \/ spent["faults"] >= Attempts \/ stalls[s] > MaxStalled
          \/ lock = "external"

\* UC-11, "the later change is applied, the earlier one logged as overwritten":
\* the lead never goes back to the earlier of two changes.
LaterChangeWins == [][lead'.of >= lead.of]_lead

\* A status our user chose last and that the lead keeps reaches the CRM.
LocalChangeReachesCrm ==
    \A s \in Statuses :
        (lead.status = s /\ chosen = s) ~> (crm.status = s \/ lead.status # s)
=============================================================================
