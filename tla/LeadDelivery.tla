---------------------------- MODULE LeadDelivery ----------------------------
(***************************************************************************)
(* What happens to a new lead outside: its delivery to the tenant's        *)
(* channels (Telegram, e-mail, a sheet, a CRM) by the queue lead-delivery, *)
(* and its export to the CRMs, by the same deliveries and by the queue     *)
(* crm-export, which the retry button fills.                               *)
(*                                                                         *)
(* One lead; leads share nothing but the queues.  A job is split at its    *)
(* awaits.  A channel of CRMs is the channel of that CRM, and every CRM    *)
(* has one (ensureCrmChannels).                                            *)
(***************************************************************************)
EXTENDS Naturals, FiniteSets

CONSTANTS
    Channels, CRMs,
    Attempts,        \* of a job: LEAD_DELIVERY_MAX_ATTEMPTS, CRM_EXPORT_MAX_ATTEMPTS
    MaxRetries,      \* bound: uses of the retry button
    MaxConnects,     \* bound: disconnections and reconnections of a CRM
    Faults, MaxFaults

FaultKinds == {"restart", "answer_lost", "write_fails"}

\* externalCrmType: null
Unsynced == "none"

ASSUME ChannelAssumption ==
    /\ CRMs \subseteq Channels /\ Unsynced \notin CRMs
    /\ Attempts \in Nat \ {0}

ASSUME DeliveryBounds ==
    /\ MaxRetries \in Nat /\ MaxConnects \in Nat
    /\ Faults \subseteq FaultKinds /\ MaxFaults \in Nat

VARIABLES
    lead,        \* externalCrmType of its externalId, and syncStatus
    connected,   \* CRMs whose integration is active
    toQueue,     \* jobs a request has yet to add, and whether it is a retry's
    job,         \* the job of each id, with the step its worker has reached
    success,     \* channels with a LeadDeliveryLog row `success`
    received,    \* how often each channel has got the lead: a message or a deal
    spent        \* what is used up of each bound

vars == <<lead, connected, toQueue, job, success, received, spent>>

Deliver(c) == <<"lead-delivery", c>>
Export(c)  == <<"crm-export", c>>
Jobs == {Deliver(c) : c \in Channels} \cup {Export(c) : c \in CRMs}

Queue(j)  == j[1]
Target(j) == j[2]

\* maxStalledCount of a BullMQ worker
MaxStalled == 1

InWork  == {"loaded", "exporting", "called", "delivered", "logged", "threw", "dead"}
JobPc   == {"none", "waiting", "completed", "failed"} \cup InWork

TypeOK ==
    /\ lead \in [crm : CRMs \cup {Unsynced}, sync : {"none", "pending", "synced", "failed"}]
    /\ (lead.sync = "synced") => (lead.crm # Unsynced)
    /\ connected \subseteq CRMs
    /\ toQueue \subseteq Jobs
    /\ job \in [Jobs -> [pc : JobPc, tries : 0..Attempts, stalls : 0..MaxStalled + 1,
                         known : CRMs \cup {Unsynced}]]
    /\ \A j \in Jobs : job[j].pc = "exporting" => Target(j) \in CRMs
    /\ success \subseteq Channels
    /\ received \in [Channels -> Nat]
    /\ spent \in [{"retries", "connects", "faults"} -> Nat]

NoJob == [pc |-> "none", tries |-> 0, stalls |-> 0, known |-> Unsynced]

\* The lead has just been created, and enqueueForLead has read the channels.
Init ==
    /\ lead = [crm |-> Unsynced, sync |-> "none"]
    /\ connected = CRMs
    /\ toQueue = {Deliver(c) : c \in Channels}
    /\ job = [j \in Jobs |-> NoJob]
    /\ success = {}
    /\ received = [c \in Channels |-> 0]
    /\ spent = [b \in {"retries", "connects", "faults"} |-> 0]

Spend(b, max) == spent[b] < max /\ spent' = [spent EXCEPT ![b] = @ + 1]

Fault(kind) == kind \in Faults /\ Spend("faults", MaxFaults)

-----------------------------------------------------------------------------
(* Requests: lead-delivery-queue.service.ts and crm-sync.service.ts *)

\* queue.add: a job whose id the queue still holds, finished or not, is not
\* added again
AddJob(j) ==
    /\ j \in toQueue
    /\ toQueue' = toQueue \ {j}
    /\ job' = IF job[j].pc = "none" THEN [job EXCEPT ![j].pc = "waiting"] ELSE job
    /\ UNCHANGED <<lead, connected, success, received, spent>>

\* retryLeadExport, enqueueLeadExport up to the first add
RetryExport ==
    /\ connected # {}
    /\ Spend("retries", MaxRetries)
    /\ lead' = [lead EXCEPT !.sync = "pending"]
    /\ toQueue' = toQueue \cup {Export(c) : c \in connected}
    /\ UNCHANGED <<connected, job, success, received>>

\* the tenant disconnects a CRM, or connects it again
Reconnect(c) ==
    /\ Spend("connects", MaxConnects)
    /\ connected' = IF c \in connected THEN connected \ {c} ELSE connected \cup {c}
    /\ UNCHANGED <<lead, toQueue, job, success, received>>

-----------------------------------------------------------------------------
(* A job's steps *)

At(j, pc) == job[j].pc = pc

Goto(j, pc) == job' = [job EXCEPT ![j].pc = pc]

Complete(j) == Goto(j, "completed")

\* *Mutant:* the success rows are not looked at
StartDeliveryAlways(j) ==
    /\ Queue(j) = "lead-delivery" /\ At(j, "waiting")
    /\ job' = [job EXCEPT ![j].pc = "loaded", ![j].known = lead.crm]
    /\ UNCHANGED <<lead, connected, toQueue, success, received, spent>>

\* processDelivery up to the LeadDeliveryLog row `retrying`
StartDelivery(j) ==
    /\ Queue(j) = "lead-delivery" /\ At(j, "waiting")
    /\ IF Target(j) \in success THEN Complete(j)
       ELSE job' = [job EXCEPT ![j].pc = "loaded", ![j].known = lead.crm]
    /\ UNCHANGED <<lead, connected, toQueue, success, received, spent>>

\* deliverToChannel for a CRM, up to the call of exportLead: a CRM that is not
\* connected ends the job, a lead that was there when it was loaded is skipped
StartCrmDelivery(j) ==
    /\ Queue(j) = "lead-delivery" /\ At(j, "loaded") /\ Target(j) \in CRMs
    /\ CASE Target(j) \notin connected -> Complete(j)
         [] Target(j) \in connected /\ job[j].known = Target(j) -> Goto(j, "delivered")
         [] OTHER -> Goto(j, "exporting")
    /\ UNCHANGED <<lead, connected, toQueue, success, received, spent>>

\* crm-export.processor.ts
StartExport(j) ==
    /\ Queue(j) = "crm-export" /\ At(j, "waiting")
    /\ Goto(j, "exporting")
    /\ UNCHANGED <<lead, connected, toQueue, success, received, spent>>

\* where exportLead returns to
Exported(j) == Goto(j, IF Queue(j) = "crm-export" THEN "completed" ELSE "delivered")

\* exportLead: without an active integration it returns
SkipExport(j) ==
    /\ At(j, "exporting") /\ Target(j) \notin connected
    /\ Exported(j)
    /\ UNCHANGED <<lead, connected, toQueue, success, received, spent>>

Receive(c) == received' = [received EXCEPT ![c] = @ + 1]

\* pushToExternalCrm succeeds
CreateDeal(j) ==
    /\ At(j, "exporting") /\ Target(j) \in connected
    /\ Receive(Target(j))
    /\ Goto(j, "called")
    /\ UNCHANGED <<lead, connected, toQueue, success, spent>>

\* *Mutant:* the transaction leaves out externalCrmType
LinkDealUntyped(j) ==
    /\ At(j, "called")
    /\ lead' = [lead EXCEPT !.sync = "synced"]
    /\ Exported(j)
    /\ UNCHANGED <<connected, toQueue, success, received, spent>>

\* exportLead's $transaction
LinkDeal(j) ==
    /\ At(j, "called")
    /\ lead' = [crm |-> Target(j), sync |-> "synced"]
    /\ Exported(j)
    /\ UNCHANGED <<connected, toQueue, success, received, spent>>

\* adapter.deliver of the other channels succeeds
Send(j) ==
    /\ At(j, "loaded") /\ Target(j) \notin CRMs
    /\ Receive(Target(j))
    /\ Goto(j, "delivered")
    /\ UNCHANGED <<lead, connected, toQueue, success, spent>>

\* *Mutant:* the update names a row that does not exist, and throws
LogSuccessThrows(j) ==
    /\ At(j, "delivered")
    /\ Goto(j, "threw")
    /\ UNCHANGED <<lead, connected, toQueue, success, received, spent>>

\* leadDeliveryLog.update: success
LogSuccess(j) ==
    /\ At(j, "delivered")
    /\ success' = success \cup {Target(j)}
    /\ Goto(j, "logged")
    /\ UNCHANGED <<lead, connected, toQueue, received, spent>>

FinishDelivery(j) ==
    /\ At(j, "logged")
    /\ Complete(j)
    /\ UNCHANGED <<lead, connected, toQueue, success, received, spent>>

-----------------------------------------------------------------------------
(* What fails *)

Calling(j) ==
    \/ At(j, "exporting") /\ Target(j) \in connected
    \/ At(j, "loaded") /\ Target(j) \notin CRMs

\* the external system refuses, or cannot be reached
CallFails(j) ==
    /\ Calling(j)
    /\ Goto(j, "threw")
    /\ UNCHANGED <<lead, connected, toQueue, success, received, spent>>

\* it has done what was asked and its answer is lost
AnswerLost(j) ==
    /\ Fault("answer_lost")
    /\ Calling(j)
    /\ Receive(Target(j))
    /\ Goto(j, "threw")
    /\ UNCHANGED <<lead, connected, toQueue, success>>

\* the transaction or the log's update that follows the call fails
WriteFails(j) ==
    /\ Fault("write_fails")
    /\ At(j, "called") \/ At(j, "delivered")
    /\ Goto(j, "threw")
    /\ UNCHANGED <<lead, connected, toQueue, success, received>>

\* attempts and backoff
Retry(j) ==
    /\ At(j, "threw")
    /\ IF job[j].tries + 1 < Attempts
       THEN job' = [job EXCEPT ![j].pc = "waiting", ![j].tries = @ + 1, ![j].known = Unsynced]
       ELSE Goto(j, IF Queue(j) = "crm-export" THEN "dead" ELSE "failed")
    /\ UNCHANGED <<lead, connected, toQueue, success, received, spent>>

\* onFailed of the export's processor: markLeadFailed
MarkLeadFailed(j) ==
    /\ At(j, "dead")
    /\ lead' = [lead EXCEPT !.sync = "failed"]
    /\ Goto(j, "failed")
    /\ UNCHANGED <<connected, toQueue, success, received, spent>>

\* removeOnComplete, removeOnFail: later jobs push a finished one out
ForgetJob(j) ==
    /\ job[j].pc \in {"completed", "failed"}
    /\ job' = [job EXCEPT ![j] = NoJob]
    /\ UNCHANGED <<lead, connected, toQueue, success, received, spent>>

\* What requests have still to add is lost; BullMQ recovers a job once, and
\* fails it the second time.
Restart ==
    /\ Fault("restart")
    /\ toQueue' = {}
    /\ job' = [j \in Jobs |->
                 IF job[j].pc \notin InWork THEN job[j]
                 ELSE IF job[j].pc = "dead" THEN [job[j] EXCEPT !.pc = "failed"]
                 ELSE IF job[j].stalls < MaxStalled
                 THEN [job[j] EXCEPT !.pc = "waiting", !.stalls = @ + 1, !.known = Unsynced]
                 ELSE [job[j] EXCEPT !.pc = "failed"]]
    /\ UNCHANGED <<lead, connected, success, received>>

-----------------------------------------------------------------------------

Work(j) ==
    \/ StartDelivery(j) \/ StartCrmDelivery(j) \/ StartExport(j) \/ SkipExport(j)
    \/ CreateDeal(j) \/ LinkDeal(j) \/ Send(j) \/ LogSuccess(j) \/ FinishDelivery(j)
    \/ CallFails(j) \/ Retry(j) \/ MarkLeadFailed(j)

Next ==
    \/ RetryExport \/ Restart
    \/ \E c \in CRMs : Reconnect(c)
    \/ \E j \in Jobs : AddJob(j) \/ Work(j) \/ AnswerLost(j) \/ WriteFails(j) \/ ForgetJob(j)

Spec == Init /\ [][Next]_vars

\* The loops that add jobs run on, and the workers work.
FairSpec == Spec /\ \A j \in Jobs : WF_vars(AddJob(j)) /\ WF_vars(Work(j))

-----------------------------------------------------------------------------

\* idempotency key leadId:channelId: a channel whose success is logged does not
\* get the lead from its delivery again, whatever is retried or recovered; what
\* a CRM gets after that comes from the retry button.
LoggedIsNotRepeated ==
    [][\A c \in Channels :
          c \in success /\ received'[c] # received[c] =>
             c \in CRMs /\ job[Export(c)].pc = "exporting"]_vars

\* Duplicates have a cause: a channel gets the lead once, once more for each use
\* of the retry button (exportLead does not look at externalId), and at most
\* once more for each job that a fault strikes between the call and what is
\* written about it.
Striking(c) == IF c \in CRMs THEN 2 ELSE 1
DuplicatesBounded ==
    \A c \in Channels :
       received[c] <= 1 + Striking(c) * spent["faults"]
                        + (IF c \in CRMs THEN spent["retries"] ELSE 0)

\* exportLead stores externalId after the deal exists: a lead that is linked to a
\* CRM has a deal there, whichever of two overlapping exports wrote last.
LinkedDealExists == lead.crm # Unsynced => received[lead.crm] > 0

\* The acceptance criterion of the export: the retry button "really repeats the
\* attempt".  A lead without a deal that is set to pending does not stay so.
Unanswered == lead.sync = "pending" /\ lead.crm = Unsynced
RetryIsMade == Unanswered ~> ~Unanswered
=============================================================================
