------------------------------ MODULE CrmProofs ------------------------------
(***************************************************************************)
(* Proofs about the CRM side of a lead: its delivery and export            *)
(* (LeadDelivery), for any channels and CRMs, and any number of attempts,  *)
(* uses of the retry button, reconnections and faults; and what keeps its  *)
(* status once it is exported (CrmStatusSync), for any number of statuses, *)
(* editors, pushes and changes on both sides.                              *)
(***************************************************************************)
EXTENDS LeadDelivery, Integers, TLAPS

JobRow == [pc : JobPc, tries : 0..Attempts, stalls : 0..MaxStalled + 1,
           known : CRMs \cup {Unsynced}]

\* crm-export has no channel to log, and nothing to load.
ExportSteps == \A c \in CRMs : job[Export(c)].pc \notin {"loaded", "delivered", "logged"}

\* Between the call and the transaction the deal is there.
CallsMade == \A j \in Jobs : job[j].pc = "called" =>
                Target(j) \in CRMs /\ received[Target(j)] > 0

\* A channel whose success is logged has no delivery under way.
BeforeLog == {"loaded", "exporting", "called", "delivered"}
LoggedDone == \A c \in success : job[Deliver(c)].pc \notin BeforeLog

DeliveryInv == TypeOK /\ ExportSteps /\ CallsMade /\ LoggedDone /\ LinkedDealExists

-----------------------------------------------------------------------------
(* Jobs and their moves *)

LEMMA JobIds ==
    /\ \A c \in Channels : Deliver(c) \in Jobs /\ Queue(Deliver(c)) = "lead-delivery"
                           /\ Target(Deliver(c)) = c
    /\ \A c \in CRMs : Export(c) \in Jobs /\ Queue(Export(c)) = "crm-export"
                       /\ Target(Export(c)) = c
    /\ \A j \in Jobs : /\ Target(j) \in Channels
                       /\ Queue(j) = "lead-delivery" \/ Queue(j) = "crm-export"
                       /\ Queue(j) = "lead-delivery" => j = Deliver(Target(j))
                       /\ Queue(j) = "crm-export" => Target(j) \in CRMs /\ j = Export(Target(j))
BY ChannelAssumption DEF Jobs, Deliver, Export, Queue, Target

\* One job moves.
Moved(j, pc) ==
    /\ job' \in [Jobs -> JobRow]
    /\ job'[j].pc = pc
    /\ \A k \in Jobs \ {j} : job'[k] = job[k]

LEMMA RowSet ==
    ASSUME TypeOK, NEW j \in Jobs, NEW r \in JobRow, job' = [job EXCEPT ![j] = r]
    PROVE  Moved(j, r.pc)
BY DEF TypeOK, JobRow, Moved

LEMMA Went ==
    ASSUME TypeOK, NEW j \in Jobs, NEW pc \in JobPc, Goto(j, pc) PROVE Moved(j, pc)
<1>1. PICK r : r = [job[j] EXCEPT !.pc = pc]
  OBVIOUS
<1>2. r \in JobRow /\ r.pc = pc
  BY <1>1 DEF TypeOK, JobRow
<1>3. job' = [job EXCEPT ![j] = r]
  BY <1>1 DEF Goto
<1> QED BY <1>2, <1>3, RowSet

\* The worker's own steps, and the answer or the write that a fault takes away.
JobStep(j) == Work(j) \/ AnswerLost(j) \/ WriteFails(j)

\* Where a step takes its job, and from where.
Arrow(j, pc) ==
    \/ pc = "completed"
    \/ pc \in {"threw", "failed"} /\ job[j].pc \notin {"none", "waiting", "completed", "failed", "logged"}
    \/ pc = "dead" /\ job[j].pc = "threw"
    \/ pc = "waiting" /\ job[j].pc = "threw"
    \/ pc = "loaded" /\ job[j].pc = "waiting" /\ Queue(j) = "lead-delivery" /\ Target(j) \notin success
    \/ pc = "exporting" /\ Target(j) \in CRMs
       /\ \/ job[j].pc = "waiting" /\ Queue(j) = "crm-export"
          \/ job[j].pc = "loaded" /\ Queue(j) = "lead-delivery"
    \/ pc = "called" /\ job[j].pc = "exporting" /\ Receive(Target(j))
    \/ pc = "delivered" /\ job[j].pc \in {"loaded", "exporting", "called"} /\ Queue(j) = "lead-delivery"
    \/ pc = "logged" /\ job[j].pc = "delivered"

LEMMA StepMoves ==
    ASSUME DeliveryInv, NEW j \in Jobs, JobStep(j)
    PROVE  \E pc \in JobPc : Moved(j, pc) /\ Arrow(j, pc)
<1>0. TypeOK /\ JobPc = {"none", "waiting", "completed", "failed", "loaded", "exporting", "called",
                         "delivered", "logged", "threw", "dead"}
  BY DEF DeliveryInv, JobPc, InWork
<1>1. CASE StartDelivery(j)
  <2>1. CASE Target(j) \in success
    BY <1>0, <1>1, <2>1, Went DEF StartDelivery, Complete, Arrow
  <2>2. CASE Target(j) \notin success
    <3>1. PICK r : r = [job[j] EXCEPT !.pc = "loaded", !.known = lead.crm]
      OBVIOUS
    <3>2. r \in JobRow /\ r.pc = "loaded"
      BY <1>0, <3>1 DEF TypeOK, JobRow
    <3>3. job' = [job EXCEPT ![j] = r]
      BY <1>1, <2>2, <3>1 DEF StartDelivery
    <3> QED BY <1>0, <1>1, <2>2, <3>2, <3>3, RowSet DEF StartDelivery, At, Arrow
  <2> QED BY <2>1, <2>2
<1>2. CASE StartCrmDelivery(j)
  BY <1>0, <1>2, Went DEF StartCrmDelivery, Complete, At, Arrow
<1>3. CASE StartExport(j)
  BY <1>0, <1>3, Went, JobIds DEF StartExport, At, Arrow
<1>4. CASE SkipExport(j)
  BY <1>0, <1>4, Went, JobIds DEF SkipExport, Exported, At, Arrow
<1>5. CASE CreateDeal(j)
  BY <1>0, <1>5, Went DEF CreateDeal, At, Arrow
<1>6. CASE LinkDeal(j)
  BY <1>0, <1>6, Went, JobIds DEF LinkDeal, Exported, At, Arrow
<1>7. CASE Send(j)
  <2>1. Queue(j) = "lead-delivery"
    BY <1>7, JobIds DEF Send
  <2> QED BY <1>0, <1>7, <2>1, Went DEF Send, At, Arrow
<1>8. CASE LogSuccess(j)
  BY <1>0, <1>8, Went DEF LogSuccess, At, Arrow
<1>9. CASE FinishDelivery(j)
  BY <1>0, <1>9, Went DEF FinishDelivery, Complete, Arrow
<1>10. CASE CallFails(j) \/ AnswerLost(j) \/ WriteFails(j)
  <2>1. Goto(j, "threw") /\ job[j].pc \in {"exporting", "loaded", "called", "delivered"}
    BY <1>10 DEF CallFails, AnswerLost, WriteFails, Calling, At
  <2> QED BY <1>0, <2>1, Went DEF Arrow
<1>11. CASE Retry(j)
  <2>1. CASE job[j].tries + 1 < Attempts
    <3>1. PICK r : r = [job[j] EXCEPT !.pc = "waiting", !.tries = @ + 1, !.known = Unsynced]
      OBVIOUS
    <3>2. job[j] \in JobRow /\ job[j].tries + 1 \in 0..Attempts
      BY <1>0, <2>1, ChannelAssumption DEF TypeOK, JobRow
    <3>3. r \in JobRow /\ r.pc = "waiting"
      BY <1>0, <3>1, <3>2 DEF JobRow
    <3>4. job' = [job EXCEPT ![j] = r]
      BY <1>11, <2>1, <3>1 DEF Retry
    <3> QED BY <1>0, <1>11, <3>3, <3>4, RowSet DEF Retry, At, Arrow
  <2>2. CASE ~(job[j].tries + 1 < Attempts)
    BY <1>0, <1>11, <2>2, Went DEF Retry, At, Arrow
  <2> QED BY <2>1, <2>2
<1>12. CASE MarkLeadFailed(j)
  BY <1>0, <1>12, Went DEF MarkLeadFailed, At, Arrow
<1> QED BY <1>1, <1>2, <1>3, <1>4, <1>5, <1>6, <1>7, <1>8, <1>9, <1>10, <1>11, <1>12
        DEF JobStep, Work

-----------------------------------------------------------------------------
(* The invariant *)

LEMMA Spent ==
    ASSUME TypeOK, NEW b \in {"retries", "connects", "faults"}, NEW max, Spend(b, max)
    PROVE  spent' \in [{"retries", "connects", "faults"} -> Nat]
<1>1. spent[b] \in Nat /\ spent[b] + 1 \in Nat
  BY DEF TypeOK
<1> QED BY <1>1 DEF TypeOK, Spend

LEMMA Counted ==
    ASSUME TypeOK, NEW c \in Channels, Receive(c)
    PROVE  /\ received' \in [Channels -> Nat]
           /\ received'[c] = received[c] + 1
           /\ \A d \in Channels : d # c => received'[d] = received[d]
<1>1. received[c] \in Nat /\ received[c] + 1 \in Nat
  BY DEF TypeOK
<1> QED BY <1>1 DEF TypeOK, Receive

\* What a job's step does besides moving the job.
LEMMA StepEffects ==
    ASSUME DeliveryInv, NEW j \in Jobs, JobStep(j)
    PROVE  /\ UNCHANGED <<connected, toQueue>>
           /\ UNCHANGED received \/ (Receive(Target(j)) /\ job[j].pc \in {"exporting", "loaded"})
           /\ \/ UNCHANGED success
              \/ success' = success \cup {Target(j)} /\ job[j].pc = "delivered" /\ job'[j].pc = "logged"
           /\ \/ UNCHANGED lead
              \/ lead' = [crm |-> Target(j), sync |-> "synced"] /\ job[j].pc = "called"
              \/ lead' = [lead EXCEPT !.sync = "failed"]
           /\ UNCHANGED spent \/ (\E kind \in FaultKinds : Fault(kind))
<1>1. LogSuccess(j) => job'[j].pc = "logged"
  BY Went DEF LogSuccess, DeliveryInv, Moved, JobPc, InWork
<1> QED BY <1>1 DEF JobStep, Work, StartDelivery, StartCrmDelivery, StartExport, SkipExport,
            CreateDeal, LinkDeal, Send, LogSuccess, FinishDelivery, CallFails, Retry, MarkLeadFailed,
            AnswerLost, WriteFails, Calling, At, FaultKinds

LEMMA StepInv == ASSUME DeliveryInv, NEW j \in Jobs, JobStep(j) PROVE DeliveryInv'
<1>1. PICK pc \in JobPc : Moved(j, pc) /\ Arrow(j, pc)
  BY StepMoves
<1>2. Target(j) \in Channels /\ (job[j].pc = "called" => Target(j) \in CRMs)
  BY JobIds DEF DeliveryInv, CallsMade
<1>3. received' \in [Channels -> Nat] /\ \A c \in Channels : received'[c] >= received[c]
  <2>1. CASE UNCHANGED received
    BY <2>1 DEF DeliveryInv, TypeOK
  <2>2. CASE Receive(Target(j))
    BY <1>2, <2>2, Counted DEF DeliveryInv, TypeOK
  <2> QED BY <2>1, <2>2, StepEffects
<1>4. TypeOK'
  <2>1. lead' \in [crm : CRMs \cup {Unsynced}, sync : {"none", "pending", "synced", "failed"}]
        /\ (lead'.sync = "synced" => lead'.crm # Unsynced)
    BY <1>2, StepEffects, ChannelAssumption DEF DeliveryInv, TypeOK
  <2>2. spent' \in [{"retries", "connects", "faults"} -> Nat]
    BY StepEffects, Spent DEF Fault, DeliveryInv, TypeOK
  <2>3. success' \subseteq Channels
    BY <1>2, StepEffects DEF DeliveryInv, TypeOK
  <2>4. \A k \in Jobs : job'[k].pc = "exporting" => Target(k) \in CRMs
    BY <1>1 DEF Moved, Arrow, DeliveryInv, TypeOK
  <2>5. connected' \subseteq CRMs /\ toQueue' \subseteq Jobs
    BY StepEffects DEF DeliveryInv, TypeOK
  <2> QED BY <1>1, <1>3, <2>1, <2>2, <2>3, <2>4, <2>5 DEF TypeOK, Moved, JobRow
<1>5. ExportSteps'
  <2> SUFFICES ASSUME NEW c \in CRMs PROVE job'[Export(c)].pc \notin {"loaded", "delivered", "logged"}
    BY DEF ExportSteps
  <2>1. CASE j = Export(c)
    BY <1>1, <2>1, JobIds DEF Moved, Arrow, DeliveryInv, ExportSteps
  <2>2. CASE j # Export(c)
    BY <1>1, <2>2, JobIds DEF Moved, DeliveryInv, ExportSteps
  <2> QED BY <2>1, <2>2
<1>6. CallsMade'
  <2> SUFFICES ASSUME NEW k \in Jobs, job'[k].pc = "called"
               PROVE  Target(k) \in CRMs /\ received'[Target(k)] > 0
    BY DEF CallsMade
  <2>1. CASE k = j
    <3>1. Target(j) \in CRMs /\ Receive(Target(j))
      BY <1>1, <2>1 DEF Moved, Arrow, DeliveryInv, TypeOK
    <3> QED BY <1>2, <2>1, <3>1, Counted DEF DeliveryInv, TypeOK
  <2>2. CASE k # j
    <3>1. Target(k) \in CRMs /\ received[Target(k)] > 0 /\ received[Target(k)] \in Nat
      BY <1>1, <2>2, JobIds DEF Moved, DeliveryInv, CallsMade, TypeOK
    <3> QED BY <1>3, <3>1, ChannelAssumption
  <2> QED BY <2>1, <2>2
<1>7. LoggedDone'
  <2> SUFFICES ASSUME NEW c \in success' PROVE job'[Deliver(c)].pc \notin BeforeLog
    BY DEF LoggedDone
  <2>1. CASE c \notin success
    <3>1. c = Target(j) /\ job[j].pc = "delivered" /\ job'[j].pc = "logged"
      BY <2>1, StepEffects
    <3>2. j = Deliver(c)
      BY <3>1, JobIds DEF DeliveryInv, ExportSteps
    <3> QED BY <3>1, <3>2 DEF BeforeLog
  <2>2. CASE c \in success /\ j # Deliver(c)
    BY <1>1, <2>2, JobIds DEF Moved, DeliveryInv, LoggedDone, TypeOK
  <2>3. CASE c \in success /\ j = Deliver(c)
    <3>1. job[j].pc \notin BeforeLog /\ Target(j) = c /\ Queue(j) = "lead-delivery"
      BY <2>3, JobIds DEF DeliveryInv, LoggedDone, TypeOK
    <3> QED BY <1>1, <2>3, <3>1 DEF Moved, Arrow, BeforeLog
  <2> QED BY <2>1, <2>2, <2>3
<1>8. LinkedDealExists'
  <2>1. CASE lead' = [crm |-> Target(j), sync |-> "synced"] /\ job[j].pc = "called"
    BY <1>2, <1>3, <2>1 DEF DeliveryInv, CallsMade, LinkedDealExists, TypeOK
  <2>2. CASE lead'.crm = lead.crm
    <3>1. lead.crm # Unsynced => lead.crm \in Channels
      BY ChannelAssumption DEF DeliveryInv, TypeOK
    <3> QED BY <1>3, <2>2, <3>1 DEF DeliveryInv, LinkedDealExists, TypeOK
  <2> QED BY <2>1, <2>2, StepEffects DEF DeliveryInv, TypeOK
<1> QED BY <1>4, <1>5, <1>6, <1>7, <1>8 DEF DeliveryInv

\* A request adds a job, or a finished job is forgotten.
LEMMA QueueInv == ASSUME DeliveryInv, NEW j \in Jobs, AddJob(j) \/ ForgetJob(j) PROVE DeliveryInv'
<1>1. UNCHANGED <<lead, connected, success, received, spent>> /\ toQueue' \subseteq Jobs
  BY DEF AddJob, ForgetJob, DeliveryInv, TypeOK
<1>2. UNCHANGED job \/ Moved(j, "waiting") \/ Moved(j, "none")
  <2>1. CASE AddJob(j)
    BY <2>1, Went DEF AddJob, Goto, DeliveryInv, JobPc
  <2>2. CASE ForgetJob(j)
    <3>1. NoJob \in JobRow /\ NoJob.pc = "none"
      BY ChannelAssumption DEF NoJob, JobRow, JobPc, MaxStalled
    <3> QED BY <2>2, <3>1, RowSet DEF ForgetJob, DeliveryInv
  <2> QED BY <2>1, <2>2
<1>3. job' \in [Jobs -> JobRow] /\ \A k \in Jobs : job'[k] = job[k] \/ job'[k].pc \in {"waiting", "none"}
  BY <1>2 DEF Moved, DeliveryInv, TypeOK, JobRow
<1>4. TypeOK'
  BY <1>1, <1>3 DEF DeliveryInv, TypeOK, JobRow
<1>5. ExportSteps' /\ LoggedDone'
  BY <1>1, <1>3, JobIds DEF DeliveryInv, ExportSteps, LoggedDone, BeforeLog, TypeOK
<1>6. CallsMade' /\ LinkedDealExists'
  BY <1>1, <1>3 DEF DeliveryInv, CallsMade, LinkedDealExists
<1> QED BY <1>4, <1>5, <1>6 DEF DeliveryInv

LEMMA RestartRows ==
    ASSUME TypeOK, Restart
    PROVE  /\ job' \in [Jobs -> JobRow]
           /\ \A j \in Jobs : \/ (job'[j] = job[j] /\ job[j].pc \notin InWork)
                              \/ (job'[j].pc \in {"waiting", "failed"} /\ job[j].pc \in InWork)
<1>1. ASSUME NEW j \in Jobs
      PROVE  /\ job'[j] \in JobRow
             /\ \/ (job'[j] = job[j] /\ job[j].pc \notin InWork)
                \/ (job'[j].pc \in {"waiting", "failed"} /\ job[j].pc \in InWork)
  <2>1. PICK r \in JobRow : r = job[j]
    BY DEF TypeOK, JobRow
  <2>2. CASE r.pc \notin InWork
    BY <2>1, <2>2 DEF Restart
  <2>3. CASE r.pc \in InWork
    <3>1. [r EXCEPT !.pc = "failed"] \in JobRow /\ [r EXCEPT !.pc = "failed"].pc = "failed"
      BY DEF JobRow, JobPc
    <3>2. CASE r.pc # "dead" /\ r.stalls < MaxStalled
      <4>1. PICK q : q = [r EXCEPT !.pc = "waiting", !.stalls = @ + 1, !.known = Unsynced]
        OBVIOUS
      <4>2. r.stalls + 1 \in 0..MaxStalled + 1
        BY <3>2 DEF JobRow, MaxStalled
      <4>3. q \in JobRow /\ q.pc = "waiting"
        BY <4>1, <4>2 DEF JobRow, JobPc
      <4>4. job'[j] = q
        BY <2>1, <2>3, <3>2, <4>1 DEF Restart
      <4> QED BY <2>1, <2>3, <4>3, <4>4
    <3>3. CASE ~(r.pc # "dead" /\ r.stalls < MaxStalled)
      BY <2>1, <2>3, <3>1, <3>3 DEF Restart
    <3> QED BY <3>2, <3>3
  <2> QED BY <2>2, <2>3
<1>2. job' = [j \in Jobs |-> job'[j]]
  BY DEF Restart
<1>3. \A j \in Jobs : job'[j] \in JobRow
  BY <1>1
<1>4. [j \in Jobs |-> job'[j]] \in [Jobs -> JobRow]
  BY <1>3
<1>5. job' \in [Jobs -> JobRow]
  BY <1>2, <1>4, Zenon
<1> QED BY <1>1, <1>5

LEMMA RestartInv == ASSUME DeliveryInv, Restart PROVE DeliveryInv'
<1>1. UNCHANGED <<lead, connected, success, received>> /\ toQueue' = {}
  BY DEF Restart
<1>2. spent' \in [{"retries", "connects", "faults"} -> Nat]
  BY Spent DEF Restart, Fault, DeliveryInv
<1>3. job' \in [Jobs -> JobRow] /\ \A k \in Jobs : job'[k] = job[k] \/ job'[k].pc \in {"waiting", "failed"}
  BY RestartRows DEF DeliveryInv
<1>4. TypeOK'
  BY <1>1, <1>2, <1>3 DEF DeliveryInv, TypeOK, JobRow
<1>5. ExportSteps' /\ LoggedDone'
  BY <1>1, <1>3, JobIds DEF DeliveryInv, ExportSteps, LoggedDone, BeforeLog, TypeOK
<1>6. CallsMade' /\ LinkedDealExists'
  BY <1>1, <1>3 DEF DeliveryInv, CallsMade, LinkedDealExists
<1> QED BY <1>4, <1>5, <1>6 DEF DeliveryInv

LEMMA RequestInv ==
    ASSUME DeliveryInv, RetryExport \/ (\E c \in CRMs : Reconnect(c)) PROVE DeliveryInv'
<1>1. UNCHANGED <<job, success, received>> /\ lead'.crm = lead.crm
  BY DEF RetryExport, Reconnect, DeliveryInv, TypeOK
<1>2. spent' \in [{"retries", "connects", "faults"} -> Nat]
  BY Spent DEF RetryExport, Reconnect, DeliveryInv
<1>3. connected' \subseteq CRMs
  BY DEF RetryExport, Reconnect, DeliveryInv, TypeOK
<1>4. toQueue' \subseteq Jobs
  BY DEF RetryExport, Reconnect, DeliveryInv, TypeOK, Jobs
<1>5. lead' \in [crm : CRMs \cup {Unsynced}, sync : {"none", "pending", "synced", "failed"}]
      /\ (lead'.sync = "synced" => lead'.crm # Unsynced)
  BY DEF RetryExport, Reconnect, DeliveryInv, TypeOK
<1>6. TypeOK'
  BY <1>1, <1>2, <1>3, <1>4, <1>5 DEF DeliveryInv, TypeOK
<1> QED BY <1>1, <1>6 DEF DeliveryInv, ExportSteps, CallsMade, LoggedDone, LinkedDealExists

LEMMA DeliveryStep == DeliveryInv /\ [Next]_vars => DeliveryInv'
<1> SUFFICES ASSUME DeliveryInv, [Next]_vars PROVE DeliveryInv'
  OBVIOUS
<1>1. CASE UNCHANGED vars
  BY <1>1 DEF vars, DeliveryInv, TypeOK, ExportSteps, CallsMade, LoggedDone, LinkedDealExists
<1> QED BY <1>1, StepInv, QueueInv, RestartInv, RequestInv DEF Next, JobStep

LEMMA InitDelivery == Init => DeliveryInv
<1> SUFFICES ASSUME Init PROVE DeliveryInv
  OBVIOUS
<1>1. job \in [Jobs -> JobRow] /\ \A j \in Jobs : job[j].pc = "none"
  BY ChannelAssumption DEF Init, NoJob, JobRow, JobPc, MaxStalled
<1>2. toQueue \subseteq Jobs
  BY DEF Init, Jobs
<1>3. TypeOK
  BY <1>1, <1>2 DEF Init, TypeOK, JobRow
<1> QED BY <1>1, <1>3, JobIds
        DEF Init, DeliveryInv, ExportSteps, CallsMade, LoggedDone, LinkedDealExists

LEMMA DeliverySafe == Spec => []DeliveryInv
BY InitDelivery, DeliveryStep, PTL DEF Spec

-----------------------------------------------------------------------------

\* Type correctness; a lead that is synced is linked to a CRM, and only the
\* channel of a CRM is ever exported to.
THEOREM TypeCorrect == Spec => []TypeOK
<1>1. DeliveryInv => TypeOK
  BY DEF DeliveryInv
<1> QED BY <1>1, DeliverySafe, PTL

\* exportLead stores externalId after the deal exists.
THEOREM LinkTheorem == Spec => []LinkedDealExists
<1>1. DeliveryInv => LinkedDealExists
  BY DEF DeliveryInv
<1> QED BY <1>1, DeliverySafe, PTL

\* A delivery that is logged as a success is not repeated by any retry,
\* recovery or reconnection: only a job of crm-export may send the lead again.
THEOREM NotRepeatedTheorem == Spec => LoggedIsNotRepeated
<1>1. DeliveryInv /\ [Next]_vars =>
        [\A c \in Channels :
            c \in success /\ received'[c] # received[c] =>
               c \in CRMs /\ job[Export(c)].pc = "exporting"]_vars
  <2> SUFFICES ASSUME DeliveryInv, [Next]_vars, NEW c \in Channels,
                      c \in success, received'[c] # received[c]
               PROVE  c \in CRMs /\ job[Export(c)].pc = "exporting"
    OBVIOUS
  <2>1. PICK j \in Jobs : JobStep(j)
    BY DEF Next, vars, RetryExport, Restart, Reconnect, AddJob, ForgetJob, JobStep
  <2>2. Target(j) = c /\ job[j].pc \in {"exporting", "loaded"}
    BY <2>1, StepEffects, Counted, JobIds DEF DeliveryInv
  <2>3. Queue(j) = "crm-export"
    BY <2>2, JobIds DEF DeliveryInv, LoggedDone, BeforeLog
  <2>4. c \in CRMs /\ j = Export(c)
    BY <2>2, <2>3, JobIds
  <2> QED BY <2>2, <2>4 DEF DeliveryInv, ExportSteps
<1> QED BY <1>1, DeliverySafe, PTL DEF Spec, LoggedIsNotRepeated

-----------------------------------------------------------------------------
(* Duplicates *)

\* A job that may still call: one call each, until a fault gives it another.
Live == {"waiting", "loaded", "exporting", "threw"}
Alive(j) == IF job[j].pc \in Live THEN 1 ELSE 0
Left(j)  == Alive(j) + (IF j \in toQueue THEN 1 ELSE 0)

\* What a channel has got and may still get.
Owed(c) == Left(Deliver(c)) + (IF c \in CRMs THEN Left(Export(c)) ELSE 0)
Allowed(c) == 1 + Striking(c) * spent["faults"] + (IF c \in CRMs THEN spent["retries"] ELSE 0)
CallsBounded == \A c \in Channels : received[c] + Owed(c) <= Allowed(c)

LEMMA SpentOn ==
    ASSUME TypeOK, NEW b \in {"retries", "connects", "faults"}, NEW max, Spend(b, max)
    PROVE  /\ spent'[b] = spent[b] + 1
           /\ \A k \in {"retries", "connects", "faults"} : k # b => spent'[k] = spent[k]
BY DEF TypeOK, Spend

\* The bound grows with the faults and the uses of the retry button.
LEMMA AllowedGrows ==
    ASSUME TypeOK, NEW c \in Channels, NEW f \in Nat, NEW r \in Nat,
           spent'["faults"] = spent["faults"] + f, spent'["retries"] = spent["retries"] + r
    PROVE  /\ Allowed(c) \in Nat
           /\ Allowed(c)' = Allowed(c) + Striking(c) * f + (IF c \in CRMs THEN r ELSE 0)
<1>1. spent["faults"] \in Nat /\ spent["retries"] \in Nat
  BY DEF TypeOK
<1>2. CASE c \in CRMs
  <2>1. Striking(c) * f = 2 * f
    BY <1>2 DEF Striking
  <2> QED BY <1>1, <1>2, <2>1 DEF Allowed, Striking
<1>3. CASE c \notin CRMs
  <2>1. Striking(c) * f = f
    BY <1>3 DEF Striking
  <2> QED BY <1>1, <1>3, <2>1 DEF Allowed, Striking
<1> QED BY <1>2, <1>3

\* A job's step spends the call it makes; only a fault gives one back.
LEMMA StepCount ==
    ASSUME DeliveryInv, NEW j \in Jobs, JobStep(j)
    PROVE  \E f \in {0, 1} :
              /\ spent'["faults"] = spent["faults"] + f /\ spent'["retries"] = spent["retries"]
              /\ received'[Target(j)] + Alive(j)' <= received[Target(j)] + Alive(j) + f
              /\ \A c \in Channels : c # Target(j) => received'[c] = received[c]
<1>0. /\ TypeOK /\ Target(j) \in Channels /\ received[Target(j)] \in Nat
      /\ spent["faults"] \in Nat /\ spent["retries"] \in Nat
      /\ Alive(j) \in {0, 1} /\ Alive(j)' \in {0, 1}
  BY JobIds DEF DeliveryInv, TypeOK, Alive
<1>1. PICK pc \in JobPc : Moved(j, pc) /\ Arrow(j, pc)
  BY StepMoves
<1>2. CASE AnswerLost(j) \/ WriteFails(j)
  <2>1. spent'["faults"] = spent["faults"] + 1 /\ spent'["retries"] = spent["retries"]
    BY <1>0, <1>2, SpentOn DEF AnswerLost, WriteFails, Fault
  <2>2. CASE AnswerLost(j)
    <3>1. Receive(Target(j)) /\ Alive(j) = 1
      BY <2>2 DEF AnswerLost, Calling, At, Alive, Live
    <3> QED BY <1>0, <2>1, <3>1, Counted
  <2>3. CASE WriteFails(j)
    BY <1>0, <2>1, <2>3 DEF WriteFails
  <2> QED BY <1>2, <2>2, <2>3
<1>3. CASE CreateDeal(j) \/ Send(j)
  <2>1. UNCHANGED spent /\ Receive(Target(j)) /\ Alive(j) = 1
    BY <1>3 DEF CreateDeal, Send, At, Alive, Live
  <2>2. job'[j].pc \in {"called", "delivered"}
    BY <1>0, <1>3, Went DEF CreateDeal, Send, Moved, JobPc, InWork
  <2>3. Alive(j)' = 0
    BY <2>2 DEF Alive, Live
  <2> QED BY <1>0, <2>1, <2>3, Counted
<1>4. CASE Work(j) /\ ~CreateDeal(j) /\ ~Send(j)
  <2>1. UNCHANGED <<spent, received>>
    BY <1>4 DEF Work, StartDelivery, StartCrmDelivery, StartExport, SkipExport, LinkDeal, LogSuccess,
                FinishDelivery, CallFails, Retry, MarkLeadFailed
  <2>2. Alive(j)' <= Alive(j)
    <3>1. CASE Alive(j) = 1
      BY <1>0, <3>1
    <3>2. CASE LinkDeal(j)
      <4>1. job'[j].pc \in {"completed", "delivered"}
        BY <1>0, <3>2, Went DEF LinkDeal, Exported, Moved, JobPc, InWork
      <4> QED BY <1>0, <4>1 DEF Alive, Live
    <3>3. CASE LogSuccess(j) \/ FinishDelivery(j) \/ MarkLeadFailed(j)
      <4>1. job'[j].pc \in {"logged", "completed", "failed"}
        BY <1>0, <3>3, Went DEF LogSuccess, FinishDelivery, MarkLeadFailed, Complete, Moved, JobPc, InWork
      <4> QED BY <1>0, <4>1 DEF Alive, Live
    <3>4. CASE Alive(j) = 0 /\ ~LinkDeal(j) /\ ~LogSuccess(j) /\ ~FinishDelivery(j) /\ ~MarkLeadFailed(j)
      BY <1>4, <3>4 DEF Work, StartDelivery, StartCrmDelivery, StartExport, SkipExport, CallFails,
                        Retry, Calling, At, Alive, Live
    <3> QED BY <1>0, <3>1, <3>2, <3>3, <3>4
  <2> QED BY <1>0, <2>1, <2>2
<1> QED BY <1>2, <1>3, <1>4 DEF JobStep

LEMMA OwedNat ==
    ASSUME TypeOK, NEW c \in Channels
    PROVE  /\ received[c] \in Nat /\ Owed(c) \in Nat /\ Owed(c)' \in Nat /\ Allowed(c) \in Nat
           /\ \A j \in Jobs : Left(j) \in Nat /\ Left(j)' \in Nat
<1>1. \A j \in Jobs : Left(j) \in Nat /\ Left(j)' \in Nat
  BY DEF Left, Alive
<1>2. spent["faults"] \in Nat /\ spent["retries"] \in Nat /\ received[c] \in Nat
  BY DEF TypeOK
<1> QED BY <1>1, <1>2, JobIds DEF Owed, Allowed, Striking

\* A step that moves one job.
LEMMA OneJobCount ==
    ASSUME DeliveryInv, CallsBounded, NEW j \in Jobs, NEW f \in {0, 1},
           spent'["faults"] = spent["faults"] + f, spent'["retries"] = spent["retries"],
           received'[Target(j)] + Left(j)' <= received[Target(j)] + Left(j) + f,
           \A c \in Channels : c # Target(j) => received'[c] = received[c],
           \A k \in Jobs \ {j} : Left(k)' = Left(k),
           TypeOK'
    PROVE  CallsBounded'
<1> SUFFICES ASSUME NEW c \in Channels PROVE received'[c] + Owed(c)' <= Allowed(c)'
  BY DEF CallsBounded
<1>1. received[c] + Owed(c) <= Allowed(c) /\ TypeOK
  BY DEF CallsBounded, DeliveryInv
<1>2. Allowed(c)' = Allowed(c) + Striking(c) * f
  <2>1. spent'["retries"] = spent["retries"] + 0 /\ f \in Nat /\ 0 \in Nat
    BY <1>1 DEF TypeOK
  <2>2. Allowed(c)' = Allowed(c) + Striking(c) * f + 0 /\ Allowed(c) \in Nat
    BY <1>1, <2>1, AllowedGrows
  <2> QED BY <2>2 DEF Striking
<1>3. Striking(c) * f >= f /\ Striking(c) * f \in Nat
  BY DEF Striking
<1>4. /\ received[c] \in Nat /\ received'[c] \in Nat /\ Allowed(c) \in Nat
      /\ Owed(c) \in Nat /\ Owed(c)' \in Nat
      /\ \A k \in Jobs : Left(k) \in Nat /\ Left(k)' \in Nat
  BY <1>1, OwedNat DEF TypeOK
<1>5. CASE c # Target(j)
  <2>1. Owed(c)' = Owed(c)
    BY <1>5, JobIds DEF Owed
  <2> QED BY <1>1, <1>2, <1>3, <1>4, <1>5, <2>1
<1>6. CASE c = Target(j)
  <2>1. Deliver(c) \in Jobs /\ (j = Deliver(c) \/ (c \in CRMs /\ j = Export(c)))
    BY <1>6, JobIds
  <2>2. c \in CRMs => Export(c) \in Jobs /\ Export(c) # Deliver(c)
    BY JobIds
  <2>3. received'[c] + Owed(c)' <= received[c] + Owed(c) + f
    BY <1>4, <1>6, <2>1, <2>2 DEF Owed
  <2> QED BY <1>1, <1>2, <1>3, <1>4, <2>3
<1> QED BY <1>5, <1>6

\* A step that changes no count, no queue and no job's chance to call.
LEMMA SameCount ==
    ASSUME TypeOK, CallsBounded, UNCHANGED <<received, toQueue, job>>, TypeOK',
           spent'["faults"] = spent["faults"],
           spent'["retries"] = spent["retries"]
    PROVE  CallsBounded'
BY DEF CallsBounded, Owed, Left, Alive, Allowed

LEMMA CountStep == DeliveryInv /\ CallsBounded /\ [Next]_vars => CallsBounded'
<1> SUFFICES ASSUME DeliveryInv, CallsBounded, [Next]_vars PROVE CallsBounded'
  OBVIOUS
<1>0. TypeOK /\ TypeOK'
  BY DeliveryStep DEF DeliveryInv
<1>1. ASSUME NEW j \in Jobs, JobStep(j) PROVE CallsBounded'
  <2>1. PICK f \in {0, 1} :
              /\ spent'["faults"] = spent["faults"] + f /\ spent'["retries"] = spent["retries"]
              /\ received'[Target(j)] + Alive(j)' <= received[Target(j)] + Alive(j) + f
              /\ \A c \in Channels : c # Target(j) => received'[c] = received[c]
    BY <1>1, StepCount
  <2>2. toQueue' = toQueue /\ \A k \in Jobs \ {j} : job'[k] = job[k]
    BY <1>1, StepEffects, StepMoves DEF Moved
  <2>3. \A k \in Jobs \ {j} : Left(k)' = Left(k)
    BY <2>2 DEF Left, Alive
  <2>4. received'[Target(j)] + Left(j)' <= received[Target(j)] + Left(j) + f
    <3>1. received[Target(j)] \in Nat /\ received'[Target(j)] \in Nat
      BY <1>0, JobIds DEF TypeOK
    <3>2. Alive(j) \in {0, 1} /\ Alive(j)' \in {0, 1}
      BY DEF Alive
    <3> QED BY <2>1, <2>2, <3>1, <3>2 DEF Left
  <2> QED BY <1>0, <2>1, <2>3, <2>4, OneJobCount
<1>2. ASSUME NEW j \in Jobs, AddJob(j) \/ ForgetJob(j) PROVE CallsBounded'
  <2>1. UNCHANGED <<received, spent>>
    BY <1>2 DEF AddJob, ForgetJob
  <2>2. \A k \in Jobs \ {j} : job'[k] = job[k]
    BY <1>0, <1>2 DEF AddJob, ForgetJob, TypeOK
  <2>3. \A k \in Jobs \ {j} : Left(k)' = Left(k)
    BY <1>2, <2>2 DEF AddJob, ForgetJob, Left, Alive
  <2>4. Left(j)' <= Left(j)
    <3>1. CASE AddJob(j)
      BY <3>1 DEF AddJob, Left, Alive, Live
    <3>2. CASE ForgetJob(j)
      <4>1. Alive(j)' = 0
        BY <1>0, <3>2 DEF ForgetJob, NoJob, Alive, Live, TypeOK
      <4> QED BY <3>2, <4>1 DEF ForgetJob, Left, Alive
    <3> QED BY <1>2, <3>1, <3>2
  <2>5. received[Target(j)] \in Nat /\ Left(j) \in Nat /\ Left(j)' \in Nat
    BY <1>0, OwedNat, JobIds
  <2>6. /\ spent'["faults"] = spent["faults"] + 0 /\ spent'["retries"] = spent["retries"]
        /\ received'[Target(j)] + Left(j)' <= received[Target(j)] + Left(j) + 0
        /\ \A c \in Channels : c # Target(j) => received'[c] = received[c]
    BY <1>0, <2>1, <2>4, <2>5 DEF TypeOK
  <2>7. 0 \in {0, 1}
    OBVIOUS
  <2> QED BY <1>0, <2>3, <2>6, <2>7, OneJobCount
<1>3. CASE RetryExport
  <2> SUFFICES ASSUME NEW c \in Channels PROVE received'[c] + Owed(c)' <= Allowed(c)'
    BY DEF CallsBounded
  <2>1. /\ spent'["faults"] = spent["faults"] + 0 /\ spent'["retries"] = spent["retries"] + 1
        /\ UNCHANGED <<received, job>>
    BY <1>0, <1>3, SpentOn DEF RetryExport, TypeOK
  <2>2. Allowed(c)' = Allowed(c) + Striking(c) * 0 + (IF c \in CRMs THEN 1 ELSE 0)
    BY <1>0, <2>1, AllowedGrows
  <2>3. Left(Deliver(c))' = Left(Deliver(c))
    <3>1. Deliver(c) \in toQueue' <=> Deliver(c) \in toQueue
      <4>1. \A d \in CRMs : Deliver(c) # Export(d)
        BY JobIds
      <4>2. connected \subseteq CRMs
        BY <1>0 DEF TypeOK
      <4> QED BY <1>3, <4>1, <4>2 DEF RetryExport
    <3> QED BY <2>1, <3>1 DEF Left, Alive
  <2>4. Left(Export(c))' <= Left(Export(c)) + 1
    BY <1>3, <2>1 DEF RetryExport, Left, Alive
  <2>5. Owed(c)' <= Owed(c) + (IF c \in CRMs THEN 1 ELSE 0)
    <3>1. Left(Deliver(c)) \in Nat /\ Left(Export(c)) \in Nat /\ Left(Export(c))' \in Nat
      BY DEF Left, Alive
    <3> QED BY <2>3, <2>4, <3>1 DEF Owed
  <2>6. received[c] + Owed(c) <= Allowed(c) /\ Striking(c) * 0 = 0
    BY DEF CallsBounded, Striking
  <2> QED BY <1>0, <2>1, <2>2, <2>5, <2>6, OwedNat
<1>4. ASSUME NEW c \in CRMs, Reconnect(c) PROVE CallsBounded'
  <2>1. UNCHANGED <<received, toQueue, job>>
    BY <1>4 DEF Reconnect
  <2>2. spent'["faults"] = spent["faults"] /\ spent'["retries"] = spent["retries"]
    BY <1>0, <1>4, SpentOn DEF Reconnect
  <2> QED BY <1>0, <2>1, <2>2, SameCount
<1>5. CASE Restart
  <2> SUFFICES ASSUME NEW c \in Channels PROVE received'[c] + Owed(c)' <= Allowed(c)'
    BY DEF CallsBounded
  <2>1. /\ spent'["faults"] = spent["faults"] + 1 /\ spent'["retries"] = spent["retries"] + 0
        /\ UNCHANGED received /\ toQueue' = {}
    <3>1. Spend("faults", MaxFaults) /\ UNCHANGED received /\ toQueue' = {}
      BY <1>5 DEF Restart, Fault
    <3>2. spent["retries"] \in Nat
      BY <1>0 DEF TypeOK
    <3> QED BY <1>0, <3>1, <3>2, SpentOn
  <2>2. Allowed(c)' = Allowed(c) + Striking(c) * 1 + (IF c \in CRMs THEN 0 ELSE 0)
    BY <1>0, <2>1, AllowedGrows
  <2>3. \A j \in Jobs : Left(j)' <= 1 /\ Left(j) \in Nat /\ Left(j)' \in Nat
    BY <2>1 DEF Left, Alive
  <2>4. Owed(c)' <= Striking(c) /\ Striking(c) * 1 = Striking(c) /\ Striking(c) \in Nat
    BY <2>3, JobIds DEF Owed, Striking
  <2>5. received[c] + Owed(c) <= Allowed(c)
    BY DEF CallsBounded
  <2> QED BY <1>0, <2>1, <2>2, <2>4, <2>5, OwedNat
<1>6. CASE UNCHANGED vars
  BY <1>0, <1>6, SameCount DEF vars
<1> QED BY <1>1, <1>2, <1>3, <1>4, <1>5, <1>6 DEF Next, JobStep

LEMMA InitCount == Init => CallsBounded
<1> SUFFICES ASSUME Init, NEW c \in Channels PROVE received[c] + Owed(c) <= Allowed(c)
  BY DEF CallsBounded
<1>1. received[c] = 0 /\ spent["faults"] = 0 /\ spent["retries"] = 0
  BY DEF Init
<1>2. \A j \in Jobs : Alive(j) = 0
  BY DEF Init, NoJob, Alive, Live
<1>3. Left(Deliver(c)) <= 1 /\ Left(Deliver(c)) \in Nat
  BY <1>2, JobIds DEF Left
<1>4. c \in CRMs => Left(Export(c)) = 0
  <2>1. c \in CRMs => Export(c) \notin toQueue
    BY JobIds DEF Init
  <2> QED BY <1>2, <2>1, JobIds DEF Left
<1> QED BY <1>1, <1>3, <1>4 DEF Owed, Allowed, Striking

\* However jobs are retried, recovered and forgotten, a channel gets the lead
\* once, once more for each use of the retry button, and once more for each job
\* a fault strikes between the call and what is written about it.
THEOREM DuplicatesTheorem == Spec => []DuplicatesBounded
<1>1. DeliveryInv /\ CallsBounded => DuplicatesBounded
  <2> SUFFICES ASSUME DeliveryInv, CallsBounded, NEW c \in Channels
               PROVE  received[c] <= Allowed(c)
    BY DEF DuplicatesBounded, Allowed
  <2>1. received[c] + Owed(c) <= Allowed(c) /\ TypeOK
    BY DEF CallsBounded, DeliveryInv
  <2> QED BY <2>1, OwedNat
<1>2. Spec => [](DeliveryInv /\ CallsBounded)
  BY InitDelivery, InitCount, DeliveryStep, CountStep, PTL DEF Spec
<1> QED BY <1>1, <1>2, PTL

-----------------------------------------------------------------------------
(* The status of the exported lead.  Where both modules use a name, that of  *)
(* CrmStatusSync is replaced by one of its own.                              *)

CONSTANTS Statuses, FirstStatus, Editors, Handlers, Concurrency, PushAttempts, MaxTime,
          MaxEdits, MaxTouches, MaxCrmEdits, SyncFaults, MaxSyncFaults

VARIABLES exported, lastRow, chosen, editor, push, tries, stalls, queue, lock, handler,
          outdated, crm, sent, now, used

Sync == INSTANCE CrmStatusSync WITH
            Attempts <- PushAttempts, Faults <- SyncFaults, MaxFaults <- MaxSyncFaults,
            lead <- exported, job <- push, spent <- used

\* What CrmStatusSync assumes of its constants.
SyncConstants == Sync!SyncAssumption /\ Sync!BoundsAssumption

HandlerStates ==
    {Sync!Idle} \cup [pc : {"checked", "contended", "refreshing", "locked", "applied"}, hook : Sync!Webhook]

\* What the argument needs of types: nothing of the jobs.
Shapes ==
    /\ exported \in [status : Statuses, at : Sync!Times, of : Sync!Times]
    /\ handler \in [Handlers -> HandlerStates]
    /\ crm \in Sync!Webhook
    /\ sent \subseteq Sync!Webhook
    /\ now \in Sync!Times
    /\ used \in [{"edits", "touches", "crm", "faults"} -> Nat]

\* Nothing is dated in the future.
NotAhead ==
    /\ exported.of <= now /\ exported.at <= now
    /\ \A m \in sent : m.at <= now
    /\ \A h \in Handlers : handler[h] # Sync!Idle => handler[h].hook.at <= now

\* What a webhook that has passed the comparison reports stays no older than what
\* the lead shows, unless it is outdated.
StillNewer ==
    \A h \in Handlers : Sync!Accepted(h) /\ h \notin outdated => exported.of <= handler[h].hook.at

DatesInv == Shapes /\ NotAhead /\ StillNewer

LEMMA InitDates == SyncConstants /\ Sync!Init => DatesInv
<1> SUFFICES ASSUME SyncConstants, Sync!Init PROVE DatesInv
  OBVIOUS
<1> USE DEF SyncConstants
<1>1. 0 \in Sync!Times
  BY SyncConstants DEF Sync!Times
<1>2. Shapes
  BY <1>1, SyncConstants DEF Sync!Init, Shapes, HandlerStates, Sync!Webhook
<1>3. NotAhead /\ StillNewer
  BY DEF Sync!Init, NotAhead, StillNewer, Sync!Accepted, Sync!Idle
<1> QED BY <1>2, <1>3 DEF DatesInv

LEMMA SpendStep ==
    ASSUME Shapes, NEW b \in {"edits", "touches", "crm", "faults"}, NEW max, Sync!Spend(b, max)
    PROVE  used' \in [{"edits", "touches", "crm", "faults"} -> Nat]
<1>1. PICK B : B = {"edits", "touches", "crm", "faults"}
  OBVIOUS
<1>2. used \in [B -> Nat] /\ used' = [used EXCEPT ![b] = @ + 1] /\ b \in B
  BY <1>1 DEF Shapes, Sync!Spend
<1> QED BY <1>1, <1>2

\* Steps of the editors, the queue and the lock.
LEMMA ElsewhereDates ==
    ASSUME DatesInv, UNCHANGED <<exported, handler, outdated, crm, now, used>>, sent' \subseteq sent
    PROVE  DatesInv'
  BY DEF DatesInv, Shapes, NotAhead, StillNewer, Sync!Accepted

\* Steps that only tell how far a webhook is.
LEMMA HandlerDates ==
    ASSUME DatesInv, UNCHANGED <<exported, crm, now, used>>, sent' \subseteq sent,
           handler' \in [Handlers -> HandlerStates],
           \A h \in Handlers :
             \/ handler'[h] = Sync!Idle
             \/ /\ handler[h] # Sync!Idle /\ handler'[h].hook = handler[h].hook
                /\ Sync!Accepted(h)' => Sync!Accepted(h)
                /\ h \in outdated => h \in outdated'
             \/ handler'[h] = handler[h] /\ (h \in outdated => h \in outdated')
    PROVE  DatesInv'
<1>1. Shapes'
  BY DEF DatesInv, Shapes
<1>2. NotAhead'
  BY DEF DatesInv, NotAhead
<1>3. StillNewer'
  <2> SUFFICES ASSUME NEW h \in Handlers, Sync!Accepted(h)', h \notin outdated'
               PROVE  exported.of <= handler'[h].hook.at
    BY DEF StillNewer
  <2>1. handler'[h] # Sync!Idle
    BY DEF Sync!Accepted, Sync!Idle
  <2>2. Sync!Accepted(h) /\ h \notin outdated /\ handler'[h].hook = handler[h].hook
    BY <2>1 DEF Sync!Accepted
  <2> QED BY <2>2 DEF DatesInv, StillNewer
<1> QED BY <1>1, <1>2, <1>3 DEF DatesInv

\* The CRM takes a status, and dates it now.
LEMMA CrmDates ==
    ASSUME DatesInv, NEW s \in Statuses, Sync!CrmTakes(s), UNCHANGED <<exported, handler, outdated, now>>,
           used' \in [{"edits", "touches", "crm", "faults"} -> Nat]
    PROVE  DatesInv'
<1>1. crm' \in Sync!Webhook /\ crm'.at = now
  BY DEF Sync!CrmTakes, DatesInv, Shapes, Sync!Webhook
<1>2. sent' \subseteq sent \cup {crm'}
  BY DEF Sync!CrmTakes
<1>3. now \in Int
  BY DEF DatesInv, Shapes, Sync!Times
<1>4. Shapes'
  BY <1>1, <1>2 DEF DatesInv, Shapes
<1>5. NotAhead'
  BY <1>1, <1>2, <1>3 DEF DatesInv, NotAhead
<1>6. StillNewer'
  BY DEF DatesInv, StillNewer, Sync!Accepted
<1> QED BY <1>4, <1>5, <1>6 DEF DatesInv

\* A change made at t is shown, or found to be shown; webhooks in progress that
\* are not older keep their place.
LEMMA ShownDates ==
    ASSUME DatesInv, NEW t \in Sync!Times, t <= now, exported'.of \in {t, exported.of},
           \A h \in Handlers : Sync!Accepted(h)' /\ h \notin outdated'
               => handler'[h] = handler[h] /\ h \notin outdated /\ h \notin Sync!Overtaken(t)
    PROVE  StillNewer'
<1> SUFFICES ASSUME NEW h \in Handlers, Sync!Accepted(h)', h \notin outdated'
             PROVE  exported'.of <= handler'[h].hook.at
  BY DEF StillNewer
<1>1. handler'[h] = handler[h] /\ h \notin outdated /\ h \notin Sync!Overtaken(t)
  OBVIOUS
<1>2. Sync!Accepted(h)
  BY <1>1 DEF Sync!Accepted
<1>3. ~(handler[h].hook.at < t)
  BY <1>1, <1>2 DEF Sync!Overtaken
<1>4. exported.of <= handler[h].hook.at
  BY <1>1, <1>2 DEF DatesInv, StillNewer
<1>5. handler[h].hook.at \in Int /\ t \in Int
  BY <1>2 DEF DatesInv, Shapes, HandlerStates, Sync!Accepted, Sync!Idle, Sync!Webhook, Sync!Times
<1> QED BY <1>1, <1>3, <1>4, <1>5

LEMMA StepDates ==
    ASSUME SyncConstants
    PROVE  DatesInv /\ [Sync!Next]_Sync!vars => DatesInv'
<1> SUFFICES ASSUME DatesInv, [Sync!Next]_Sync!vars PROVE DatesInv'
  OBVIOUS
<1> USE DEF Sync!leadVars, Sync!jobVars, Sync!crmVars, Sync!inboundVars
<1>a. Shapes /\ NotAhead /\ StillNewer
  BY DEF DatesInv
<1>b. \A t \in Sync!Times : t \in Int
  BY DEF Sync!Times
<1>c. now \in Sync!Times /\ now \in Int
  BY <1>a, <1>b DEF Shapes
<1>1. ASSUME NEW e \in Editors, NEW s \in Statuses, Sync!SaveStatus(e, s) PROVE DatesInv'
  <2>1. /\ exported' = [status |-> s, at |-> now, of |-> now]
        /\ UNCHANGED <<handler, crm, sent, now>>
        /\ outdated' = outdated \cup Sync!Overtaken(now)
        /\ Sync!Spend("edits", MaxEdits)
    BY <1>1 DEF Sync!SaveStatus
  <2>2. Shapes'
    BY <1>a, <2>1, SpendStep DEF Shapes
  <2>3. NotAhead'
    BY <1>a, <1>c, <2>1 DEF NotAhead
  <2>4. \A h \in Handlers : Sync!Accepted(h)' /\ h \notin outdated'
            => handler'[h] = handler[h] /\ h \notin outdated /\ h \notin Sync!Overtaken(now)
    BY <2>1
  <2>5. exported'.of \in {now, exported.of} /\ now <= now
    BY <1>c, <2>1
  <2>6. StillNewer'
    BY <1>c, <2>4, <2>5, ShownDates
  <2> QED BY <2>2, <2>3, <2>6 DEF DatesInv
<1>2. ASSUME Sync!TouchLead PROVE DatesInv'
  <2>1. /\ exported' = [exported EXCEPT !.at = now]
        /\ UNCHANGED <<handler, outdated, crm, sent, now>>
        /\ Sync!Spend("touches", MaxTouches)
    BY <1>2 DEF Sync!TouchLead
  <2>2. exported'.of = exported.of /\ exported'.at = now
        /\ exported' \in [status : Statuses, at : Sync!Times, of : Sync!Times]
    BY <1>a, <2>1 DEF Shapes
  <2>3. Shapes'
    BY <1>a, <2>1, <2>2, SpendStep DEF Shapes
  <2>4. NotAhead'
    BY <1>a, <1>c, <2>1, <2>2 DEF NotAhead
  <2>5. StillNewer'
    BY <1>a, <2>1, <2>2 DEF StillNewer, Sync!Accepted
  <2> QED BY <2>3, <2>4, <2>5 DEF DatesInv
<1>3. ASSUME NEW h \in Handlers, NEW m \in sent, Sync!ReceiveWebhook(h, m) PROVE DatesInv'
  <2>0. m \in Sync!Webhook /\ m.at \in Sync!Times /\ m.at <= now /\ m.status \in Statuses
    BY <1>a DEF Shapes, NotAhead, Sync!Webhook
  <2>1. CASE UNCHANGED <<exported, handler, outdated>>
    <3>1. sent' \subseteq sent /\ UNCHANGED <<crm, now, used>>
      BY <1>3 DEF Sync!ReceiveWebhook, Sync!Answer, Sync!Confirm, Sync!Accept
    <3> QED BY <2>1, <3>1, ElsewhereDates
  <2>2. CASE Sync!Confirm(m)
    <3>1. /\ exported' = [exported EXCEPT !.of = IF m.at > @ THEN m.at ELSE @]
          /\ outdated' = outdated \cup Sync!Overtaken(m.at)
          /\ sent' \subseteq sent /\ UNCHANGED <<handler, crm, now, used>>
      BY <1>3, <2>2 DEF Sync!ReceiveWebhook, Sync!Confirm, Sync!Answer
    <3>2. /\ exported' \in [status : Statuses, at : Sync!Times, of : Sync!Times]
          /\ exported'.of \in {m.at, exported.of} /\ exported'.at = exported.at
      BY <1>a, <2>0, <3>1 DEF Shapes
    <3>3. Shapes'
      BY <1>a, <3>1, <3>2 DEF Shapes
    <3>4. NotAhead'
      BY <1>a, <2>0, <3>1, <3>2 DEF NotAhead
    <3>5. \A q \in Handlers : Sync!Accepted(q)' /\ q \notin outdated'
              => handler'[q] = handler[q] /\ q \notin outdated /\ q \notin Sync!Overtaken(m.at)
      BY <3>1
    <3>6. StillNewer'
      BY <2>0, <3>2, <3>5, ShownDates
    <3> QED BY <3>3, <3>4, <3>6 DEF DatesInv
  <2>3. CASE ~Sync!Overwritten(m) /\ exported.status # m.status /\ Sync!Accept(h, m)
    <3>1. /\ handler' = [handler EXCEPT ![h] = [pc |-> "checked", hook |-> m]]
          /\ outdated' = IF exported.of > exported.at THEN outdated \cup {h} ELSE outdated
          /\ UNCHANGED <<exported, crm, sent, now, used>>
      BY <1>3, <2>3 DEF Sync!ReceiveWebhook, Sync!Accept
    <3>2. [pc |-> "checked", hook |-> m] \in HandlerStates
      BY <2>0 DEF HandlerStates
    <3>3. Shapes'
      BY <1>a, <3>1, <3>2 DEF Shapes
    <3>4. \A q \in Handlers : handler'[q] = IF q = h THEN [pc |-> "checked", hook |-> m]
                                            ELSE handler[q]
      BY <1>a, <3>1 DEF Shapes
    <3>5. NotAhead'
      BY <1>a, <2>0, <3>1, <3>4 DEF NotAhead
    <3>6. h \notin outdated' => exported.of <= m.at
      <4>1. exported.at <= m.at
        BY <1>a, <1>b, <2>0, <2>3 DEF Sync!Overwritten, Shapes
      <4>2. h \notin outdated' => exported.of <= exported.at
        BY <1>a, <1>b, <3>1 DEF Shapes
      <4> QED BY <1>a, <1>b, <2>0, <4>1, <4>2 DEF Shapes
    <3>7. StillNewer'
      BY <1>a, <3>1, <3>4, <3>6 DEF StillNewer, Sync!Accepted
    <3> QED BY <3>3, <3>5, <3>7 DEF DatesInv
  <2> QED BY <1>3, <2>1, <2>2, <2>3 DEF Sync!ReceiveWebhook
<1>4. ASSUME NEW h \in Handlers, Sync!ApplyInbound(h) PROVE DatesInv'
  <2>1. /\ handler[h].pc = "locked" /\ handler[h] \in HandlerStates
        /\ handler' = [handler EXCEPT ![h].pc = "applied"]
        /\ exported' = [status |-> handler[h].hook.status, at |-> now, of |-> handler[h].hook.at]
        /\ outdated' = (outdated \cup Sync!Overtaken(handler[h].hook.at)) \ {h}
        /\ UNCHANGED <<crm, sent, now, used>>
    BY <1>4, <1>a DEF Sync!ApplyInbound, Shapes
  <2>2. handler[h].hook \in Sync!Webhook /\ handler[h] # Sync!Idle
    BY <2>1 DEF HandlerStates, Sync!Idle
  <2>3. [handler[h] EXCEPT !.pc = "applied"] \in HandlerStates
    BY <2>1, <2>2 DEF HandlerStates, Sync!Idle
  <2>4. /\ handler'[h] = [handler[h] EXCEPT !.pc = "applied"]
        /\ \A q \in Handlers \ {h} : handler'[q] = handler[q]
    BY <1>a, <2>1 DEF Shapes
  <2>5. handler[h].hook.at \in Sync!Times /\ handler[h].hook.status \in Statuses
        /\ handler[h].hook.at <= now
    BY <1>a, <2>2 DEF Sync!Webhook, NotAhead
  <2>6. Shapes'
    BY <1>a, <1>c, <2>1, <2>3, <2>5 DEF Shapes
  <2>7. handler'[h].hook = handler[h].hook /\ handler'[h].pc = "applied"
    BY <2>1, <2>2, <2>4 DEF HandlerStates, Sync!Idle
  <2>8. NotAhead'
    BY <1>a, <1>c, <2>1, <2>2, <2>4, <2>5, <2>7 DEF NotAhead
  <2>9. ~Sync!Accepted(h)'
    BY <2>7 DEF Sync!Accepted
  <2>10. exported'.of = handler[h].hook.at
    BY <2>1
  <2>11. ASSUME NEW q \in Handlers, Sync!Accepted(q)', q \notin outdated'
         PROVE  handler'[q] = handler[q] /\ q \notin outdated
                /\ q \notin Sync!Overtaken(handler[h].hook.at)
    BY <2>1, <2>4, <2>9, <2>11
  <2>12. StillNewer'
    <3>1. exported'.of \in {handler[h].hook.at, exported.of}
      BY <2>10
    <3> QED BY <2>5, <2>11, <3>1, ShownDates
  <2> QED BY <2>6, <2>8, <2>12 DEF DatesInv
<1>5. ASSUME NEW h \in Handlers,
             Sync!LockInbound(h) \/ Sync!SkipOrRefresh(h) \/ Sync!RefreshInboundLock(h) \/ Sync!ReleaseInbound(h)
      PROVE  DatesInv'
  <2>1. /\ UNCHANGED <<exported, crm, now, used>> /\ sent' \subseteq sent
        /\ handler[h].pc \in {"checked", "contended", "refreshing", "applied"}
        /\ outdated \ {h} \subseteq outdated'
    BY <1>5 DEF Sync!LockInbound, Sync!SkipOrRefresh, Sync!RefreshInboundLock, Sync!ReleaseInbound, Sync!Answer
  <2>2. handler[h] \in HandlerStates /\ handler[h] # Sync!Idle /\ handler[h].hook \in Sync!Webhook
    BY <1>a, <2>1 DEF Shapes, HandlerStates, Sync!Idle
  <2>3. \/ handler' = [handler EXCEPT ![h] = Sync!Idle]
        \/ \E pc \in {"contended", "refreshing", "locked"} :
             /\ handler' = [handler EXCEPT ![h].pc = pc] /\ Sync!Accepted(h)
             /\ UNCHANGED outdated
    BY <1>5 DEF Sync!LockInbound, Sync!SkipOrRefresh, Sync!RefreshInboundLock, Sync!ReleaseInbound, Sync!Accepted
  <2>4. Sync!Idle \in HandlerStates
    BY DEF HandlerStates
  <2>5. CASE handler' = [handler EXCEPT ![h] = Sync!Idle]
    <3>1. /\ handler' \in [Handlers -> HandlerStates]
          /\ \A q \in Handlers : handler'[q] = IF q = h THEN Sync!Idle ELSE handler[q]
      BY <1>a, <2>4, <2>5 DEF Shapes
    <3>2. \A q \in Handlers : q # h /\ q \in outdated => q \in outdated'
      BY <2>1
    <3> QED BY <2>1, <3>1, <3>2, HandlerDates
  <2>6. CASE \E pc \in {"contended", "refreshing", "locked"} :
               /\ handler' = [handler EXCEPT ![h].pc = pc] /\ Sync!Accepted(h)
               /\ UNCHANGED outdated
    <3>1. PICK pc \in {"contended", "refreshing", "locked"} :
               /\ handler' = [handler EXCEPT ![h].pc = pc] /\ Sync!Accepted(h)
               /\ UNCHANGED outdated
      BY <2>6
    <3>2. [handler[h] EXCEPT !.pc = pc] \in HandlerStates
      BY <2>2 DEF HandlerStates, Sync!Idle
    <3>3. handler' \in [Handlers -> HandlerStates]
      BY <1>a, <3>1, <3>2 DEF Shapes
    <3>4. \A q \in Handlers : q # h => handler'[q] = handler[q]
      BY <1>a, <3>1 DEF Shapes
    <3>5. handler'[h].hook = handler[h].hook
      BY <1>a, <2>2, <3>1 DEF Shapes, HandlerStates, Sync!Idle
    <3> QED BY <2>1, <2>2, <3>1, <3>3, <3>4, <3>5, HandlerDates
  <2> QED BY <2>3, <2>5, <2>6
<1>6. ASSUME NEW s \in Statuses, Sync!CallCrm(s) PROVE DatesInv'
  <2>1. UNCHANGED <<exported, handler, outdated, now>>
    BY <1>6 DEF Sync!CallCrm
  <2>2. used' \in [{"edits", "touches", "crm", "faults"} -> Nat]
    BY <1>6, <1>a, SpendStep DEF Sync!CallCrm, Sync!Fault, Shapes
  <2>3. CASE Sync!CrmTakes(s)
    BY <2>1, <2>2, <2>3, CrmDates
  <2>4. CASE ~Sync!CrmTakes(s)
    <3>1. UNCHANGED <<crm, sent>>
      BY <1>6, <2>4 DEF Sync!CallCrm
    <3> QED BY <2>1, <2>2, <3>1 DEF DatesInv, Shapes, NotAhead, StillNewer, Sync!Accepted
  <2> QED BY <2>3, <2>4
<1>7. ASSUME NEW s \in Statuses, Sync!EditInCrm(s) PROVE DatesInv'
  <2>1. UNCHANGED <<exported, handler, outdated, now>> /\ Sync!CrmTakes(s) /\ Sync!Spend("crm", MaxCrmEdits)
    BY <1>7 DEF Sync!EditInCrm
  <2> QED BY <1>a, <2>1, SpendStep, CrmDates
<1>8. ASSUME Sync!Restart PROVE DatesInv'
  <2>1. /\ UNCHANGED <<exported, crm, sent, now>>
        /\ handler' = [h \in Handlers |-> Sync!Idle]
        /\ Sync!Spend("faults", MaxSyncFaults)
    BY <1>8 DEF Sync!Restart, Sync!Fault
  <2>2. Shapes'
    BY <1>a, <2>1, SpendStep DEF Shapes, HandlerStates
  <2>3. NotAhead' /\ StillNewer'
    BY <1>a, <2>1 DEF NotAhead, StillNewer, Sync!Accepted, Sync!Idle
  <2> QED BY <2>2, <2>3 DEF DatesInv
<1>9. ASSUME Sync!Tick PROVE DatesInv'
  <2>1. /\ now' = now + 1 /\ now < MaxTime
        /\ UNCHANGED <<exported, handler, outdated, crm, sent, used>>
    BY <1>9 DEF Sync!Tick
  <2>2. now' \in Sync!Times /\ now <= now' /\ now \in Int /\ now' \in Int
    BY <1>a, <2>1 DEF Shapes, Sync!Times, SyncConstants
  <2>3. Shapes'
    BY <1>a, <2>1, <2>2 DEF Shapes
  <2>4. \A t \in Sync!Times : t <= now => t <= now'
    BY <1>b, <2>2
  <2>5. \A h \in Handlers : handler[h] # Sync!Idle => handler[h].hook.at \in Sync!Times
    BY <1>a DEF Shapes, HandlerStates, Sync!Webhook
  <2>6. /\ exported.at \in Sync!Times /\ exported.of \in Sync!Times
        /\ \A m \in sent : m.at \in Sync!Times
    BY <1>a DEF Shapes, Sync!Webhook
  <2>7. NotAhead'
    BY <1>a, <2>1, <2>4, <2>5, <2>6 DEF NotAhead
  <2>8. StillNewer'
    BY <1>a, <2>1 DEF StillNewer, Sync!Accepted
  <2> QED BY <2>3, <2>7, <2>8 DEF DatesInv
<1>10. ASSUME UNCHANGED <<exported, handler, outdated, crm, sent, now, used>> PROVE DatesInv'
  BY <1>10, ElsewhereDates
<1>11. ASSUME NEW e \in Editors, Sync!RecordHistory(e) \/ Sync!EnqueuePush(e) PROVE DatesInv'
  BY <1>11, <1>10 DEF Sync!RecordHistory, Sync!EnqueuePush
<1>12. ASSUME NEW s \in Statuses,
              \/ Sync!StartPush(s) \/ Sync!LockPush(s) \/ Sync!YieldOrRefresh(s) \/ Sync!RefreshPushLock(s)
              \/ Sync!EndPush(s) \/ Sync!Retry(s) \/ Sync!ForgetJob(s)
       PROVE  DatesInv'
  BY <1>12, <1>10 DEF Sync!StartPush, Sync!LockPush, Sync!YieldOrRefresh, Sync!RefreshPushLock, Sync!EndPush, Sync!Retry,
     Sync!ForgetJob
<1>13. ASSUME Sync!LockExpires \/ UNCHANGED Sync!vars PROVE DatesInv'
  BY <1>13, <1>10 DEF Sync!LockExpires, Sync!vars
<1> QED
  BY <1>1, <1>2, <1>3, <1>4, <1>5, <1>6, <1>7, <1>8, <1>9, <1>11, <1>12, <1>13
     DEF Sync!Next, Sync!Edit, Sync!PushStep, Sync!InboundStep

\* For any number of statuses, editors, pushes, changes of the CRM and webhooks in
\* progress, in whatever order they arrive: the lead goes back to an earlier
\* change only by a webhook whose comparison of dates is outdated, or was made
\* with a row that does not tell of a change it was found to show.
THEOREM InOrderTheorem ==
    ASSUME SyncConstants
    PROVE  Sync!Spec => Sync!CrmChangesInOrder
<1>1. Sync!Init => DatesInv
  BY InitDates
<1>2. DatesInv /\ [Sync!Next]_Sync!vars => DatesInv'
  BY StepDates
<1>3. ASSUME DatesInv, [Sync!Next]_Sync!vars, exported' # exported
      PROVE  \/ exported'.of >= exported.of
             \/ \E h \in outdated : Sync!Accepted(h) /\ ~Sync!Accepted(h)'
  <2> USE DEF Sync!leadVars, Sync!jobVars, Sync!crmVars, Sync!inboundVars
  <2>1. exported.of \in Int /\ now \in Int /\ exported.of <= now
    BY <1>3 DEF DatesInv, Shapes, NotAhead, Sync!Times
  <2>2. CASE \E e \in Editors, s \in Statuses : Sync!SaveStatus(e, s)
    <3>1. exported'.of = now
      BY <2>2 DEF Sync!SaveStatus
    <3> QED BY <2>1, <3>1
  <2>3. CASE Sync!TouchLead
    <3>1. exported'.of = exported.of
      BY <1>3, <2>3 DEF Sync!TouchLead, DatesInv, Shapes
    <3> QED BY <2>1, <3>1
  <2>4. CASE \E m \in sent : Sync!Confirm(m)
    <3>1. PICK m \in sent : Sync!Confirm(m)
      BY <2>4
    <3>2. m.at \in Int
      BY <1>3, <3>1 DEF DatesInv, Shapes, Sync!Webhook, Sync!Times
    <3>3. exported'.of = IF m.at > exported.of THEN m.at ELSE exported.of
      BY <1>3, <3>1 DEF Sync!Confirm, DatesInv, Shapes
    <3> QED BY <2>1, <3>2, <3>3
  <2>5. CASE \E h \in Handlers : Sync!ApplyInbound(h)
    <3>1. PICK h \in Handlers : Sync!ApplyInbound(h)
      BY <2>5
    <3>2. Sync!Accepted(h) /\ exported'.of = handler[h].hook.at /\ handler[h] \in HandlerStates
      BY <1>3, <3>1 DEF Sync!ApplyInbound, Sync!Accepted, DatesInv, Shapes
    <3>3. handler'[h].pc = "applied"
      BY <1>3, <3>1, <3>2 DEF Sync!ApplyInbound, DatesInv, Shapes, HandlerStates, Sync!Idle
    <3>4. ~Sync!Accepted(h)'
      BY <3>3 DEF Sync!Accepted
    <3>5. h \notin outdated => exported.of <= handler[h].hook.at
      BY <1>3, <3>2 DEF DatesInv, StillNewer
    <3>6. handler[h].hook.at \in Int
      BY <3>1, <3>2 DEF Sync!ApplyInbound, HandlerStates, Sync!Idle, Sync!Webhook, Sync!Times
    <3> QED BY <2>1, <3>2, <3>4, <3>5, <3>6
  <2> QED
    BY <1>3, <2>2, <2>3, <2>4, <2>5 DEF Sync!Next, Sync!Edit, Sync!PushStep, Sync!InboundStep, Sync!RecordHistory, Sync!EnqueuePush,
       Sync!StartPush, Sync!LockPush, Sync!YieldOrRefresh, Sync!RefreshPushLock, Sync!CallCrm, Sync!EndPush, Sync!Retry,
       Sync!ForgetJob, Sync!EditInCrm, Sync!LockInbound, Sync!SkipOrRefresh, Sync!RefreshInboundLock, Sync!ReleaseInbound,
       Sync!ReceiveWebhook, Sync!Accept, Sync!LockExpires, Sync!Restart, Sync!Tick, Sync!vars
<1>4. DatesInv /\ [Sync!Next]_Sync!vars =>
         [\/ exported'.of >= exported.of
          \/ \E h \in outdated : Sync!Accepted(h) /\ ~Sync!Accepted(h)']_exported
  BY <1>3
<1> QED BY <1>1, <1>2, <1>4, PTL DEF Sync!Spec, Sync!CrmChangesInOrder
=============================================================================
