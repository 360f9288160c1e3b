------------------------------ MODULE FollowUp ------------------------------
(***************************************************************************)
(* Follow-up messages to a visitor who has gone silent ("closer"): the     *)
(* schedule in the dialog's row, the cron scan of every minute, the queue, *)
(* its worker and the statements the chat gateway starts without awaiting  *)
(* them.                                                                   *)
(*                                                                         *)
(* One dialog of a source whose closer is enabled; dialogs share nothing   *)
(* but the queue.  A scan, a job and a visitor's message are each split at *)
(* their awaits.  Time is counted in minutes, and what is relative to now  *)
(* is kept so: nextFollowUpAt is the number of minutes left.               *)
(***************************************************************************)
EXTENDS Integers, FiniteSets

CONSTANTS
    Jobs,            \* bound: jobs the queue holds at once, at most Concurrency
    Concurrency,     \* FOLLOW_UP_JOB_CONCURRENCY
    MaxAttempts,     \* closer.maxAttempts
    Delays,          \* closer.delaysMinutes by attempt, the last one repeated
    JobAttempts,     \* attempts of a job
    MaxMessages,     \* bound: messages of the visitor
    MaxParallel,     \* bound: messages the gateway is handling at once
    Faults, MaxFaults,
    MaxSlow          \* bound: jobs that take longer than their minute

FaultKinds == {"restart", "call_fails"}

ASSUME CloserAssumption ==
    /\ MaxAttempts \in Nat \ {0}
    /\ Delays \in [0..MaxAttempts -> Nat \ {0}]
    /\ JobAttempts \in Nat \ {0}

ASSUME FollowUpBounds ==
    /\ IsFiniteSet(Jobs)
    /\ Concurrency \in Nat /\ Cardinality(Jobs) <= Concurrency
    /\ MaxMessages \in Nat /\ MaxParallel \in Nat
    /\ Faults \subseteq FaultKinds /\ MaxFaults \in Nat /\ MaxSlow \in Nat

VARIABLES
    dialog,      \* active, followUpCount, nextFollowUpAt and closerState of the row
    last,        \* role of the dialog's newest message
    complete,    \* there is a lead and no field of its profile is missing
    sent,        \* follow-ups stored since the visitor's last message (history)
    inbound,     \* messages being handled by the gateway, by step
    background,  \* statements started with `void` and not yet run, by kind
    cron,        \* the scan's step
    job,         \* the queue's jobs: step, count read, attempts and stalls used, slowness
    spent        \* what is used up of each bound, and the messages refused (history)

vars == <<dialog, last, complete, sent, inbound, background, cron, job, spent>>

\* nextFollowUpAt: null
Null == -1

CronSteps == {"idle", "row", "eligible", "queued"}
JobSteps  == {"waiting", "row", "eligible", "generated", "refused", "stored", "counted"}
Unawaited == {"reset", "plan", "arm", "win"}

\* followUpCount < 10 in findDueDialogs
ScanLimit == 10

\* maxStalledCount of a BullMQ worker
MaxStalled == 1

Free == [pc |-> "free"]
Job  == [pc : JobSteps, read : Nat, tries : 0..JobAttempts, stalls : 0..MaxStalled, slow : BOOLEAN]
Queued == [pc |-> "waiting", read |-> 0, tries |-> 0, stalls |-> 0, slow |-> FALSE]
Busy(j) == job[j] # Free

TypeOK ==
    /\ dialog \in [active : BOOLEAN, count : 0..MaxAttempts, next : Nat \cup {Null},
                   state : {"none", "awaiting", "won"}]
    /\ last \in {"user", "assistant"}
    /\ complete \in BOOLEAN
    /\ sent \in Nat
    /\ inbound \in [{"received", "stored"} -> 0..MaxParallel]
    /\ background \in [Unawaited -> Nat]
    /\ cron \in CronSteps
    /\ job \in [Jobs -> {Free} \cup Job]
    /\ \A j \in Jobs : Busy(j) => job[j].read < MaxAttempts
    /\ spent \in [{"messages", "refused", "faults", "slow"} -> Nat]

\* The visitor has opened the dialog and been greeted; nothing is scheduled yet.
Init ==
    /\ dialog = [active |-> TRUE, count |-> 0, next |-> Null, state |-> "none"]
    /\ last = "assistant"
    /\ complete = FALSE
    /\ sent = 0
    /\ inbound = [s \in {"received", "stored"} |-> 0]
    /\ background = [s \in Unawaited |-> 0]
    /\ cron = "idle"
    /\ job = [j \in Jobs |-> Free]
    /\ spent = [b \in {"messages", "refused", "faults", "slow"} |-> 0]

Spend(b, max) == spent[b] < max /\ spent' = [spent EXCEPT ![b] = @ + 1]

Fault(kind) == kind \in Faults /\ Spend("faults", MaxFaults)

Begin(s) == background' = [background EXCEPT ![s] = @ + 1]

Run(s) ==
    /\ background[s] > 0
    /\ background' = [background EXCEPT ![s] = @ - 1]

-----------------------------------------------------------------------------
(* The visitor: chat.gateway.ts and ai-orchestrator.service.ts *)

ReceiveMessage ==
    /\ dialog.active
    /\ inbound["received"] + inbound["stored"] < MaxParallel
    /\ Spend("messages", MaxMessages)
    /\ inbound' = [inbound EXCEPT !["received"] = @ + 1]
    /\ Begin("reset")
    /\ UNCHANGED <<dialog, last, complete, sent, cron, job>>

\* assertCanSendMessage throws: the chunk 'error' is all that follows; nothing is
\* stored, and the schedule is reset all the same
RefuseMessage ==
    /\ inbound["received"] > 0
    /\ inbound' = [inbound EXCEPT !["received"] = @ - 1]
    /\ spent' = [spent EXCEPT !["refused"] = @ + 1]
    /\ UNCHANGED <<dialog, last, complete, sent, background, cron, job>>

\* addMessage and leadExtraction.processMessage
StoreMessage ==
    /\ inbound["received"] > 0
    /\ inbound' = [inbound EXCEPT !["received"] = @ - 1, !["stored"] = @ + 1]
    /\ last' = "user"
    /\ complete' \in {complete, TRUE}
    /\ sent' = 0
    /\ UNCHANGED <<dialog, background, cron, job, spent>>

\* the answer's message and the chunk 'done'
Answer ==
    /\ inbound["stored"] > 0
    /\ inbound' = [inbound EXCEPT !["stored"] = @ - 1]
    /\ last' = "assistant"
    /\ Begin("plan")
    /\ UNCHANGED <<dialog, complete, sent, cron, job, spent>>

\* the chunk 'error' because no provider of the chain answers, or the catch of
\* whatever else throws, before the message is stored or after
MessageFails ==
    /\ Fault("call_fails")
    /\ \E s \in DOMAIN inbound :
          /\ inbound[s] > 0
          /\ inbound' = [inbound EXCEPT ![s] = @ - 1]
    /\ UNCHANGED <<dialog, last, complete, sent, background, cron, job>>

CloseDialog ==
    /\ dialog.active
    /\ dialog' = [dialog EXCEPT !.active = FALSE]
    /\ UNCHANGED <<last, complete, sent, inbound, background, cron, job, spent>>

-----------------------------------------------------------------------------
(* follow-up-scheduler.service.ts *)

\* onUserMessage
ResetSchedule ==
    /\ Run("reset")
    /\ dialog' = IF dialog.active
                 THEN [dialog EXCEPT !.count = 0, !.next = Null, !.state = "none"]
                 ELSE dialog
    /\ UNCHANGED <<last, complete, sent, inbound, cron, job, spent>>

\* onAssistantMessage: getLeadState, then one of two updates
PlanFollowUp ==
    /\ background["plan"] > 0
    /\ LET update == IF complete THEN "win" ELSE "arm"
       IN background' = [background EXCEPT !["plan"] = @ - 1, ![update] = @ + 1]
    /\ UNCHANGED <<dialog, last, complete, sent, inbound, cron, job, spent>>

Won(d) == [d EXCEPT !.next = Null, !.state = "won"]

Armed(d, attempt) == [d EXCEPT !.next = Delays[attempt], !.state = "awaiting"]

ArmFollowUp ==
    /\ Run("arm")
    /\ dialog' = Armed(dialog, 0)
    /\ UNCHANGED <<last, complete, sent, inbound, cron, job, spent>>

WinDialog ==
    /\ Run("win")
    /\ dialog' = Won(dialog)
    /\ UNCHANGED <<last, complete, sent, inbound, cron, job, spent>>

-----------------------------------------------------------------------------
(* The scan: follow-up-cron.service.ts and follow-up-eligibility.service.ts *)

\* *Mutant:* maxAttempts is not looked at
RowEligibleAlways ==
    /\ dialog.active
    /\ dialog.next = 0
    /\ dialog.state # "won"

\* isEligible up to the read of the newest message
RowEligible ==
    /\ dialog.active
    /\ dialog.next = 0
    /\ dialog.count < MaxAttempts
    /\ dialog.state # "won"

\* *Mutant:* the lead's state is not looked at
VerdictOnSilence == IF last = "assistant" THEN "eligible" ELSE "replied"

\* the rest of isEligible: the newest message and the lead
Verdict ==
    CASE last # "assistant" -> "replied"
      [] last = "assistant" /\ complete -> "complete"
      [] OTHER -> "eligible"

\* findDueDialogs and the row read by isEligible
ScanFinds ==
    /\ cron = "idle"
    /\ RowEligible /\ dialog.count < ScanLimit
    /\ cron' = "row"
    /\ UNCHANGED <<dialog, last, complete, sent, inbound, background, job, spent>>

ScanChecks ==
    /\ cron = "row"
    /\ cron' = IF Verdict = "eligible" THEN "eligible" ELSE "idle"
    /\ dialog' = IF Verdict = "complete" THEN Won(dialog) ELSE dialog
    /\ UNCHANGED <<last, complete, sent, inbound, background, job, spent>>

\* follow-up-queue.service.ts; the job's id holds the time, so it is always new
Enqueue ==
    /\ cron = "eligible"
    /\ \E j \in Jobs :
          /\ ~Busy(j)
          /\ job' = [job EXCEPT ![j] = Queued]
    /\ cron' = "queued"
    /\ UNCHANGED <<dialog, last, complete, sent, inbound, background, spent>>

\* nextFollowUpAt: Date.now() + 60_000
Postpone ==
    /\ cron = "queued"
    /\ dialog' = [dialog EXCEPT !.next = 1]
    /\ cron' = "idle"
    /\ UNCHANGED <<last, complete, sent, inbound, background, job, spent>>

ScanFails ==
    /\ Fault("call_fails")
    /\ cron # "idle"
    /\ cron' = "idle"
    /\ UNCHANGED <<dialog, last, complete, sent, inbound, background, job>>

-----------------------------------------------------------------------------
(* The worker: follow-up.processor.ts and follow-up-orchestrator.service.ts *)

At(j, pc) == job[j].pc = pc

Goto(j, pc) == job' = [job EXCEPT ![j].pc = pc]

Finish(j) == job' = [job EXCEPT ![j] = Free]

StartJob(j) ==
    /\ At(j, "waiting")
    /\ IF RowEligible
       THEN job' = [job EXCEPT ![j].pc = "row", ![j].read = dialog.count]
       ELSE Finish(j)
    /\ UNCHANGED <<dialog, last, complete, sent, inbound, background, cron, spent>>

CheckJob(j) ==
    /\ At(j, "row")
    /\ IF Verdict = "eligible" THEN Goto(j, "eligible") ELSE Finish(j)
    /\ dialog' = IF Verdict = "complete" THEN Won(dialog) ELSE dialog
    /\ UNCHANGED <<last, complete, sent, inbound, background, cron, spent>>

\* generateFollowUp up to the end of the stream: a refused tenant or an empty
\* answer of every provider gives null
Generate(j) ==
    /\ At(j, "eligible")
    /\ \E pc \in {"generated", "refused"} : Goto(j, pc)
    /\ UNCHANGED <<dialog, last, complete, sent, inbound, background, cron, spent>>

DropSchedule(j) ==
    /\ At(j, "refused")
    /\ dialog' = [dialog EXCEPT !.next = Null]
    /\ Finish(j)
    /\ UNCHANGED <<last, complete, sent, inbound, background, cron, spent>>

\* addMessage, and the usage log
StoreFollowUp(j) ==
    /\ At(j, "generated")
    /\ last' = "assistant"
    /\ sent' = sent + 1
    /\ Goto(j, "stored")
    /\ UNCHANGED <<dialog, complete, inbound, background, cron, spent>>

\* *Mutant:* the count that was read is written back
CountReadCount(j) ==
    /\ At(j, "stored")
    /\ dialog' = [dialog EXCEPT !.count = job[j].read]
    /\ Goto(j, "counted")
    /\ UNCHANGED <<last, complete, sent, inbound, background, cron, spent>>

\* followUpCount: newCount, from the count read by the check; then the push
CountFollowUp(j) ==
    /\ At(j, "stored")
    /\ dialog' = [dialog EXCEPT !.count = job[j].read + 1]
    /\ Goto(j, "counted")
    /\ UNCHANGED <<last, complete, sent, inbound, background, cron, spent>>

\* scheduleNextAttempt
ScheduleNext(j) ==
    /\ At(j, "counted")
    /\ dialog' = IF job[j].read + 1 >= MaxAttempts
                 THEN [dialog EXCEPT !.next = Null]
                 ELSE Armed(dialog, job[j].read + 1)
    /\ Finish(j)
    /\ UNCHANGED <<last, complete, sent, inbound, background, cron, spent>>

\* An attempt that throws is made again after the backoff, from the start.
JobFails(j) ==
    /\ Fault("call_fails")
    /\ Busy(j) /\ ~At(j, "waiting")
    /\ IF job[j].tries + 1 < JobAttempts
       THEN job' = [job EXCEPT ![j].pc = "waiting", ![j].tries = @ + 1, ![j].read = 0]
       ELSE Finish(j)
    /\ UNCHANGED <<dialog, last, complete, sent, inbound, background, cron>>

-----------------------------------------------------------------------------
(* Time and faults *)

\* A minute ends; whatever is not slow is done within it.
Tick ==
    /\ dialog.next > 0
    /\ cron = "idle"
    /\ \A s \in Unawaited : background[s] = 0
    /\ \A s \in DOMAIN inbound : inbound[s] = 0
    /\ \A j \in Jobs : Busy(j) => job[j].slow
    /\ dialog' = [dialog EXCEPT !.next = @ - 1]
    /\ UNCHANGED <<last, complete, sent, inbound, background, cron, job, spent>>

\* Three other dialogs occupy the worker, or the provider takes minutes.
Slow(j) ==
    /\ Spend("slow", MaxSlow)
    /\ Busy(j) /\ ~job[j].slow
    /\ job' = [job EXCEPT ![j].slow = TRUE]
    /\ UNCHANGED <<dialog, last, complete, sent, inbound, background, cron>>

\* What was not awaited is lost with the process; BullMQ recovers a job once.
Restart ==
    /\ Fault("restart")
    /\ inbound' = [s \in DOMAIN inbound |-> 0]
    /\ background' = [s \in Unawaited |-> 0]
    /\ cron' = "idle"
    /\ job' = [j \in Jobs |->
                 IF ~Busy(j) \/ At(j, "waiting") THEN job[j]
                 ELSE IF job[j].stalls < MaxStalled
                 THEN [job[j] EXCEPT !.pc = "waiting", !.stalls = @ + 1, !.read = 0]
                 ELSE Free]
    /\ UNCHANGED <<dialog, last, complete, sent>>

-----------------------------------------------------------------------------

Visitor ==
    \/ ReceiveMessage \/ RefuseMessage \/ StoreMessage
    \/ Answer \/ MessageFails \/ CloseDialog
Statement == ResetSchedule \/ PlanFollowUp \/ ArmFollowUp \/ WinDialog
Scan == ScanFinds \/ ScanChecks \/ Enqueue \/ Postpone
Work(j) ==
    \/ StartJob(j) \/ CheckJob(j) \/ Generate(j) \/ DropSchedule(j)
    \/ StoreFollowUp(j) \/ CountFollowUp(j) \/ ScheduleNext(j)

Next ==
    \/ Visitor \/ Statement \/ Scan \/ ScanFails
    \/ \E j \in Jobs : Work(j) \/ JobFails(j) \/ Slow(j)
    \/ Tick \/ Restart

Spec == Init /\ [][Next]_vars

\* What the process has started it carries on with, the cron fires every minute
\* and the clock runs.
Fairness ==
    /\ WF_vars(RefuseMessage \/ StoreMessage) /\ WF_vars(Answer)
    /\ WF_vars(Statement) /\ WF_vars(Scan) /\ WF_vars(Tick)
    /\ \A j \in Jobs : WF_vars(Work(j))

FairSpec == Spec /\ Fairness

-----------------------------------------------------------------------------

\* What a restart or an error can add: a follow-up for each job, whose message
\* is stored and its count is not, or which the scan has queued and not postponed
\* the dialog; or a whole series, when the count is reset for a message that is
\* lost before it is stored.
PerFault == IF MaxAttempts > Cardinality(Jobs) THEN MaxAttempts ELSE Cardinality(Jobs)

\* The closer's maxAttempts: as long as every job is done within its minute, at
\* most MaxAttempts follow-ups are stored between two stored messages of the
\* visitor, and one that was on its way when the visitor wrote.  A message that
\* is refused resets the count and is not stored: each may add a whole series,
\* and faults add theirs.
FollowUpsBounded ==
    spent["slow"] = 0 =>
      sent <= MaxAttempts + 1 + spent["refused"] * MaxAttempts + spent["faults"] * PerFault

OnTheWay == {j \in Jobs : job[j].pc \in {"eligible", "generated"}}

\* onlyIncompleteLeads: once the lead is complete the visitor gets no follow-up
\* but those that were past their check when the completing message was stored:
\* a job that is retried, or queued later, is stopped by its check.
CompleteLeadIsLeftAlone ==
    complete => sent + Cardinality(OnTheWay) <= Cardinality(Jobs)

\* What maxAttempts promises, were every message of the visitor stored: without a
\* fault or a slow job there are no more than its number and one on its way.
MaxAttemptsKept == spent["slow"] = 0 /\ spent["faults"] = 0 => sent <= MaxAttempts + 1

\* closer.ts: "Enable timed follow-ups when visitor goes silent".  A dialog that
\* is due and eligible gets its follow-up, unless the visitor writes, the dialog
\* is closed or the schedule is dropped.
Due == RowEligible /\ Verdict = "eligible"
FollowUpIsSent ==
    \A n \in 0..MaxAttempts :
       (Due /\ sent = n) ~> (sent # n \/ last = "user" \/ ~dialog.active \/ dialog.next = Null)
=============================================================================
