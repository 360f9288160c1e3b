--------------------------- MODULE FollowUpProofs ---------------------------
(***************************************************************************)
(* Proofs about FollowUp for any number of jobs, attempts, messages and    *)
(* faults, and any delays.                                                 *)
(***************************************************************************)
EXTENDS FollowUp, FiniteSetTheorems, TLAPS

DialogRow == [active : BOOLEAN, count : 0..MaxAttempts, next : Nat \cup {Null},
              state : {"none", "awaiting", "won"}]

\* What a job of the queue holds: it goes on only with a count that leaves room
\* for another attempt.
JobOK(r) == r = Free \/ (r \in Job /\ r.read < MaxAttempts)

\* Nobody handles more messages than MaxParallel.
InboundOK ==
    /\ inbound \in [{"received", "stored"} -> Nat]
    /\ inbound["received"] + inbound["stored"] <= MaxParallel

Counters == {"messages", "refused", "faults", "slow"}

CloserInv ==
    /\ dialog \in DialogRow
    /\ last \in {"user", "assistant"} /\ complete \in BOOLEAN /\ sent \in Nat
    /\ InboundOK
    /\ background \in [Unawaited -> Nat]
    /\ cron \in CronSteps
    /\ job \in [Jobs -> {Free} \cup Job] /\ \A j \in Jobs : JobOK(job[j])
    /\ spent \in [Counters -> Nat]

-----------------------------------------------------------------------------
(* The row and the bounds *)

LEMMA NoAttempt == 0 \in Nat /\ 0 < MaxAttempts /\ 0 \in 0..MaxAttempts
BY CloserAssumption

LEMMA RowKept ==
    ASSUME NEW d \in DialogRow
    PROVE  /\ [d EXCEPT !.count = 0, !.next = Null, !.state = "none"] \in DialogRow
           /\ Won(d) \in DialogRow
           /\ [d EXCEPT !.active = FALSE] \in DialogRow
           /\ [d EXCEPT !.next = Null] \in DialogRow
           /\ [d EXCEPT !.next = 1] \in DialogRow
           /\ d.next > 0 => [d EXCEPT !.next = @ - 1] \in DialogRow
           /\ \A n \in 0..MaxAttempts : /\ [d EXCEPT !.count = n] \in DialogRow
                                        /\ Armed(d, n) \in DialogRow
<1>1. /\ [d EXCEPT !.count = 0, !.next = Null, !.state = "none"] \in DialogRow
      /\ [d EXCEPT !.active = FALSE] \in DialogRow
      /\ [d EXCEPT !.next = Null] \in DialogRow
      /\ [d EXCEPT !.next = 1] \in DialogRow
  BY NoAttempt DEF DialogRow
<1>2. Won(d) \in DialogRow
  BY DEF DialogRow, Won
<1>3. ASSUME d.next > 0 PROVE [d EXCEPT !.next = @ - 1] \in DialogRow
  <2>1. d.next - 1 \in Nat
    BY <1>3 DEF DialogRow, Null
  <2> QED BY <2>1 DEF DialogRow
<1>4. ASSUME NEW n \in 0..MaxAttempts
      PROVE  [d EXCEPT !.count = n] \in DialogRow /\ Armed(d, n) \in DialogRow
  <2>1. Delays[n] \in Nat
    BY CloserAssumption
  <2> QED BY <2>1 DEF DialogRow, Armed
<1> QED BY <1>1, <1>2, <1>3, <1>4

LEMMA Spent ==
    ASSUME CloserInv, NEW b \in Counters, NEW max, Spend(b, max)
    PROVE  spent' \in [Counters -> Nat]
<1>1. spent[b] \in Nat /\ spent[b] + 1 \in Nat
  BY DEF CloserInv
<1> QED BY <1>1 DEF CloserInv, Spend

LEMMA Ran ==
    ASSUME CloserInv, NEW s \in Unawaited, Begin(s) \/ Run(s)
    PROVE  background' \in [Unawaited -> Nat]
<1>1. background[s] \in Nat /\ background[s] + 1 \in Nat
  BY DEF CloserInv
<1>2. Run(s) => background[s] - 1 \in Nat
  BY <1>1 DEF Run
<1> QED BY <1>1, <1>2 DEF CloserInv, Begin, Run

-----------------------------------------------------------------------------
(* Steps that leave the jobs alone *)

LEMMA VisitorTypes == ASSUME CloserInv, Visitor PROVE CloserInv'
<1>0. inbound["received"] \in Nat /\ inbound["stored"] \in Nat /\ MaxParallel \in Nat
  BY FollowUpBounds DEF CloserInv, InboundOK
<1>1. CASE ReceiveMessage
  <2>1. InboundOK'
    BY <1>0, <1>1 DEF ReceiveMessage, CloserInv, InboundOK
  <2>2. background' \in [Unawaited -> Nat]
    BY <1>1, Ran DEF ReceiveMessage, Unawaited
  <2>3. spent' \in [Counters -> Nat]
    BY <1>1, Spent DEF ReceiveMessage, Counters
  <2> QED BY <1>1, <2>1, <2>2, <2>3 DEF ReceiveMessage, CloserInv
<1>2. CASE StoreMessage
  <2>1. InboundOK'
    BY <1>0, <1>2 DEF StoreMessage, CloserInv, InboundOK
  <2> QED BY <1>2, <2>1 DEF StoreMessage, CloserInv
<1>3. CASE Answer
  <2>1. InboundOK'
    BY <1>0, <1>3 DEF Answer, CloserInv, InboundOK
  <2>2. background' \in [Unawaited -> Nat]
    BY <1>3, Ran DEF Answer, Unawaited
  <2> QED BY <1>3, <2>1, <2>2 DEF Answer, CloserInv
<1>4. CASE MessageFails
  <2>1. InboundOK'
    <3>1. PICK s \in {"received", "stored"} :
             inbound[s] > 0 /\ inbound' = [inbound EXCEPT ![s] = @ - 1]
      BY <1>4 DEF MessageFails, CloserInv, InboundOK
    <3> QED BY <1>0, <3>1 DEF CloserInv, InboundOK
  <2>2. spent' \in [Counters -> Nat]
    BY <1>4, Spent DEF MessageFails, Fault, Counters
  <2> QED BY <1>4, <2>1, <2>2 DEF MessageFails, CloserInv
<1>5. CASE CloseDialog
  <2>1. dialog' \in DialogRow
    BY <1>5, RowKept DEF CloseDialog, CloserInv
  <2> QED BY <1>5, <2>1 DEF CloseDialog, CloserInv, InboundOK
<1>6. CASE RefuseMessage
  <2>1. InboundOK'
    BY <1>0, <1>6 DEF RefuseMessage, CloserInv, InboundOK
  <2>2. spent["refused"] + 1 \in Nat
    BY DEF CloserInv, Counters
  <2>3. spent' \in [Counters -> Nat]
    BY <1>6, <2>2 DEF RefuseMessage, CloserInv, Counters
  <2> QED BY <1>6, <2>1, <2>3 DEF RefuseMessage, CloserInv
<1> QED BY <1>1, <1>2, <1>3, <1>4, <1>5, <1>6 DEF Visitor

LEMMA StatementTypes == ASSUME CloserInv, Statement PROVE CloserInv'
<1>1. dialog' \in DialogRow
  BY RowKept, NoAttempt DEF Statement, ResetSchedule, PlanFollowUp, ArmFollowUp, WinDialog, CloserInv
<1>2. background' \in [Unawaited -> Nat]
  <2>1. CASE PlanFollowUp
    <3>1. PICK u \in {"win", "arm"} :
             background' = [background EXCEPT !["plan"] = @ - 1, ![u] = @ + 1]
      BY <2>1 DEF PlanFollowUp
    <3>2. background["plan"] - 1 \in Nat /\ background[u] + 1 \in Nat
      BY <2>1 DEF PlanFollowUp, CloserInv, Unawaited
    <3> QED BY <3>1, <3>2 DEF CloserInv, Unawaited
  <2>2. CASE Run("reset") \/ Run("arm") \/ Run("win")
    BY <2>2, Ran DEF Unawaited
  <2> QED BY <2>1, <2>2 DEF Statement, ResetSchedule, ArmFollowUp, WinDialog
<1>3. UNCHANGED <<last, complete, sent, inbound, cron, job, spent>>
  BY DEF Statement, ResetSchedule, PlanFollowUp, ArmFollowUp, WinDialog
<1> QED BY <1>1, <1>2, <1>3 DEF CloserInv, InboundOK

LEMMA ScanTypes == ASSUME CloserInv, Scan \/ ScanFails PROVE CloserInv'
<1>1. dialog' \in DialogRow
  BY RowKept DEF Scan, ScanFinds, ScanChecks, Enqueue, Postpone, ScanFails, CloserInv
<1>2. cron' \in CronSteps
  BY DEF Scan, ScanFinds, ScanChecks, Enqueue, Postpone, ScanFails, CronSteps
<1>3. spent' \in [Counters -> Nat]
  BY Spent DEF Scan, ScanFinds, ScanChecks, Enqueue, Postpone, ScanFails, Fault, CloserInv, Counters
<1>4. job' \in [Jobs -> {Free} \cup Job] /\ \A j \in Jobs : JobOK(job'[j])
  <2>1. Queued \in Job /\ JobOK(Queued)
    BY CloserAssumption DEF Queued, Job, JobSteps, JobOK, MaxStalled
  <2>2. CASE Enqueue
    BY <2>1, <2>2 DEF Enqueue, CloserInv
  <2>3. CASE UNCHANGED job
    BY <2>3 DEF CloserInv
  <2> QED BY <2>2, <2>3 DEF Scan, ScanFinds, ScanChecks, Postpone, ScanFails
<1>5. UNCHANGED <<last, complete, sent, inbound, background>>
  BY DEF Scan, ScanFinds, ScanChecks, Enqueue, Postpone, ScanFails
<1> QED BY <1>1, <1>2, <1>3, <1>4, <1>5 DEF CloserInv, InboundOK

-----------------------------------------------------------------------------
(* The worker *)

LEMMA JobSet ==
    ASSUME CloserInv, NEW j \in Jobs, NEW r, JobOK(r), job' = [job EXCEPT ![j] = r]
    PROVE  job' \in [Jobs -> {Free} \cup Job] /\ \A k \in Jobs : JobOK(job'[k])
<1>1. r \in {Free} \cup Job
  BY DEF JobOK
<1> QED BY <1>1 DEF CloserInv

\* A job of the queue, and the changes a step may make to it.
LEMMA JobChanges ==
    ASSUME CloserInv, NEW j \in Jobs, job[j] # Free
    PROVE  /\ job[j] \in Job /\ job[j].read < MaxAttempts
           /\ \A pc \in JobSteps : JobOK([job[j] EXCEPT !.pc = pc])
           /\ \A n \in Nat : n < MaxAttempts => JobOK([job[j] EXCEPT !.pc = "row", !.read = n])
           /\ JobOK([job[j] EXCEPT !.slow = TRUE])
           /\ job[j].tries + 1 < JobAttempts =>
                JobOK([job[j] EXCEPT !.pc = "waiting", !.tries = @ + 1, !.read = 0])
           /\ job[j].stalls < MaxStalled =>
                JobOK([job[j] EXCEPT !.pc = "waiting", !.stalls = @ + 1, !.read = 0])
<1>1. PICK r : r = job[j]
  OBVIOUS
<1>2. r \in Job /\ r.read < MaxAttempts
  BY <1>1 DEF CloserInv, JobOK
<1>3. /\ \A pc \in JobSteps : JobOK([r EXCEPT !.pc = pc])
      /\ \A n \in Nat : n < MaxAttempts => JobOK([r EXCEPT !.pc = "row", !.read = n])
      /\ JobOK([r EXCEPT !.slow = TRUE])
  BY <1>2 DEF JobOK, Job, JobSteps
<1>4. ASSUME r.tries + 1 < JobAttempts
      PROVE  JobOK([r EXCEPT !.pc = "waiting", !.tries = @ + 1, !.read = 0])
  <2>1. r.tries + 1 \in 0..JobAttempts
    BY <1>2, <1>4, CloserAssumption DEF Job
  <2> QED BY <1>2, <2>1, NoAttempt DEF JobOK, Job, JobSteps
<1>5. ASSUME r.stalls < MaxStalled
      PROVE  JobOK([r EXCEPT !.pc = "waiting", !.stalls = @ + 1, !.read = 0])
  <2>1. r.stalls + 1 \in 0..MaxStalled
    BY <1>2, <1>5 DEF Job, MaxStalled
  <2> QED BY <1>2, <2>1, NoAttempt DEF JobOK, Job, JobSteps
<1> QED BY <1>1, <1>2, <1>3, <1>4, <1>5

LEMMA FreeOK == JobOK(Free)
BY DEF JobOK

LEMMA WorkTypes == ASSUME CloserInv, NEW j \in Jobs, Work(j) PROVE CloserInv'
<1>1. job[j] # Free
  BY DEF Work, StartJob, CheckJob, Generate, DropSchedule, StoreFollowUp, CountFollowUp,
         ScheduleNext, At, Free
<1>2. dialog' \in DialogRow
  <2>1. job[j].read + 1 \in 0..MaxAttempts
    <3>1. PICK r \in Job : r = job[j] /\ r.read < MaxAttempts
      BY <1>1, JobChanges
    <3>2. r.read \in Nat
      BY DEF Job
    <3> QED BY <3>1, <3>2, CloserAssumption
  <2>2. dialog \in DialogRow
    BY DEF CloserInv
  <2>3. CASE CountFollowUp(j)
    BY <2>1, <2>2, <2>3, RowKept DEF CountFollowUp
  <2>4. CASE ScheduleNext(j)
    BY <2>1, <2>2, <2>4, RowKept DEF ScheduleNext
  <2>5. CASE CheckJob(j) \/ DropSchedule(j)
    BY <2>2, <2>5, RowKept DEF CheckJob, DropSchedule
  <2>6. CASE StartJob(j) \/ Generate(j) \/ StoreFollowUp(j)
    BY <2>2, <2>6 DEF StartJob, Generate, StoreFollowUp
  <2> QED BY <2>3, <2>4, <2>5, <2>6 DEF Work
<1>3. job' \in [Jobs -> {Free} \cup Job] /\ \A k \in Jobs : JobOK(job'[k])
  <2>1. CASE Finish(j)
    BY <2>1, JobSet, FreeOK DEF Finish
  <2>2. CASE \E pc \in JobSteps : Goto(j, pc)
    <3>1. PICK pc \in JobSteps : job' = [job EXCEPT ![j] = [job[j] EXCEPT !.pc = pc]]
      BY <2>2 DEF Goto
    <3>2. PICK r : r = [job[j] EXCEPT !.pc = pc]
      OBVIOUS
    <3> QED BY <1>1, <3>1, <3>2, JobChanges, JobSet
  <2>3. CASE RowEligible /\ job' = [job EXCEPT ![j].pc = "row", ![j].read = dialog.count]
    <3>1. PICK r : r = [job[j] EXCEPT !.pc = "row", !.read = dialog.count]
      OBVIOUS
    <3>2. dialog.count \in Nat /\ dialog.count < MaxAttempts
      BY <2>3 DEF RowEligible, CloserInv, DialogRow
    <3>3. JobOK(r)
      BY <1>1, <3>1, <3>2, JobChanges
    <3> QED BY <2>3, <3>1, <3>3, JobSet
  <2> QED BY <2>1, <2>2, <2>3 DEF Work, StartJob, CheckJob, Generate, DropSchedule, StoreFollowUp,
                                  CountFollowUp, ScheduleNext, JobSteps
<1>4. last' \in {"user", "assistant"} /\ sent' \in Nat
  BY DEF Work, StartJob, CheckJob, Generate, DropSchedule, StoreFollowUp, CountFollowUp, ScheduleNext,
         CloserInv
<1>5. UNCHANGED <<complete, inbound, background, cron, spent>>
  BY DEF Work, StartJob, CheckJob, Generate, DropSchedule, StoreFollowUp, CountFollowUp, ScheduleNext
<1> QED BY <1>2, <1>3, <1>4, <1>5 DEF CloserInv, InboundOK

LEMMA JobFaultTypes ==
    ASSUME CloserInv, NEW j \in Jobs, JobFails(j) \/ Slow(j) PROVE CloserInv'
<1>1. job[j] # Free
  BY DEF JobFails, Slow, Busy
<1>2. spent' \in [Counters -> Nat]
  BY Spent DEF JobFails, Slow, Fault, Counters
<1>3. PICK r : /\ job' = [job EXCEPT ![j] = r]
               /\ \/ r = Free
                  \/ r = [job[j] EXCEPT !.slow = TRUE]
                  \/ /\ job[j].tries + 1 < JobAttempts
                     /\ r = [job[j] EXCEPT !.pc = "waiting", !.tries = @ + 1, !.read = 0]
  <2>1. CASE Slow(j)
    <3>1. PICK r : r = [job[j] EXCEPT !.slow = TRUE]
      OBVIOUS
    <3> QED BY <2>1, <3>1 DEF Slow
  <2>2. CASE JobFails(j) /\ job[j].tries + 1 < JobAttempts
    <3>1. PICK r : r = [job[j] EXCEPT !.pc = "waiting", !.tries = @ + 1, !.read = 0]
      OBVIOUS
    <3>2. job' = [job EXCEPT ![j] = r]
      BY <2>2, <3>1 DEF JobFails
    <3> QED BY <2>2, <3>1, <3>2
  <2>3. CASE JobFails(j) /\ ~(job[j].tries + 1 < JobAttempts)
    <3>1. job' = [job EXCEPT ![j] = Free]
      BY <2>3 DEF JobFails, Finish
    <3> QED BY <3>1
  <2> QED BY <2>1, <2>2, <2>3
<1>4. JobOK(r)
  BY <1>1, <1>3, JobChanges, FreeOK
<1>5. job' \in [Jobs -> {Free} \cup Job] /\ \A k \in Jobs : JobOK(job'[k])
  BY <1>3, <1>4, JobSet
<1>6. UNCHANGED <<dialog, last, complete, sent, inbound, background, cron>>
  BY DEF JobFails, Slow
<1> QED BY <1>2, <1>5, <1>6 DEF CloserInv, InboundOK

LEMMA RestartTypes == ASSUME CloserInv, Restart PROVE CloserInv'
<1>1. spent' \in [Counters -> Nat]
  BY Spent DEF Restart, Fault, Counters
<1>2. InboundOK'
  <2>1. DOMAIN inbound = {"received", "stored"}
    BY DEF CloserInv, InboundOK
  <2>2. inbound' = [s \in {"received", "stored"} |-> 0]
    BY <2>1 DEF Restart
  <2>3. inbound'["received"] = 0 /\ inbound'["stored"] = 0
    BY <2>2
  <2> QED BY <2>2, <2>3, FollowUpBounds DEF InboundOK
<1>3. \A j \in Jobs : JobOK(job'[j])
  <2> SUFFICES ASSUME NEW j \in Jobs PROVE JobOK(job'[j])
    OBVIOUS
  <2>1. JobOK(job[j])
    BY DEF CloserInv
  <2>2. CASE job[j] = Free \/ At(j, "waiting")
    BY <2>1, <2>2 DEF Restart, Busy
  <2>3. CASE job[j] # Free /\ ~At(j, "waiting")
    <3>1. \/ job'[j] = Free
          \/ /\ job[j].stalls < MaxStalled
             /\ job'[j] = [job[j] EXCEPT !.pc = "waiting", !.stalls = @ + 1, !.read = 0]
      BY <2>3 DEF Restart, Busy
    <3> QED BY <2>3, <3>1, JobChanges, FreeOK
  <2> QED BY <2>2, <2>3
<1>4. job' \in [Jobs -> {Free} \cup Job]
  <2>1. \A j \in Jobs : job'[j] \in {Free} \cup Job
    BY <1>3 DEF JobOK
  <2> QED BY <2>1 DEF Restart
<1>5. background' \in [Unawaited -> Nat] /\ cron' \in CronSteps
  BY DEF Restart, CronSteps
<1>6. UNCHANGED <<dialog, last, complete, sent>>
  BY DEF Restart
<1> QED BY <1>1, <1>2, <1>3, <1>4, <1>5, <1>6 DEF CloserInv

LEMMA CloserStep == CloserInv /\ [Next]_vars => CloserInv'
<1> SUFFICES ASSUME CloserInv, [Next]_vars PROVE CloserInv'
  OBVIOUS
<1>1. ASSUME Tick PROVE CloserInv'
  <2>1. dialog' \in DialogRow
    BY <1>1, RowKept DEF Tick, CloserInv
  <2> QED BY <1>1, <2>1 DEF Tick, CloserInv, InboundOK
<1>2. CASE UNCHANGED vars
  BY <1>2 DEF vars, CloserInv, InboundOK
<1> QED BY <1>1, <1>2, VisitorTypes, StatementTypes, ScanTypes, WorkTypes, JobFaultTypes, RestartTypes
        DEF Next

LEMMA InitCloser == Init => CloserInv
<1> SUFFICES ASSUME Init PROVE CloserInv
  OBVIOUS
<1>1. dialog \in DialogRow
  BY NoAttempt DEF Init, DialogRow
<1>2. InboundOK
  BY FollowUpBounds DEF Init, InboundOK
<1> QED BY <1>1, <1>2 DEF Init, CloserInv, CronSteps, JobOK, Counters

LEMMA CloserSafe == Spec => []CloserInv
BY InitCloser, CloserStep, PTL DEF Spec

\* Type correctness: counts stay within maxAttempts, and a job that goes on has
\* read a count that leaves room for it.
THEOREM TypeCorrect == Spec => []TypeOK
<1>1. CloserInv => TypeOK
  <2> SUFFICES ASSUME CloserInv PROVE TypeOK
    OBVIOUS
  <2>1. inbound \in [{"received", "stored"} -> 0..MaxParallel]
    BY FollowUpBounds DEF CloserInv, InboundOK
  <2>2. \A j \in Jobs : Busy(j) => job[j].read < MaxAttempts
    BY DEF CloserInv, JobOK, Busy
  <2> QED BY <2>1, <2>2 DEF CloserInv, TypeOK, DialogRow, Counters
<1> QED BY <1>1, CloserSafe, PTL

-----------------------------------------------------------------------------
(* What a complete lead still gets *)

LEMMA OnTheWayFinite ==
    /\ IsFiniteSet(OnTheWay) /\ Cardinality(OnTheWay) \in Nat
    /\ Cardinality(OnTheWay) <= Cardinality(Jobs) /\ Cardinality(Jobs) \in Nat
BY FollowUpBounds, FS_Subset, FS_CardinalityType DEF OnTheWay

\* A step that stores nothing and lets no job pass its check.
LEMMA NoNewOnTheWay ==
    ASSUME CompleteLeadIsLeftAlone, sent \in Nat, sent' = sent, complete' = complete,
           OnTheWay' \subseteq OnTheWay
    PROVE  CompleteLeadIsLeftAlone'
<1>1. Cardinality(OnTheWay') <= Cardinality(OnTheWay) /\ Cardinality(OnTheWay') \in Nat
  BY OnTheWayFinite, FS_Subset, FS_CardinalityType
<1> QED BY <1>1, OnTheWayFinite DEF CompleteLeadIsLeftAlone

\* A job's own step: only a check that finds the lead incomplete adds it, and
\* the message it stores takes it out.
LEMMA WorkLeftAlone ==
    ASSUME CloserInv, CompleteLeadIsLeftAlone, NEW j \in Jobs, Work(j)
    PROVE  CompleteLeadIsLeftAlone'
<1>0. /\ sent \in Nat /\ complete' = complete
      /\ \A k \in Jobs \ {j} : job'[k] = job[k]
      /\ DOMAIN job = Jobs
  BY DEF Work, StartJob, CheckJob, Generate, DropSchedule, StoreFollowUp, CountFollowUp,
         ScheduleNext, Goto, Finish, CloserInv
<1>1. CASE ~complete
  BY <1>0, <1>1 DEF CompleteLeadIsLeftAlone
<1>2. CASE complete /\ StoreFollowUp(j)
  <2>1. job[j].pc = "generated" /\ job'[j].pc = "stored" /\ sent' = sent + 1
    <3>1. PICK r \in Job : r = job[j] /\ r.pc = "generated"
      BY <1>2 DEF StoreFollowUp, At, CloserInv, Free
    <3>2. [r EXCEPT !.pc = "stored"].pc = "stored"
      BY DEF Job
    <3> QED BY <1>0, <1>2, <3>1, <3>2 DEF StoreFollowUp, Goto
  <2>2. j \in OnTheWay /\ OnTheWay' = OnTheWay \ {j}
    BY <1>0, <2>1 DEF OnTheWay
  <2>3. Cardinality(OnTheWay') = Cardinality(OnTheWay) - 1
    BY <2>2, OnTheWayFinite, FS_RemoveElement
  <2> QED BY <1>0, <1>2, <2>1, <2>3, OnTheWayFinite DEF CompleteLeadIsLeftAlone
<1>3. CASE complete /\ ~StoreFollowUp(j)
  <2>1. sent' = sent
    BY <1>3 DEF Work, StartJob, CheckJob, Generate, DropSchedule, CountFollowUp, ScheduleNext
  <2>2. \/ job'[j] = Free
        \/ \E pc \in {"row", "stored", "counted", "refused"} : job'[j].pc = pc
        \/ j \in OnTheWay
    <3>1. CASE Generate(j)
      BY <3>1 DEF Generate, At, OnTheWay
    <3>2. CASE Finish(j)
      BY <1>0, <3>2 DEF Finish
    <3>3. CASE CountFollowUp(j)
      <4>1. PICK r \in Job : r = job[j]
        BY <3>3 DEF CountFollowUp, At, CloserInv, Free
      <4>2. [r EXCEPT !.pc = "counted"].pc = "counted"
        BY DEF Job
      <4> QED BY <1>0, <3>3, <4>1, <4>2 DEF CountFollowUp, Goto
    <3>4. CASE At(j, "waiting") /\ job' = [job EXCEPT ![j].pc = "row", ![j].read = dialog.count]
      <4>1. PICK r \in Job : r = job[j]
        BY <3>4 DEF At, CloserInv, Free
      <4>2. [r EXCEPT !.pc = "row", !.read = dialog.count].pc = "row"
        BY DEF Job
      <4> QED BY <1>0, <3>4, <4>1, <4>2
    <3>5. Verdict # "eligible"
      BY <1>3 DEF Verdict
    <3> QED BY <1>3, <3>1, <3>2, <3>3, <3>4, <3>5
            DEF Work, StartJob, CheckJob, DropSchedule, ScheduleNext
  <2>3. OnTheWay' \subseteq OnTheWay
    BY <1>0, <2>2 DEF OnTheWay, Free
  <2> QED BY <1>0, <2>1, <2>3, NoNewOnTheWay
<1> QED BY <1>1, <1>2, <1>3 DEF CloserInv

LEMMA LeftAloneStep ==
    CloserInv /\ CompleteLeadIsLeftAlone /\ [Next]_vars => CompleteLeadIsLeftAlone'
<1> SUFFICES ASSUME CloserInv, CompleteLeadIsLeftAlone, [Next]_vars
             PROVE  CompleteLeadIsLeftAlone'
  OBVIOUS
<1>0. sent \in Nat
  BY DEF CloserInv
<1>1. CASE StoreMessage
  <2>1. sent' = 0 /\ OnTheWay' = OnTheWay
    BY <1>1 DEF StoreMessage, OnTheWay
  <2> QED BY <2>1, OnTheWayFinite DEF CompleteLeadIsLeftAlone
<1>2. CASE UNCHANGED <<sent, complete, job>>
  BY <1>0, <1>2, NoNewOnTheWay DEF OnTheWay
<1>3. CASE Enqueue
  <2>1. PICK j \in Jobs : job' = [job EXCEPT ![j] = Queued]
    BY <1>3 DEF Enqueue
  <2>2. OnTheWay' \subseteq OnTheWay
    BY <2>1 DEF OnTheWay, Queued, CloserInv
  <2> QED BY <1>0, <1>3, <2>2, NoNewOnTheWay DEF Enqueue
<1>4. ASSUME NEW j \in Jobs, JobFails(j) PROVE CompleteLeadIsLeftAlone'
  <2>1. job'[j] = Free \/ job'[j].pc = "waiting"
    <3>1. PICK r \in Job : r = job[j]
      BY <1>4 DEF JobFails, Busy, CloserInv
    <3>2. [r EXCEPT !.pc = "waiting", !.tries = @ + 1, !.read = 0].pc = "waiting"
      BY DEF Job
    <3> QED BY <1>4, <3>1, <3>2 DEF JobFails, Finish, CloserInv
  <2>2. \A k \in Jobs \ {j} : job'[k] = job[k]
    BY <1>4 DEF JobFails, Finish, CloserInv
  <2>3. OnTheWay' \subseteq OnTheWay
    BY <2>1, <2>2 DEF OnTheWay, Free
  <2> QED BY <1>0, <1>4, <2>3, NoNewOnTheWay DEF JobFails
<1>5. ASSUME NEW j \in Jobs, Slow(j) PROVE CompleteLeadIsLeftAlone'
  <2>1. job'[j].pc = job[j].pc
    <3>1. PICK r \in Job : r = job[j]
      BY <1>5 DEF Slow, Busy, CloserInv
    <3>2. [r EXCEPT !.slow = TRUE].pc = r.pc
      BY DEF Job
    <3> QED BY <1>5, <3>1, <3>2 DEF Slow, CloserInv
  <2>2. \A k \in Jobs \ {j} : job'[k] = job[k]
    BY <1>5 DEF Slow, CloserInv
  <2>3. OnTheWay' \subseteq OnTheWay
    BY <2>1, <2>2 DEF OnTheWay
  <2> QED BY <1>0, <1>5, <2>3, NoNewOnTheWay DEF Slow
<1>6. CASE Restart
  <2>1. \A k \in Jobs : \/ job'[k] = Free \/ job'[k].pc = "waiting" \/ job'[k] = job[k]
    <3> SUFFICES ASSUME NEW k \in Jobs, job'[k] # Free, job'[k] # job[k]
                 PROVE  job'[k].pc = "waiting"
      OBVIOUS
    <3>1. PICK r \in Job : r = job[k]
      BY <1>6 DEF Restart, Busy, CloserInv
    <3>2. [r EXCEPT !.pc = "waiting", !.stalls = @ + 1, !.read = 0].pc = "waiting"
      BY DEF Job
    <3> QED BY <1>6, <3>1, <3>2 DEF Restart
  <2>2. OnTheWay' \subseteq OnTheWay
    BY <2>1 DEF OnTheWay, Free
  <2> QED BY <1>0, <1>6, <2>2, NoNewOnTheWay DEF Restart
<1> QED BY <1>1, <1>2, <1>3, <1>4, <1>5, <1>6, WorkLeftAlone
        DEF Next, vars, Visitor, ReceiveMessage, RefuseMessage, Answer, MessageFails,
            CloseDialog, Statement, ResetSchedule, PlanFollowUp, ArmFollowUp, WinDialog,
            Scan, ScanFinds, ScanChecks, Postpone, ScanFails, Tick

\* The visitor of a complete lead gets at most one more follow-up for each job
\* that was past its check when the completing message was stored.
THEOREM LeftAloneTheorem == Spec => []CompleteLeadIsLeftAlone
<1>1. Init => CompleteLeadIsLeftAlone
  BY DEF Init, CompleteLeadIsLeftAlone
<1> QED BY <1>1, CloserSafe, LeftAloneStep, PTL DEF Spec

-----------------------------------------------------------------------------
(* How many follow-ups a silent visitor gets *)

\* Steps of a job: it may still send, it will without another look at the row,
\* it has sent or dropped the schedule and will write the row.
Ahead  == {"waiting", "row", "eligible", "generated"}
InHand == {"row", "eligible", "generated"}
After  == {"stored", "counted", "refused"}

JobsAt(steps) == {j \in Jobs : job[j].pc \in steps}

\* What refused messages and faults have added.
Added == spent["refused"] * MaxAttempts + spent["faults"] * PerFault
Base  == 1 + Added

\* Before the next minute no more than n follow-ups are sent.  While the dialog
\* is due these are what the queue holds and one job of the scan, and never more
\* than there are jobs that have not yet been at the row: the first that has
\* sets another date.  When it is not due only those that have checked it send.
Coming  == IF dialog.next = 0 THEN JobsAt(Ahead) ELSE JobsAt(InHand)
MayScan == IF dialog.next = 0 /\ cron # "queued" THEN 1 ELSE 0

Within(n) ==
    \/ sent + Cardinality(Coming) + MayScan <= n
    \/ dialog.next = 0 /\ sent + Cardinality(Jobs \ JobsAt(After)) <= n

\* Nothing but a new series is to come.
Low == Within(Base)

\* A series stands at c or more: whoever sends has read at least c, and one more
\* than c was sent only if the count says so or will do so.
Reads(j) == job[j].pc \in InHand \cup {"stored"}

Counted(b, c) ==
    \/ dialog.count > c \/ sent <= b + c
    \/ \E j \in Jobs : job[j].pc = "stored"

LevelAt(b, c) ==
    /\ c <= dialog.count /\ \A j \in Jobs : Reads(j) => job[j].read >= c
    /\ Within(b + c + 1) /\ Counted(b, c)

\* What a message that is not stored has added is still to come while the reset
\* it began has not run.
NoLateReset == inbound["received"] > 0 \/ background["reset"] = 0

Floor == IF NoLateReset THEN Base ELSE Base - MaxAttempts

Level(c) == LevelAt(Floor, c)

\* The count was reset for a message that is not yet stored.
Ended == inbound["received"] > 0 /\ dialog.next # 0 /\ Within(Base + MaxAttempts)

Series == Low \/ Ended \/ \E c \in 0..MaxAttempts : Level(c)

\* Without faults a minute has one job.
ScanTurn == cron \in {"row", "eligible"} \/ (cron = "idle" /\ dialog.next = 0)

OneJob ==
    /\ \A j, k \in Jobs : Busy(j) /\ Busy(k) => j = k
    /\ \A j \in Jobs : Busy(j) => ~ScanTurn

NoneSlow == \A j \in Jobs : Busy(j) => ~job[j].slow

SeriesInv == spent["slow"] = 0 => Series /\ NoneSlow /\ (spent["faults"] = 0 => OneJob)

-----------------------------------------------------------------------------

LEMMA Sizes ==
    /\ Cardinality(Jobs) \in Nat
    /\ \A S \in SUBSET Jobs : Cardinality(S) \in Nat /\ Cardinality(S) <= Cardinality(Jobs)
    /\ \A S, T \in SUBSET Jobs : S \subseteq T => Cardinality(S) <= Cardinality(T)
BY FollowUpBounds, FS_Subset, FS_CardinalityType

LEMMA PerFaultSize ==
    /\ PerFault \in Nat /\ PerFault >= MaxAttempts /\ PerFault >= Cardinality(Jobs)
    /\ MaxAttempts \in Nat /\ MaxAttempts >= 1
BY Sizes, CloserAssumption DEF PerFault

LEMMA Products ==
    ASSUME NEW f \in Nat, NEW p \in Nat
    PROVE  f * p \in Nat /\ (f + 1) * p = f * p + p /\ (f = 0 => f * p = 0) /\ (f # 0 => f * p >= p)
<1>1. f * p \in Nat /\ (f = 0 => f * p = 0) /\ (f + 1) * p = f * p + p
  OBVIOUS
<1>2. ASSUME f # 0 PROVE f * p >= p
  <2>1. PICK g \in Nat : f = g + 1
    <3>1. f - 1 \in Nat /\ f = (f - 1) + 1
      BY <1>2
    <3> QED BY <3>1
  <2>2. f * p = g * p + p /\ g * p \in Nat
    BY <2>1
  <2> QED BY <2>2
<1> QED BY <1>1, <1>2

LEMMA BaseSize ==
    ASSUME CloserInv
    PROVE  /\ Base \in Nat /\ Base >= 1 /\ Base = 1 + Added
           /\ spent["faults"] # 0 => Base >= 1 + PerFault
<1>1. PICK f \in Nat, m \in Nat : f = spent["faults"] /\ m = spent["refused"]
  BY DEF CloserInv, Counters
<1>2. PICK p \in Nat, q \in Nat : p = PerFault /\ q = MaxAttempts
  BY PerFaultSize
<1>3. f * p \in Nat /\ m * q \in Nat /\ (f # 0 => f * p >= p)
  BY Products
<1>4. Base = 1 + (m * q + f * p)
  BY <1>1, <1>2 DEF Base, Added
<1>5. spent["faults"] # 0 => Base >= 1 + PerFault
  BY <1>1, <1>2, <1>3, <1>4
<1>6. Base \in Nat /\ Base >= 1
  BY <1>3, <1>4
<1> QED BY <1>5, <1>6 DEF Base

\* Another fault.
LEMMA BaseGrows ==
    ASSUME CloserInv, CloserInv', Spend("faults", MaxFaults)
    PROVE  Base' = Base + PerFault /\ spent'["faults"] # 0 /\ spent'["slow"] = spent["slow"]
<1>1. PICK f \in Nat, a \in Nat : f = spent["faults"] /\ a = spent["refused"] * MaxAttempts
  BY Products, PerFaultSize DEF CloserInv, Counters
<1>2. PICK p \in Nat : p = PerFault
  BY PerFaultSize
<1>3. spent'["faults"] = f + 1 /\ spent'["slow"] = spent["slow"] /\ spent'["refused"] = spent["refused"]
  BY <1>1 DEF Spend, CloserInv, Counters
<1>4. (f + 1) * p = f * p + p /\ f * p \in Nat
  BY Products
<1>5. PerFault' = PerFault
  BY DEF PerFault
<1>6. Base = 1 + (a + f * p) /\ Base' = 1 + (a + (f + 1) * p)
  BY <1>1, <1>2, <1>3, <1>5 DEF Base, Added
<1>7. Base' = Base + p
  BY <1>4, <1>6
<1> QED BY <1>1, <1>2, <1>3, <1>7

\* Another message refused.
LEMMA BaseRefused ==
    ASSUME CloserInv, RefuseMessage
    PROVE  Base' = Base + MaxAttempts
<1>1. PICK m \in Nat, a \in Nat : m = spent["refused"] /\ a = spent["faults"] * PerFault
  BY Products, PerFaultSize DEF CloserInv, Counters
<1>2. PICK q \in Nat : q = MaxAttempts
  BY PerFaultSize
<1>3. spent'["refused"] = m + 1 /\ spent'["faults"] = spent["faults"]
  BY <1>1 DEF RefuseMessage, CloserInv, Counters
<1>4. (m + 1) * q = m * q + q /\ m * q \in Nat
  BY Products
<1>5. PerFault' = PerFault
  BY DEF PerFault
<1>6. Base = 1 + (m * q + a) /\ Base' = 1 + ((m + 1) * q + a)
  BY <1>1, <1>2, <1>3, <1>5 DEF Base, Added
<1> QED BY <1>2, <1>4, <1>6

\* The types a proof about the series needs.
LEMMA SeriesTypes ==
    ASSUME CloserInv
    PROVE  /\ sent \in Nat /\ dialog.count \in 0..MaxAttempts
           /\ dialog.next \in Nat \cup {Null}
           /\ inbound["received"] \in Nat /\ background["reset"] \in Nat
           /\ \A j \in Jobs : /\ Busy(j) <=> job[j].pc # "free"
                              /\ Busy(j) <=> job[j].pc \in Ahead \cup After
                              /\ Reads(j) => job[j].read \in Nat /\ job[j].read < MaxAttempts
<1>1. ASSUME NEW j \in Jobs, Busy(j)
      PROVE  /\ job[j].pc \in Ahead \cup After /\ job[j].pc # "free"
             /\ job[j].read \in Nat /\ job[j].read < MaxAttempts
  <2>1. job[j] \in Job /\ job[j].read < MaxAttempts
    BY <1>1, JobChanges DEF Busy
  <2> QED BY <2>1 DEF Job, JobSteps, Ahead, After
<1>2. ASSUME NEW j \in Jobs, ~Busy(j) PROVE job[j].pc = "free"
  BY <1>2 DEF Busy, Free
<1>3. ASSUME NEW j \in Jobs, Reads(j) PROVE Busy(j)
  BY <1>2, <1>3 DEF Reads, InHand
<1>4. "free" \notin Ahead \cup After
  BY DEF Ahead, After
<1> QED BY <1>1, <1>2, <1>3, <1>4 DEF CloserInv, DialogRow, InboundOK, Unawaited

\* Whichever way it is known, no more are sent than n with those in hand.
LEMMA WithinHand ==
    ASSUME CloserInv, NEW n \in Int, Within(n)
    PROVE  sent + Cardinality(JobsAt(InHand)) <= n
<1>1. JobsAt(InHand) \subseteq Jobs \ JobsAt(After) /\ JobsAt(InHand) \subseteq Coming
  BY DEF JobsAt, InHand, After, Ahead, Coming
<1>2. Coming \in SUBSET Jobs /\ Jobs \ JobsAt(After) \in SUBSET Jobs /\ MayScan \in {0, 1}
  BY DEF Coming, JobsAt, MayScan
<1>3. sent \in Nat
  BY DEF CloserInv
<1>4. /\ Cardinality(JobsAt(InHand)) <= Cardinality(Coming)
      /\ Cardinality(JobsAt(InHand)) <= Cardinality(Jobs \ JobsAt(After))
      /\ Cardinality(JobsAt(InHand)) \in Nat /\ Cardinality(Coming) \in Nat
      /\ Cardinality(Jobs \ JobsAt(After)) \in Nat
  BY <1>1, <1>2, Sizes
<1> QED BY <1>2, <1>3, <1>4 DEF Within

\* A larger bound.
LEMMA WithinMore ==
    ASSUME CloserInv, NEW n \in Int, NEW m \in Int, n <= m, Within(n)
    PROVE  Within(m)
<1>1. Coming \in SUBSET Jobs /\ Jobs \ JobsAt(After) \in SUBSET Jobs /\ MayScan \in {0, 1}
  BY DEF Coming, JobsAt, MayScan
<1>2. sent \in Nat /\ Cardinality(Coming) \in Nat /\ Cardinality(Jobs \ JobsAt(After)) \in Nat
  BY <1>1, Sizes DEF CloserInv
<1> QED BY <1>1, <1>2 DEF Within

\* A level holds for a larger base.
LEMMA LevelMore ==
    ASSUME CloserInv, NEW b \in Int, NEW d \in Int, b <= d, NEW c \in 0..MaxAttempts, LevelAt(b, c)
    PROVE  LevelAt(d, c)
<1>1. c \in Nat /\ sent \in Nat
  BY PerFaultSize DEF CloserInv
<1>2. PICK n \in Int, m \in Int : n = b + c + 1 /\ m = d + c + 1 /\ n <= m
  BY <1>1
<1>3. Within(d + c + 1)
  <2>1. Within(m)
    BY <1>2, WithinMore DEF LevelAt
  <2> QED BY <1>2, <2>1
<1>4. Counted(d, c)
  BY <1>1 DEF LevelAt, Counted
<1> QED BY <1>3, <1>4 DEF LevelAt

LEMMA FloorSize ==
    ASSUME CloserInv
    PROVE  Floor \in Int /\ Floor <= Base /\ Floor >= Base - MaxAttempts
           /\ (~NoLateReset => Floor + MaxAttempts = Base)
BY BaseSize, PerFaultSize DEF Floor

\* A series never gives more than the bound.
LEMMA LevelBounded ==
    ASSUME CloserInv, NEW b \in Int, NEW c \in 0..MaxAttempts, LevelAt(b, c)
    PROVE  sent + Cardinality(JobsAt(InHand)) <= b + MaxAttempts
<1>0. sent \in Nat /\ MaxAttempts \in Nat /\ Cardinality(JobsAt(InHand)) \in Nat
  BY PerFaultSize, Sizes DEF CloserInv, JobsAt
<1>1. sent + Cardinality(JobsAt(InHand)) <= b + c + 1
  <2>1. b + c + 1 \in Int
    BY <1>0
  <2> QED BY <2>1, WithinHand DEF LevelAt
<1>2. CASE c < MaxAttempts
  BY <1>0, <1>1, <1>2
<1>3. CASE c = MaxAttempts
  <2>1. \A j \in Jobs : ~Reads(j)
    BY <1>3, <1>0, SeriesTypes DEF LevelAt
  <2>2. JobsAt(InHand) = {} /\ ~\E j \in Jobs : job[j].pc = "stored"
    BY <2>1 DEF Reads, JobsAt
  <2>3. sent <= b + c
    BY <1>0, <1>3, <2>2, SeriesTypes DEF LevelAt, Counted
  <2> QED BY <1>0, <1>3, <2>2, <2>3, FS_EmptySet
<1> QED BY <1>0, <1>2, <1>3

LEMMA SeriesBounded ==
    ASSUME CloserInv, Series
    PROVE  sent + Cardinality(JobsAt(InHand)) <= Base + MaxAttempts
<1>0. /\ Base \in Nat /\ sent \in Nat /\ MaxAttempts \in Nat
      /\ Cardinality(JobsAt(InHand)) \in Nat
  BY BaseSize, PerFaultSize, Sizes DEF CloserInv, JobsAt
<1>1. CASE Low \/ Ended
  <2>1. sent + Cardinality(JobsAt(InHand)) <= Base
        \/ sent + Cardinality(JobsAt(InHand)) <= Base + MaxAttempts
    BY <1>0, <1>1, WithinHand DEF Low, Ended
  <2> QED BY <1>0, <2>1
<1>2. ASSUME NEW c \in 0..MaxAttempts, Level(c)
      PROVE  sent + Cardinality(JobsAt(InHand)) <= Base + MaxAttempts
  <2>1. PICK f \in Int : f = Floor /\ f <= Base
    BY FloorSize
  <2>2. sent + Cardinality(JobsAt(InHand)) <= f + MaxAttempts
    BY <1>2, <2>1, LevelBounded DEF Level
  <2> QED BY <1>0, <2>1, <2>2
<1> QED BY <1>1, <1>2 DEF Series

-----------------------------------------------------------------------------
(* Steps within a minute *)

\* Nothing is sent or queued, and the dialog does not become due.
Nearing ==
    /\ sent' = sent
    /\ dialog'.next = 0 => dialog.next = 0 /\ (cron = "queued" => cron' = "queued")
    /\ \A j \in Jobs :
          /\ job'[j].pc \in Ahead => job[j].pc \in Ahead
          /\ dialog'.next = 0 /\ job[j].pc \in After => job'[j].pc \in After
          /\ dialog'.next # 0 /\ job'[j].pc \in InHand => job[j].pc \in InHand

\* Besides, a count is written only by a job that has sent: most steps.
Onward ==
    /\ Nearing
    /\ spent'["faults"] = spent["faults"] /\ spent'["refused"] = spent["refused"]
    /\ inbound["received"] > 0 => inbound'["received"] > 0
    /\ background["reset"] = 0 => background'["reset"] = 0 \/ inbound'["received"] > 0
    /\ \A j \in Jobs :
          /\ Reads(j)' => \/ Reads(j) /\ job'[j].read = job[j].read
                          \/ job'[j].read = dialog.count
          /\ job[j].pc = "stored" => job'[j].pc = "stored" \/ dialog'.count = job[j].read + 1
    /\ \/ dialog'.count = dialog.count
       \/ \E j \in Jobs : job[j].pc = "stored" /\ dialog'.count = job[j].read + 1

LEMMA WithinKept ==
    ASSUME CloserInv, CloserInv', Nearing, NEW n \in Int, Within(n)
    PROVE  Within(n)'
<1>1. sent \in Nat /\ sent' = sent
  BY DEF CloserInv, Nearing
<1>2. CASE dialog'.next # 0
  <2>1. JobsAt(InHand)' \subseteq JobsAt(InHand)
    BY <1>2 DEF Nearing, JobsAt
  <2>2. JobsAt(InHand) \in SUBSET Jobs /\ JobsAt(InHand)' \in SUBSET Jobs
    BY DEF JobsAt
  <2>3. /\ Cardinality(JobsAt(InHand)') <= Cardinality(JobsAt(InHand))
        /\ Cardinality(JobsAt(InHand)') \in Nat /\ Cardinality(JobsAt(InHand)) \in Nat
    BY <2>1, <2>2, Sizes
  <2>4. sent + Cardinality(JobsAt(InHand)) <= n
    BY WithinHand
  <2>5. Coming' = JobsAt(InHand)' /\ MayScan' = 0
    BY <1>2 DEF Coming, MayScan
  <2>6. sent' + Cardinality(Coming') + MayScan' <= n
    BY <1>1, <2>3, <2>4, <2>5
  <2> QED BY <2>6 DEF Within
<1>3. CASE dialog'.next = 0
  <2>1. dialog.next = 0 /\ (cron = "queued" => cron' = "queued")
    BY <1>3 DEF Nearing
  <2>2. Coming' \subseteq Coming /\ Jobs \ JobsAt(After)' \subseteq Jobs \ JobsAt(After)
    BY <1>3, <2>1 DEF Nearing, JobsAt, Coming
  <2>3. Coming \in SUBSET Jobs /\ Coming' \in SUBSET Jobs
    BY DEF JobsAt, Coming
  <2>4. /\ Cardinality(Coming') <= Cardinality(Coming)
        /\ Cardinality(Jobs \ JobsAt(After)') <= Cardinality(Jobs \ JobsAt(After))
        /\ Cardinality(Coming') \in Nat /\ Cardinality(Coming) \in Nat
        /\ Cardinality(Jobs \ JobsAt(After)') \in Nat /\ Cardinality(Jobs \ JobsAt(After)) \in Nat
    <3>1. \A S, T \in SUBSET Jobs : S \subseteq T => /\ Cardinality(S) <= Cardinality(T)
                                                    /\ Cardinality(S) \in Nat
                                                    /\ Cardinality(T) \in Nat
      BY Sizes
    <3>2. Jobs \ JobsAt(After)' \in SUBSET Jobs /\ Jobs \ JobsAt(After) \in SUBSET Jobs
      OBVIOUS
    <3> QED BY <2>2, <2>3, <3>1, <3>2
  <2>5. MayScan \in {0, 1} /\ MayScan' \in {0, 1} /\ MayScan' <= MayScan
    BY <1>3, <2>1 DEF MayScan
  <2>6. CASE sent + Cardinality(Coming) + MayScan <= n
    <3>1. sent' + Cardinality(Coming') + MayScan' <= n
      BY <1>1, <2>4, <2>5, <2>6
    <3> QED BY <3>1 DEF Within
  <2>7. CASE sent + Cardinality(Jobs \ JobsAt(After)) <= n
    <3>1. sent' + Cardinality(Jobs \ JobsAt(After)') <= n
      BY <1>1, <2>4, <2>7
    <3> QED BY <1>3, <3>1 DEF Within
  <2> QED BY <2>6, <2>7 DEF Within
<1> QED BY <1>2, <1>3

LEMMA SameBase ==
    ASSUME spent'["faults"] = spent["faults"], spent'["refused"] = spent["refused"]
    PROVE  Base' = Base
BY DEF Base, Added, PerFault

\* A reset that was not late does not become late: the floor does not sink.
LEMMA FloorKept ==
    ASSUME CloserInv, CloserInv', Base' = Base, NoLateReset => NoLateReset'
    PROVE  Floor' \in Int /\ Floor <= Floor'
BY BaseSize, PerFaultSize DEF Floor

LEMMA OnwardLevel ==
    ASSUME CloserInv, CloserInv', Onward, NEW b \in Int, NEW c \in 0..MaxAttempts, LevelAt(b, c)
    PROVE  LevelAt(b, c)'
<1>1. MaxAttempts \in Nat /\ c \in Nat
  BY PerFaultSize
<1>2. PICK n \in Int : n = b + c + 1
  BY <1>1
<1>3. Within(b + c + 1)'
  <2>1. Within(n)'
    BY <1>2, WithinKept DEF LevelAt, Onward
  <2> QED BY <1>1, <1>2, <2>1
<1>4. c <= dialog.count /\ dialog.count \in Nat
  BY SeriesTypes DEF LevelAt
<1>5. \A j \in Jobs : job[j].pc = "stored" => job[j].read + 1 > c
  <2>1. \A j \in Jobs : job[j].pc = "stored" => job[j].read \in Nat /\ job[j].read >= c
    BY SeriesTypes DEF LevelAt, Reads
  <2> QED BY <1>1, <2>1
<1>6. c <= dialog'.count /\ (dialog.count > c => dialog'.count > c)
  <2>1. dialog'.count = dialog.count \/ dialog'.count > c
    BY <1>5 DEF Onward
  <2>2. dialog'.count \in Nat
    BY SeriesTypes DEF CloserInv, DialogRow
  <2> QED BY <1>1, <1>4, <2>1, <2>2
<1>7. \A j \in Jobs : Reads(j)' => job'[j].read >= c
  BY <1>4 DEF Onward, LevelAt
<1>8. Counted(b, c)'
  <2>1. CASE dialog.count > c
    BY <1>6, <2>1 DEF Counted
  <2>2. CASE sent <= b + c
    BY <1>1, <2>2 DEF Onward, Nearing, Counted
  <2>3. CASE \E j \in Jobs : job[j].pc = "stored"
    <3>1. PICK j \in Jobs : job[j].pc = "stored"
      BY <2>3
    <3>2. job'[j].pc = "stored" \/ dialog'.count > c
      BY <1>5, <3>1 DEF Onward
    <3> QED BY <3>2 DEF Counted
  <2> QED BY <2>1, <2>2, <2>3 DEF LevelAt, Counted
<1> QED BY <1>3, <1>6, <1>7, <1>8 DEF LevelAt

LEMMA OnwardSeries ==
    ASSUME CloserInv, CloserInv', Onward, Series
    PROVE  Series'
<1>1. Base' = Base /\ Base \in Nat /\ MaxAttempts \in Nat
  BY SameBase, BaseSize, PerFaultSize DEF Onward
<1>2. CASE Low
  <2>1. PICK n \in Nat : n = Base
    BY <1>1
  <2>2. Within(n)'
    BY <1>2, <2>1, WithinKept DEF Low, Onward
  <2> QED BY <1>1, <2>1, <2>2 DEF Low, Series
<1>3. CASE Ended
  <2>1. PICK n \in Nat : n = Base + MaxAttempts
    BY <1>1
  <2>2. Within(n)'
    BY <1>3, <2>1, WithinKept DEF Ended, Onward
  <2> QED BY <1>1, <1>3, <2>1, <2>2 DEF Ended, Series, Onward, Nearing
<1>4. ASSUME NEW c \in 0..MaxAttempts, Level(c) PROVE Level(c)'
  <2>1. NoLateReset => NoLateReset'
    BY DEF NoLateReset, Onward
  <2>2. PICK f \in Int, g \in Int : f = Floor /\ g = Floor' /\ f <= g
    BY <1>1, <2>1, FloorKept, FloorSize
  <2>3. LevelAt(g, c)
    BY <1>4, <2>2, LevelMore DEF Level
  <2>4. LevelAt(g, c)'
    BY <2>3, OnwardLevel
  <2> QED BY <2>2, <2>4 DEF Level
<1> QED BY <1>2, <1>3, <1>4 DEF Series

\* How a job moves.
LEMMA GotoEffect ==
    ASSUME CloserInv, NEW j \in Jobs, Busy(j), NEW pc \in JobSteps, Goto(j, pc)
    PROVE  /\ job'[j].pc = pc /\ job'[j].read = job[j].read /\ job'[j].slow = job[j].slow
           /\ \A k \in Jobs \ {j} : job'[k] = job[k]
<1>1. PICK r \in Job : r = job[j]
  BY JobChanges DEF Busy
<1>2. PICK q : q = [r EXCEPT !.pc = pc]
  OBVIOUS
<1>3. q.pc = pc /\ q.read = r.read /\ q.slow = r.slow
  BY <1>2 DEF Job
<1> QED BY <1>1, <1>2, <1>3 DEF Goto, CloserInv

LEMMA FinishEffect ==
    ASSUME CloserInv, NEW j \in Jobs, Finish(j)
    PROVE  job'[j].pc = "free" /\ job'[j] = Free /\ \A k \in Jobs \ {j} : job'[k] = job[k]
BY DEF Finish, CloserInv, Free

LEMMA WorkEffect ==
    ASSUME CloserInv, NEW j \in Jobs, Work(j)
    PROVE  /\ Busy(j) /\ \A k \in Jobs \ {j} : job'[k] = job[k]
           /\ job'[j] = Free \/ job'[j].slow = job[j].slow
           /\ UNCHANGED <<inbound, background, cron, spent>>
           /\ ~StoreFollowUp(j) => Onward
<1>1. Busy(j) /\ UNCHANGED <<inbound, background, cron, spent>>
  BY DEF Work, StartJob, CheckJob, Generate, DropSchedule, StoreFollowUp, CountFollowUp,
         ScheduleNext, At, Busy, Free
<1>2. job[j] \in Job
  BY <1>1, JobChanges DEF Busy
<1>3. CASE StartJob(j)
  <2>1. CASE RowEligible
    <3>1. PICK q : q = [job[j] EXCEPT !.pc = "row", !.read = dialog.count]
      OBVIOUS
    <3>2. q.pc = "row" /\ q.read = dialog.count /\ q.slow = job[j].slow
      BY <1>2, <3>1 DEF Job
    <3>3. job' = [job EXCEPT ![j] = q]
      BY <1>3, <2>1, <3>1 DEF StartJob
    <3>4. job'[j] = q /\ \A k \in Jobs \ {j} : job'[k] = job[k]
      BY <3>3 DEF CloserInv
    <3>5. dialog.next = 0 /\ dialog' = dialog /\ sent' = sent /\ job[j].pc = "waiting"
      BY <1>3, <2>1 DEF StartJob, RowEligible, At
    <3>6. Nearing
      BY <1>1, <3>2, <3>4, <3>5 DEF Nearing, Ahead, After, InHand
    <3>7. Onward
      BY <1>1, <3>2, <3>4, <3>5, <3>6 DEF Onward, Reads
    <3> QED BY <1>1, <3>2, <3>4, <3>7
  <2>2. CASE ~RowEligible
    <3>1. Finish(j) /\ dialog' = dialog /\ sent' = sent /\ job[j].pc = "waiting"
      BY <1>3, <2>2 DEF StartJob, At
    <3>2. job'[j].pc = "free" /\ job'[j] = Free /\ \A k \in Jobs \ {j} : job'[k] = job[k]
      BY <3>1, FinishEffect
    <3>3. Nearing
      BY <1>1, <3>1, <3>2 DEF Nearing, Ahead, After, InHand
    <3>4. Onward
      BY <1>1, <3>1, <3>2, <3>3 DEF Onward, Reads, InHand
    <3> QED BY <1>1, <3>2, <3>4
  <2> QED BY <2>1, <2>2
<1>4. CASE CheckJob(j)
  <2>1. sent' = sent /\ job[j].pc = "row"
    BY <1>4 DEF CheckJob, At
  <2>2. dialog'.count = dialog.count /\ (dialog'.next = 0 => dialog.next = 0)
    BY <1>4 DEF CheckJob, Won, Null, CloserInv, DialogRow
  <2>3. /\ \A k \in Jobs \ {j} : job'[k] = job[k]
        /\ \/ job'[j].pc = "eligible" /\ job'[j].read = job[j].read /\ job'[j].slow = job[j].slow
           \/ job'[j].pc = "free" /\ job'[j] = Free
    BY <1>1, <1>4, GotoEffect, FinishEffect DEF CheckJob, JobSteps
  <2>4. Nearing
    BY <1>1, <2>1, <2>2, <2>3 DEF Nearing, Ahead, After, InHand
  <2>5. Onward
    BY <1>1, <2>1, <2>2, <2>3, <2>4 DEF Onward, Reads, InHand
  <2> QED BY <1>1, <2>3, <2>5
<1>5. CASE Generate(j)
  <2>1. sent' = sent /\ job[j].pc = "eligible" /\ dialog' = dialog
    BY <1>5 DEF Generate, At
  <2>2. /\ \A k \in Jobs \ {j} : job'[k] = job[k]
        /\ job'[j].pc \in {"generated", "refused"}
        /\ job'[j].read = job[j].read /\ job'[j].slow = job[j].slow
    <3>1. PICK pc \in {"generated", "refused"} : Goto(j, pc)
      BY <1>5 DEF Generate
    <3> QED BY <1>1, <3>1, GotoEffect DEF JobSteps
  <2>3. Nearing
    BY <1>1, <2>1, <2>2 DEF Nearing, Ahead, After, InHand
  <2>4. Onward
    BY <1>1, <2>1, <2>2, <2>3 DEF Onward, Reads, InHand
  <2> QED BY <1>1, <2>2, <2>4
<1>6. CASE DropSchedule(j)
  <2>1. sent' = sent /\ job[j].pc = "refused" /\ Finish(j)
    BY <1>6 DEF DropSchedule, At
  <2>2. dialog'.count = dialog.count /\ dialog'.next # 0
    BY <1>6 DEF DropSchedule, Null, CloserInv, DialogRow
  <2>3. job'[j].pc = "free" /\ job'[j] = Free /\ \A k \in Jobs \ {j} : job'[k] = job[k]
    BY <2>1, FinishEffect
  <2>4. Nearing
    BY <1>1, <2>1, <2>2, <2>3 DEF Nearing, Ahead, After, InHand
  <2>5. Onward
    BY <1>1, <2>1, <2>2, <2>3, <2>4 DEF Onward, Reads, InHand
  <2> QED BY <1>1, <2>3, <2>5
<1>7. CASE StoreFollowUp(j)
  <2>1. /\ \A k \in Jobs \ {j} : job'[k] = job[k]
        /\ job'[j].slow = job[j].slow
    BY <1>1, <1>7, GotoEffect DEF StoreFollowUp, JobSteps
  <2> QED BY <1>1, <1>7, <2>1
<1>8. CASE CountFollowUp(j)
  <2>1. sent' = sent /\ job[j].pc = "stored"
    BY <1>8 DEF CountFollowUp, At
  <2>2. dialog'.count = job[j].read + 1 /\ dialog'.next = dialog.next
    BY <1>8 DEF CountFollowUp, CloserInv, DialogRow
  <2>3. /\ \A k \in Jobs \ {j} : job'[k] = job[k]
        /\ job'[j].pc = "counted" /\ job'[j].slow = job[j].slow
    BY <1>1, <1>8, GotoEffect DEF CountFollowUp, JobSteps
  <2>4. Nearing
    BY <1>1, <2>1, <2>2, <2>3 DEF Nearing, Ahead, After, InHand
  <2>5. Onward
    BY <1>1, <2>1, <2>2, <2>3, <2>4 DEF Onward, Reads, InHand
  <2> QED BY <1>1, <2>3, <2>5
<1>9. CASE ScheduleNext(j)
  <2>1. sent' = sent /\ job[j].pc = "counted" /\ Finish(j)
    BY <1>9 DEF ScheduleNext, At
  <2>2. dialog'.count = dialog.count /\ dialog'.next # 0
    <3>1. CASE job[j].read + 1 >= MaxAttempts
      BY <1>9, <3>1 DEF ScheduleNext, Null, CloserInv, DialogRow
    <3>2. CASE ~(job[j].read + 1 >= MaxAttempts)
      <4>1. job[j].read + 1 \in 0..MaxAttempts
        BY <1>2, <3>2, CloserAssumption DEF Job
      <4>2. Delays[job[j].read + 1] \in Nat \ {0}
        BY <4>1, CloserAssumption
      <4>3. dialog' = Armed(dialog, job[j].read + 1)
        BY <1>9, <3>2 DEF ScheduleNext
      <4> QED BY <4>2, <4>3 DEF Armed, CloserInv, DialogRow
    <3> QED BY <3>1, <3>2
  <2>3. job'[j].pc = "free" /\ job'[j] = Free /\ \A k \in Jobs \ {j} : job'[k] = job[k]
    BY <2>1, FinishEffect
  <2>4. Nearing
    BY <1>1, <2>1, <2>2, <2>3 DEF Nearing, Ahead, After, InHand
  <2>5. Onward
    BY <1>1, <2>1, <2>2, <2>3, <2>4 DEF Onward, Reads, InHand
  <2> QED BY <1>1, <2>3, <2>5
<1> QED BY <1>3, <1>4, <1>5, <1>6, <1>7, <1>8, <1>9 DEF Work

\* Steps of the visitor, of the statements and of the scan that go onward.
LEMMA OthersOnward ==
    ASSUME CloserInv,
           \/ ReceiveMessage \/ Answer \/ CloseDialog
           \/ PlanFollowUp \/ ArmFollowUp \/ WinDialog
           \/ ScanFinds \/ ScanChecks \/ Postpone
    PROVE  Onward
<1>1. /\ job' = job /\ sent' = sent
      /\ spent'["faults"] = spent["faults"] /\ spent'["refused"] = spent["refused"]
  BY DEF ReceiveMessage, Answer, CloseDialog, PlanFollowUp, ArmFollowUp, WinDialog,
         ScanFinds, ScanChecks, Postpone, Spend, CloserInv, Counters
<1>2. /\ inbound["received"] > 0 => inbound'["received"] > 0
      /\ background["reset"] = 0 => background'["reset"] = 0 \/ inbound'["received"] > 0
  <2>1. inbound["received"] \in Nat /\ background["reset"] \in Nat
    BY SeriesTypes
  <2>2. CASE ReceiveMessage
    <3>1. inbound'["received"] = inbound["received"] + 1
      BY <2>2 DEF ReceiveMessage, CloserInv, InboundOK
    <3> QED BY <2>1, <3>1
  <2>3. CASE Answer
    <3>1. inbound'["received"] = inbound["received"] /\ background'["reset"] = background["reset"]
      BY <2>3 DEF Answer, Begin, CloserInv, InboundOK, Unawaited
    <3> QED BY <3>1
  <2>4. CASE PlanFollowUp \/ ArmFollowUp \/ WinDialog
    <3>1. inbound' = inbound /\ background'["reset"] = background["reset"]
      BY <2>4 DEF PlanFollowUp, ArmFollowUp, WinDialog, Run, CloserInv, Unawaited
    <3> QED BY <3>1
  <2>5. CASE CloseDialog \/ ScanFinds \/ ScanChecks \/ Postpone
    BY <2>5 DEF CloseDialog, ScanFinds, ScanChecks, Postpone
  <2> QED BY <2>2, <2>3, <2>4, <2>5
<1>3. dialog'.count = dialog.count
  BY DEF ReceiveMessage, Answer, CloseDialog, PlanFollowUp, ArmFollowUp, WinDialog,
         ScanFinds, ScanChecks, Postpone, Armed, Won, CloserInv, DialogRow
<1>4. dialog'.next = 0 => dialog.next = 0 /\ (cron = "queued" => cron' = "queued")
  <2>1. CASE ArmFollowUp
    <3>1. Delays[0] \in Nat \ {0}
      BY CloserAssumption, NoAttempt
    <3> QED BY <2>1, <3>1 DEF ArmFollowUp, Armed, CloserInv, DialogRow
  <2>2. CASE WinDialog
    BY <2>2 DEF WinDialog, Won, Null, CloserInv, DialogRow
  <2>3. CASE Postpone
    BY <2>3 DEF Postpone, CloserInv, DialogRow
  <2>4. CASE CloseDialog \/ ReceiveMessage \/ Answer \/ PlanFollowUp
    BY <2>4 DEF CloseDialog, ReceiveMessage, Answer, PlanFollowUp, CloserInv, DialogRow
  <2>5. CASE ScanFinds \/ ScanChecks
    <3>1. cron # "queued"
      BY <2>5 DEF ScanFinds, ScanChecks
    <3>2. dialog'.next = 0 => dialog.next = 0
      <4>1. dialog' = dialog \/ dialog' = Won(dialog)
        BY <2>5 DEF ScanFinds, ScanChecks
      <4>2. Won(dialog).next # 0
        BY DEF Won, Null, CloserInv, DialogRow
      <4> QED BY <4>1, <4>2
    <3> QED BY <3>1, <3>2
  <2> QED BY <2>1, <2>2, <2>3, <2>4, <2>5
<1>5. Nearing
  BY <1>1, <1>4 DEF Nearing
<1> QED BY <1>1, <1>2, <1>3, <1>5 DEF Onward, Reads

\* A bound with what the next step does to it: for steps that are not Onward.
LEMMA WithinBy ==
    ASSUME CloserInv, NEW n \in Int, Within(n)
    PROVE  /\ sent \in Nat /\ MayScan \in {0, 1}
           /\ Cardinality(Coming) \in Nat /\ Cardinality(Jobs \ JobsAt(After)) \in Nat
           /\ IsFiniteSet(Coming) /\ IsFiniteSet(Jobs \ JobsAt(After))
<1>1. Coming \in SUBSET Jobs /\ Jobs \ JobsAt(After) \in SUBSET Jobs /\ MayScan \in {0, 1}
  BY DEF Coming, JobsAt, MayScan
<1> QED BY <1>1, Sizes, FollowUpBounds, FS_Subset DEF CloserInv

\* The scan queues the one job it may.
LEMMA EnqueueWithin ==
    ASSUME CloserInv, CloserInv', Enqueue, NEW n \in Int, Within(n)
    PROVE  Within(n)'
<1>1. PICK j \in Jobs : ~Busy(j) /\ job' = [job EXCEPT ![j] = Queued]
  BY DEF Enqueue
<1>2. /\ job[j].pc = "free" /\ job'[j].pc = "waiting" /\ \A k \in Jobs \ {j} : job'[k] = job[k]
      /\ cron = "eligible" /\ cron' = "queued" /\ dialog' = dialog /\ sent' = sent
  BY <1>1, SeriesTypes DEF Enqueue, CloserInv, Queued
<1>3. JobsAt(InHand)' = JobsAt(InHand) /\ JobsAt(After)' = JobsAt(After)
      /\ j \notin JobsAt(Ahead) /\ JobsAt(Ahead)' = JobsAt(Ahead) \cup {j}
  BY <1>2 DEF JobsAt, InHand, After, Ahead
<1>4. CASE dialog.next # 0
  <2>1. Coming' = Coming /\ MayScan' = MayScan
    BY <1>2, <1>3, <1>4 DEF Coming, MayScan
  <2> QED BY <1>2, <1>4, <2>1 DEF Within
<1>5. CASE dialog.next = 0
  <2>1. Coming' = Coming \cup {j} /\ j \notin Coming /\ MayScan = 1 /\ MayScan' = 0
    BY <1>2, <1>3, <1>5 DEF Coming, MayScan
  <2>2. Cardinality(Coming') = Cardinality(Coming) + 1
    BY <2>1, WithinBy, FS_AddElement
  <2>3. sent + Cardinality(Coming) + MayScan = sent' + Cardinality(Coming') + MayScan'
    BY <1>2, <2>1, <2>2, WithinBy
  <2> QED BY <1>2, <1>3, <1>5, <2>3 DEF Within
<1> QED BY <1>4, <1>5

\* A job stores its follow-up.
LEMMA StoredEffect ==
    ASSUME CloserInv, NEW j \in Jobs, StoreFollowUp(j)
    PROVE  /\ job[j].pc = "generated" /\ job'[j].pc = "stored" /\ job'[j].read = job[j].read
           /\ sent' = sent + 1 /\ UNCHANGED <<dialog, inbound, background, cron, spent>>
           /\ \A k \in Jobs \ {j} : job'[k] = job[k]
<1>1. job[j].pc = "generated" /\ Busy(j)
  BY DEF StoreFollowUp, At, Busy, Free
<1> QED BY <1>1, GotoEffect DEF StoreFollowUp, JobSteps

LEMMA StoreWithin ==
    ASSUME CloserInv, CloserInv', NEW j \in Jobs, StoreFollowUp(j), NEW n \in Int, Within(n)
    PROVE  Within(n)'
<1>1. /\ job[j].pc = "generated" /\ job'[j].pc = "stored" /\ sent' = sent + 1
      /\ \A k \in Jobs \ {j} : job'[k] = job[k]
      /\ dialog' = dialog /\ cron' = cron
  BY StoredEffect
<1>2. /\ Coming' = Coming \ {j} /\ j \in Coming
      /\ Jobs \ JobsAt(After)' = (Jobs \ JobsAt(After)) \ {j} /\ j \in Jobs \ JobsAt(After)
  BY <1>1 DEF Coming, JobsAt, InHand, After, Ahead
<1>3. /\ Cardinality(Coming') = Cardinality(Coming) - 1
      /\ Cardinality(Jobs \ JobsAt(After)') = Cardinality(Jobs \ JobsAt(After)) - 1
  BY <1>2, WithinBy, FS_RemoveElement
<1>4. MayScan' = MayScan
  BY <1>1 DEF MayScan
<1>5. /\ sent' + Cardinality(Coming') + MayScan' = sent + Cardinality(Coming) + MayScan
      /\ sent' + Cardinality(Jobs \ JobsAt(After)') = sent + Cardinality(Jobs \ JobsAt(After))
  <2>1. PICK a \in Nat, b \in Nat, m \in {0, 1}, t \in Nat :
           /\ a = Cardinality(Coming) /\ b = Cardinality(Jobs \ JobsAt(After))
           /\ m = MayScan /\ t = sent
    BY WithinBy
  <2>2. /\ (t + 1) + (a - 1) + m = t + a + m
        /\ (t + 1) + (b - 1) = t + b
    OBVIOUS
  <2> QED BY <1>1, <1>3, <1>4, <2>1, <2>2
<1> QED BY <1>1, <1>5 DEF Within

\* Steps that leave the count, the reads and the bound as they are, but may queue
\* or send.
LEMMA EnqueueSeries ==
    ASSUME CloserInv, CloserInv', Enqueue, Series
    PROVE  Series'
<1>1. Base' = Base /\ Base \in Nat /\ MaxAttempts \in Nat
  BY SameBase, BaseSize, PerFaultSize DEF Enqueue
<1>2. \A n \in Int : Within(n) => Within(n)'
  BY EnqueueWithin
<1>3. CASE Low
  BY <1>1, <1>2, <1>3 DEF Low, Series
<1>4. CASE Ended
  <2>1. Base + MaxAttempts \in Nat
    BY <1>1
  <2> QED BY <1>1, <1>2, <1>4, <2>1 DEF Ended, Series, Enqueue
<1>5. ASSUME NEW c \in 0..MaxAttempts, Level(c) PROVE Level(c)'
  <2>1. PICK f \in Int : f = Floor /\ f + c + 1 \in Int
    BY <1>1, FloorSize
  <2>2. Floor' = f
    BY <1>1, <2>1 DEF Floor, NoLateReset, Enqueue
  <2>3. PICK j \in Jobs : ~Busy(j) /\ job' = [job EXCEPT ![j] = Queued]
    BY DEF Enqueue
  <2>4. job[j].pc = "free" /\ job'[j].pc = "waiting" /\ \A k \in Jobs \ {j} : job'[k] = job[k]
    BY <2>3, SeriesTypes DEF CloserInv, Queued
  <2>5. \A k \in Jobs : Reads(k)' => Reads(k) /\ job'[k].read = job[k].read
    BY <2>4 DEF Reads, InHand
  <2>6. LevelAt(f, c)
    BY <1>5, <2>1 DEF Level
  <2>7. Within(f + c + 1)'
    BY <1>2, <2>1, <2>6 DEF LevelAt
  <2>8. Counted(f, c)'
    BY <2>4, <2>6 DEF LevelAt, Counted, Enqueue
  <2>9. LevelAt(f, c)'
    BY <2>5, <2>6, <2>7, <2>8 DEF LevelAt, Enqueue
  <2> QED BY <2>2, <2>9 DEF Level
<1> QED BY <1>3, <1>4, <1>5 DEF Series

LEMMA StoreSeries ==
    ASSUME CloserInv, CloserInv', NEW j \in Jobs, StoreFollowUp(j), Series
    PROVE  Series'
<1>0. /\ job[j].pc = "generated" /\ job'[j].pc = "stored" /\ job'[j].read = job[j].read
      /\ sent' = sent + 1 /\ UNCHANGED <<dialog, inbound, background, cron, spent>>
      /\ \A k \in Jobs \ {j} : job'[k] = job[k]
  BY StoredEffect
<1>1. Base' = Base /\ Base \in Nat /\ MaxAttempts \in Nat
  BY <1>0, SameBase, BaseSize, PerFaultSize
<1>2. \A n \in Int : Within(n) => Within(n)'
  BY StoreWithin
<1>3. CASE Low
  BY <1>1, <1>2, <1>3 DEF Low, Series
<1>4. CASE Ended
  <2>1. Base + MaxAttempts \in Nat
    BY <1>1
  <2> QED BY <1>0, <1>1, <1>2, <1>4, <2>1 DEF Ended, Series
<1>5. ASSUME NEW c \in 0..MaxAttempts, Level(c) PROVE Level(c)'
  <2>1. PICK f \in Int : f = Floor /\ f + c + 1 \in Int
    BY <1>1, FloorSize
  <2>2. Floor' = f
    BY <1>0, <1>1, <2>1 DEF Floor, NoLateReset
  <2>3. \A k \in Jobs : Reads(k)' => Reads(k) /\ job'[k].read = job[k].read
    BY <1>0 DEF Reads, InHand
  <2>4. LevelAt(f, c)
    BY <1>5, <2>1 DEF Level
  <2>5. Within(f + c + 1)'
    BY <1>2, <2>1, <2>4 DEF LevelAt
  <2>6. Counted(f, c)'
    BY <1>0 DEF Counted
  <2>7. LevelAt(f, c)'
    BY <1>0, <2>3, <2>4, <2>5, <2>6 DEF LevelAt
  <2> QED BY <2>2, <2>7 DEF Level
<1> QED BY <1>3, <1>4, <1>5 DEF Series

\* The visitor's message is stored: what the jobs have in hand begins a new
\* count.
LEMMA MessageSeries ==
    ASSUME CloserInv, CloserInv', StoreMessage, spent["faults"] = 0 => OneJob
    PROVE  Series'
<1>1. sent' = 0 /\ UNCHANGED <<dialog, job, cron, spent>>
  BY DEF StoreMessage
<1>2. Base' = Base /\ Base \in Nat
  BY <1>1, SameBase, BaseSize
<1>3. CASE spent["faults"] # 0
  <2>1. Base >= 1 + Cardinality(Jobs) /\ Cardinality(Jobs) \in Nat
    BY <1>2, <1>3, BaseSize, PerFaultSize, Sizes
  <2>2. /\ Cardinality(Jobs \ JobsAt(After)) <= Cardinality(Jobs)
        /\ Cardinality(Jobs \ JobsAt(After)) \in Nat
        /\ Cardinality(Coming) <= Cardinality(Jobs) /\ Cardinality(Coming) \in Nat
    <3>1. Coming \in SUBSET Jobs /\ Jobs \ JobsAt(After) \in SUBSET Jobs
      BY DEF Coming, JobsAt
    <3> QED BY <3>1, Sizes
  <2>3. sent' + Cardinality(Jobs \ JobsAt(After)) <= Base
    BY <1>1, <1>2, <2>1, <2>2
  <2>4. dialog.next # 0 => sent' + Cardinality(Coming) + MayScan <= Base
    <3>1. dialog.next # 0 => MayScan = 0
      BY DEF MayScan
    <3> QED BY <1>1, <1>2, <2>1, <2>2, <3>1
  <2>5. /\ Coming' = Coming /\ MayScan' = MayScan /\ JobsAt(After)' = JobsAt(After)
    BY <1>1 DEF Coming, MayScan, JobsAt
  <2> QED BY <1>1, <1>2, <2>3, <2>4, <2>5 DEF Within, Low, Series
<1>4. CASE spent["faults"] = 0
  <2>1. OneJob /\ Base >= 1
    BY <1>4, BaseSize
  <2>2. Cardinality(Coming) + MayScan <= 1
    <3>1. CASE \E j \in Jobs : Busy(j)
      <4>1. PICK j \in Jobs : Busy(j)
        BY <3>1
      <4>2. Coming \subseteq {j}
        <5>1. \A k \in Coming : k \in Jobs /\ Busy(k)
          BY SeriesTypes DEF Coming, JobsAt, InHand, Ahead
        <5> QED BY <2>1, <4>1, <5>1 DEF OneJob
      <4>3. Cardinality(Coming) <= 1 /\ Cardinality(Coming) \in Nat
        <5>1. Coming \in SUBSET Jobs /\ {j} \in SUBSET Jobs
          BY DEF Coming, JobsAt
        <5> QED BY <4>2, <5>1, Sizes, FS_Singleton
      <4>4. MayScan = 0
        <5>1. ~ScanTurn /\ cron \in CronSteps
          BY <2>1, <4>1 DEF OneJob, CloserInv
        <5> QED BY <5>1 DEF ScanTurn, MayScan, CronSteps
      <4> QED BY <4>3, <4>4
    <3>2. CASE ~\E j \in Jobs : Busy(j)
      <4>1. Coming = {}
        BY <3>2, SeriesTypes DEF Coming, JobsAt, InHand, Ahead
      <4> QED BY <4>1, FS_EmptySet DEF MayScan
    <3> QED BY <3>1, <3>2
  <2>3. /\ Coming' = Coming /\ MayScan' = MayScan
    BY <1>1 DEF Coming, MayScan, JobsAt
  <2>4. Cardinality(Coming) \in Nat /\ MayScan \in {0, 1}
    <3>1. Coming \in SUBSET Jobs
      BY DEF Coming, JobsAt
    <3> QED BY <3>1, Sizes DEF MayScan
  <2>5. sent' + Cardinality(Coming') + MayScan' <= Base'
    BY <1>1, <1>2, <2>1, <2>2, <2>3, <2>4
  <2> QED BY <2>5 DEF Within, Low, Series
<1> QED BY <1>3, <1>4

\* The count is reset: for a message that is still to be stored, that was, or
\* that never will be.
LEMMA ResetSeries ==
    ASSUME CloserInv, CloserInv', ResetSchedule, Series
    PROVE  Series'
<1>1. /\ UNCHANGED <<sent, inbound, cron, job, spent>>
      /\ background["reset"] > 0 /\ background'["reset"] = background["reset"] - 1
  BY DEF ResetSchedule, Run, CloserInv, Unawaited
<1>2. background["reset"] \in Nat /\ background["reset"] # 0
  BY <1>1, SeriesTypes
<1>3. CASE ~dialog.active
  <2>1. dialog' = dialog
    BY <1>3 DEF ResetSchedule
  <2>2. Nearing
    BY <1>1, <2>1 DEF Nearing
  <2>3. Onward
    BY <1>1, <1>2, <2>1, <2>2 DEF Onward, Reads
  <2> QED BY <2>3, OnwardSeries
<1>4. CASE dialog.active
  <2>1. dialog'.next # 0
    BY <1>4 DEF ResetSchedule, Null, CloserInv, DialogRow
  <2>2. Nearing
    BY <1>1, <2>1 DEF Nearing
  <2>3. \A n \in Int : Within(n) => Within(n)'
    BY <2>2, WithinKept
  <2>4. Base' = Base /\ Base \in Nat /\ MaxAttempts \in Nat /\ Base + MaxAttempts \in Nat
    BY <1>1, SameBase, BaseSize, PerFaultSize
  <2>5. CASE Low
    BY <2>3, <2>4, <2>5 DEF Low, Series
  <2>6. CASE Ended
    BY <1>1, <2>1, <2>3, <2>4, <2>6 DEF Ended, Series
  <2>7. ASSUME NEW c \in 0..MaxAttempts, Level(c) PROVE Series'
    <3>1. Coming' = JobsAt(InHand) /\ MayScan' = 0
      BY <1>1, <2>1 DEF Coming, MayScan, JobsAt
    <3>2. Cardinality(JobsAt(InHand)) \in Nat /\ sent \in Nat
      BY Sizes DEF JobsAt, CloserInv
    <3>3. CASE NoLateReset
      <4>1. inbound["received"] > 0
        BY <1>2, <3>3 DEF NoLateReset
      <4>2. Series
        BY <2>7 DEF Series
      <4>3. sent + Cardinality(JobsAt(InHand)) <= Base + MaxAttempts
        BY <4>2, SeriesBounded
      <4>4. sent' + Cardinality(Coming') + MayScan' <= Base' + MaxAttempts
        BY <1>1, <2>4, <3>1, <3>2, <4>3
      <4> QED BY <1>1, <2>1, <4>1, <4>4 DEF Within, Ended, Series
    <3>4. CASE ~NoLateReset
      <4>1. PICK f \in Int : f = Floor /\ f + MaxAttempts = Base
        BY <3>4, FloorSize
      <4>2. sent + Cardinality(JobsAt(InHand)) <= f + MaxAttempts
        BY <2>7, <4>1, LevelBounded DEF Level
      <4>3. sent' + Cardinality(Coming') + MayScan' <= Base'
        BY <1>1, <2>4, <3>1, <3>2, <4>1, <4>2
      <4> QED BY <4>3 DEF Within, Low, Series
    <3> QED BY <3>3, <3>4
  <2> QED BY <2>5, <2>6, <2>7 DEF Series
<1> QED BY <1>3, <1>4

\* A minute ends: all that was sent has been counted.
LEMMA TickSeries ==
    ASSUME CloserInv, CloserInv', Tick, Series, NoneSlow
    PROVE  Series'
<1>1. /\ UNCHANGED <<sent, inbound, background, cron, job, spent>>
      /\ inbound["received"] = 0 /\ background["reset"] = 0
      /\ \A j \in Jobs : ~Busy(j)
      /\ dialog'.count = dialog.count
  BY DEF Tick, NoneSlow, CloserInv, InboundOK, Unawaited, DialogRow
<1>2. /\ Base' = Base /\ Base \in Nat /\ MaxAttempts \in Nat /\ sent \in Nat
      /\ dialog.count \in 0..MaxAttempts
  BY <1>1, SameBase, BaseSize, PerFaultSize, SeriesTypes
<1>3. \A j \in Jobs : job[j].pc = "free"
  BY <1>1, SeriesTypes
<1>0. Floor = Base /\ Floor' = Base'
  BY <1>1 DEF Floor, NoLateReset
<1>4. sent <= Base + dialog.count
  <2>1. CASE Low
    <3>1. sent + Cardinality(JobsAt(InHand)) <= Base
      BY <1>2, <2>1, WithinHand DEF Low
    <3>2. Cardinality(JobsAt(InHand)) \in Nat
      BY Sizes DEF JobsAt
    <3> QED BY <1>2, <3>1, <3>2
  <2>2. CASE Ended
    BY <1>1, <2>2 DEF Ended
  <2>3. ASSUME NEW c \in 0..MaxAttempts, Level(c) PROVE sent <= Base + dialog.count
    <3>0. LevelAt(Base, c)
      BY <1>0, <2>3 DEF Level
    <3>1. c <= dialog.count /\ Base + c + 1 \in Int
      BY <1>2, <3>0 DEF LevelAt
    <3>2. CASE sent <= Base + c
      BY <1>2, <3>1, <3>2
    <3>3. CASE dialog.count > c
      <4>1. sent + Cardinality(JobsAt(InHand)) <= Base + c + 1
        BY <3>0, <3>1, WithinHand DEF LevelAt
      <4>2. Cardinality(JobsAt(InHand)) \in Nat
        BY Sizes DEF JobsAt
      <4> QED BY <1>2, <3>3, <4>1, <4>2
    <3> QED BY <1>3, <3>0, <3>2, <3>3 DEF LevelAt, Counted
  <2> QED BY <2>1, <2>2, <2>3 DEF Series
<1>5. PICK c \in 0..MaxAttempts : c = dialog.count
  BY <1>2
<1>6. Coming' = {} /\ MayScan' \in {0, 1}
  BY <1>1, <1>3 DEF Coming, JobsAt, Ahead, InHand, MayScan
<1>7. sent' + Cardinality(Coming') + MayScan' <= Base' + c + 1
  BY <1>1, <1>2, <1>4, <1>5, <1>6, FS_EmptySet
<1>8. Counted(Base, c)'
  BY <1>1, <1>2, <1>4, <1>5 DEF Counted
<1>9. \A j \in Jobs : ~Reads(j)'
  BY <1>1, <1>3 DEF Reads, InHand
<1>10. Level(c)'
  BY <1>0, <1>1, <1>2, <1>5, <1>7, <1>8, <1>9 DEF Level, LevelAt, Within
<1> QED BY <1>10 DEF Series

-----------------------------------------------------------------------------
(* Faults, and one job a minute *)

\* How a failure or a restart moves a job: on its way back to the queue, out of
\* it, or not at all.
LEMMA BackEffect ==
    ASSUME CloserInv, NEW j \in Jobs, Busy(j), NEW q,
           \/ q = [job[j] EXCEPT !.pc = "waiting", !.tries = @ + 1, !.read = 0]
           \/ q = [job[j] EXCEPT !.pc = "waiting", !.stalls = @ + 1, !.read = 0]
    PROVE  q.pc = "waiting" /\ q.slow = job[j].slow
<1>1. PICK r \in Job : r = job[j]
  BY JobChanges DEF Busy
<1> QED BY <1>1 DEF Job

LEMMA FaultEffect ==
    ASSUME CloserInv, \/ ScanFails \/ Restart \/ \E j \in Jobs : JobFails(j)
    PROVE  /\ Spend("faults", MaxFaults) /\ dialog' = dialog /\ sent' = sent
           /\ NoLateReset => NoLateReset'
           /\ \A j \in Jobs : \/ job'[j] = job[j] \/ job'[j] = Free
                              \/ Busy(j) /\ job'[j].pc = "waiting" /\ job'[j].slow = job[j].slow
<1>2. CASE ScanFails
  BY <1>2 DEF ScanFails, Fault, NoLateReset
<1>3. CASE Restart
  <2>1. background'["reset"] = 0
    BY <1>3 DEF Restart, Unawaited
  <2>2. ASSUME NEW j \in Jobs, job'[j] # job[j], job'[j] # Free
        PROVE  Busy(j) /\ job'[j].pc = "waiting" /\ job'[j].slow = job[j].slow
    <3>1. Busy(j)
      BY <1>3, <2>2 DEF Restart
    <3>2. job'[j] = [job[j] EXCEPT !.pc = "waiting", !.stalls = @ + 1, !.read = 0]
      BY <1>3, <2>2 DEF Restart
    <3> QED BY <3>1, <3>2, BackEffect
  <2> QED BY <1>3, <2>1, <2>2 DEF Restart, Fault, NoLateReset
<1>4. ASSUME NEW j \in Jobs, JobFails(j)
      PROVE  \A k \in Jobs : \/ job'[k] = job[k] \/ job'[k] = Free
                             \/ Busy(k) /\ job'[k].pc = "waiting" /\ job'[k].slow = job[k].slow
  <2>1. Busy(j)
    BY <1>4 DEF JobFails
  <2>2. PICK q : /\ job' = [job EXCEPT ![j] = q]
                 /\ q = Free \/ q = [job[j] EXCEPT !.pc = "waiting", !.tries = @ + 1, !.read = 0]
    <3>1. CASE job[j].tries + 1 < JobAttempts
      <4>1. PICK q : q = [job[j] EXCEPT !.pc = "waiting", !.tries = @ + 1, !.read = 0]
        OBVIOUS
      <4> QED BY <1>4, <3>1, <4>1 DEF JobFails
    <3>2. CASE ~(job[j].tries + 1 < JobAttempts)
      BY <1>4, <3>2 DEF JobFails, Finish
    <3> QED BY <3>1, <3>2
  <2>3. q = Free \/ (q.pc = "waiting" /\ q.slow = job[j].slow)
    BY <2>1, <2>2, BackEffect
  <2> QED BY <2>1, <2>2, <2>3 DEF CloserInv
<1> QED BY <1>2, <1>3, <1>4 DEF JobFails, Fault, NoLateReset

\* A message that is not stored, because it is refused or something throws, gives
\* a new series at most: what its reset has begun, or will begin.
LEMMA LostEffect ==
    ASSUME CloserInv, CloserInv', RefuseMessage \/ MessageFails
    PROVE  /\ UNCHANGED <<dialog, sent, cron, job>>
           /\ Base' \in Nat /\ Base' >= Base + MaxAttempts
           /\ spent'["slow"] = spent["slow"]
<1>1. UNCHANGED <<dialog, sent, cron, job>>
  BY DEF RefuseMessage, MessageFails
<1>2. CASE RefuseMessage
  <2>1. Base' = Base + MaxAttempts /\ Base \in Nat /\ MaxAttempts \in Nat
    BY <1>2, BaseRefused, BaseSize, PerFaultSize
  <2> QED BY <1>1, <1>2, <2>1 DEF RefuseMessage, CloserInv, Counters
<1>3. CASE MessageFails
  <2>1. Spend("faults", MaxFaults)
    BY <1>3 DEF MessageFails, Fault
  <2>2. Base' = Base + PerFault /\ spent'["slow"] = spent["slow"] /\ Base \in Nat
        /\ PerFault \in Nat /\ PerFault >= MaxAttempts /\ MaxAttempts \in Nat
    BY <2>1, BaseGrows, BaseSize, PerFaultSize
  <2> QED BY <1>1, <2>2
<1> QED BY <1>2, <1>3

LEMMA LostSeries ==
    ASSUME CloserInv, CloserInv', Series, RefuseMessage \/ MessageFails
    PROVE  Series'
<1>1. UNCHANGED <<dialog, sent, cron, job>>
  BY LostEffect
<1>2. /\ Base \in Nat /\ Base' \in Nat /\ MaxAttempts \in Nat /\ Base' >= Base + MaxAttempts
      /\ sent \in Nat
  BY LostEffect, BaseSize, PerFaultSize, SeriesTypes
<1>3. PICK f \in Int, g \in Int, n \in Int : f = Floor /\ g = Floor' /\ n = Base' /\ f <= g /\ Base <= n
  <2>1. Floor \in Int /\ Floor <= Base
    BY FloorSize
  <2>2. Floor' \in {Base', Base' - MaxAttempts}
    BY DEF Floor
  <2>3. PICK b \in Nat, d \in Nat, m \in Nat, f \in Int :
           /\ b = Base /\ d = Base' /\ m = MaxAttempts /\ f = Floor
           /\ d >= b + m /\ f <= b
    BY <1>2, <2>1
  <2>4. b <= d /\ f <= d /\ f <= d - m /\ d - m \in Int
    <3>1. \A x, y, z \in Nat, w \in Int : y >= x + z /\ w <= x =>
             x <= y /\ w <= y /\ w <= y - z /\ y - z \in Int
      OBVIOUS
    <3> QED BY <2>3, <3>1
  <2>5. Floor' \in Int /\ Floor <= Floor' /\ Base <= Base'
    <3>1. CASE Floor' = Base'
      BY <2>3, <2>4, <3>1
    <3>2. CASE Floor' = Base' - MaxAttempts
      BY <2>3, <2>4, <3>2
    <3> QED BY <2>2, <3>1, <3>2
  <2> QED BY <1>2, <2>1, <2>5
<1>4. \A m : Within(m)' <=> Within(m)
  BY <1>1 DEF Within, Coming, MayScan, JobsAt
<1>5. CASE dialog.next # 0
  <2>1. sent + Cardinality(JobsAt(InHand)) <= Base + MaxAttempts
    BY SeriesBounded
  <2>2. Coming' = JobsAt(InHand) /\ MayScan' = 0
    BY <1>1, <1>5 DEF Coming, MayScan, JobsAt
  <2>3. Cardinality(JobsAt(InHand)) \in Nat
    BY Sizes DEF JobsAt
  <2>4. sent' + Cardinality(Coming') + MayScan' <= Base'
    BY <1>1, <1>2, <2>1, <2>2, <2>3
  <2> QED BY <2>4 DEF Within, Low, Series
<1>6. CASE dialog.next = 0
  <2>1. CASE Low
    <3>1. Within(n)
      BY <1>2, <1>3, <2>1, WithinMore DEF Low
    <3> QED BY <1>3, <1>4, <3>1 DEF Low, Series
  <2>2. CASE Ended
    BY <1>6, <2>2 DEF Ended
  <2>3. ASSUME NEW c \in 0..MaxAttempts, Level(c) PROVE Level(c)'
    <3>1. LevelAt(g, c)
      BY <1>3, <2>3, LevelMore DEF Level
    <3>2. LevelAt(g, c)'
      BY <1>1, <1>4, <3>1 DEF LevelAt, Counted, Reads
    <3> QED BY <1>3, <3>2 DEF Level
  <2> QED BY <2>1, <2>2, <2>3 DEF Series
<1> QED BY <1>5, <1>6

\* A fault gives every job another follow-up; where it ends what was to come it
\* gives a new series at most.
LEMMA FaultSeries ==
    ASSUME CloserInv, CloserInv', Series,
           \/ ScanFails \/ Restart \/ \E j \in Jobs : JobFails(j)
    PROVE  Series'
<1>1. /\ Spend("faults", MaxFaults) /\ dialog' = dialog /\ sent' = sent
      /\ NoLateReset => NoLateReset'
      /\ \A j \in Jobs : \/ job'[j] = job[j] \/ job'[j] = Free \/ job'[j].pc = "waiting"
  BY FaultEffect
<1>2. /\ Base' = Base + PerFault /\ Base \in Nat /\ PerFault \in Nat
      /\ PerFault >= MaxAttempts /\ PerFault >= Cardinality(Jobs) /\ MaxAttempts \in Nat
      /\ MaxAttempts >= 1 /\ Cardinality(Jobs) \in Nat /\ sent \in Nat
  BY <1>1, BaseGrows, BaseSize, PerFaultSize, Sizes, SeriesTypes
<1>3. sent + Cardinality(JobsAt(InHand)) <= Base + MaxAttempts
  BY SeriesBounded
<1>4. \A j \in Jobs : job'[j].pc \in InHand \cup {"stored"} => job'[j] = job[j]
  BY <1>1 DEF InHand, Free
<1>5. CASE dialog.next # 0
  <2>1. JobsAt(InHand)' \subseteq JobsAt(InHand)
    BY <1>4 DEF JobsAt
  <2>2. /\ Cardinality(JobsAt(InHand)') <= Cardinality(JobsAt(InHand))
        /\ Cardinality(JobsAt(InHand)') \in Nat /\ Cardinality(JobsAt(InHand)) \in Nat
    <3>1. JobsAt(InHand) \in SUBSET Jobs /\ JobsAt(InHand)' \in SUBSET Jobs
      BY DEF JobsAt
    <3> QED BY <2>1, <3>1, Sizes
  <2>3. Coming' = JobsAt(InHand)' /\ MayScan' = 0
    BY <1>1, <1>5 DEF Coming, MayScan
  <2>4. sent' + Cardinality(Coming') + MayScan' <= Base'
    BY <1>1, <1>2, <1>3, <2>2, <2>3
  <2> QED BY <2>4 DEF Within, Low, Series
<1>6. CASE dialog.next = 0
  <2>1. /\ Cardinality(Jobs \ JobsAt(After)') <= Cardinality(Jobs)
        /\ Cardinality(Jobs \ JobsAt(After)') \in Nat
    <3>1. Jobs \ JobsAt(After)' \in SUBSET Jobs
      OBVIOUS
    <3> QED BY <3>1, Sizes
  <2>2. Cardinality(JobsAt(InHand)) \in Nat
    BY Sizes DEF JobsAt
  <2>3. CASE Low
    <3>1. sent + Cardinality(JobsAt(InHand)) <= Base
      BY <1>2, <2>3, WithinHand DEF Low
    <3>2. sent' + Cardinality(Jobs \ JobsAt(After)') <= Base'
      BY <1>1, <1>2, <2>1, <2>2, <3>1
    <3> QED BY <1>1, <1>6, <3>2 DEF Within, Low, Series
  <2>4. CASE Ended
    BY <1>6, <2>4 DEF Ended
  <2>5. ASSUME NEW c \in 0..MaxAttempts, Level(c) PROVE Level(c)'
    <3>0. PICK f \in Int, g \in Int : f = Floor /\ g = Floor' /\ g >= f + PerFault
      <4>1. Floor \in Int /\ Floor' \in Int /\ Floor' >= Floor + PerFault
        BY <1>1, <1>2 DEF Floor
      <4> QED BY <4>1
    <3>1. sent <= f + c + 1 /\ c \in Nat /\ LevelAt(f, c)
      <4>1. f + c + 1 \in Int
        BY <1>2
      <4>2. LevelAt(f, c)
        BY <2>5, <3>0 DEF Level
      <4>3. sent + Cardinality(JobsAt(InHand)) <= f + c + 1
        BY <4>1, <4>2, WithinHand DEF LevelAt
      <4> QED BY <1>2, <2>2, <4>2, <4>3
    <3>2. sent' + Cardinality(Jobs \ JobsAt(After)') <= g + c + 1
      BY <1>1, <1>2, <2>1, <3>0, <3>1
    <3>3. Within(g + c + 1)'
      BY <1>1, <1>6, <3>2 DEF Within
    <3>4. sent' <= g + c
      BY <1>1, <1>2, <3>0, <3>1
    <3>5. \A j \in Jobs : Reads(j)' => Reads(j) /\ job'[j].read = job[j].read
      BY <1>4 DEF Reads
    <3>6. LevelAt(g, c)'
      BY <1>1, <3>1, <3>3, <3>4, <3>5 DEF LevelAt, Counted
    <3> QED BY <3>0, <3>6 DEF Level
  <2> QED BY <2>3, <2>4, <2>5 DEF Series
<1> QED BY <1>5, <1>6

\* No job is slow unless one has been made so.
LEMMA NoneSlowStep ==
    ASSUME CloserInv, NoneSlow, [Next]_vars, spent'["slow"] = spent["slow"]
    PROVE  NoneSlow'
<1>1. CASE UNCHANGED job
  BY <1>1 DEF NoneSlow, Busy
<1>2. ASSUME NEW j \in Jobs, Work(j) PROVE NoneSlow'
  BY <1>2, WorkEffect DEF NoneSlow, Busy
<1>3. CASE \/ ScanFails \/ Restart \/ \E j \in Jobs : JobFails(j)
  BY <1>3, FaultEffect DEF NoneSlow, Busy
<1>4. CASE Enqueue
  <2>1. PICK j \in Jobs : job' = [job EXCEPT ![j] = Queued]
    BY <1>4 DEF Enqueue
  <2> QED BY <2>1 DEF NoneSlow, Busy, Queued, CloserInv
<1>5. ASSUME NEW j \in Jobs PROVE ~Slow(j)
  <2>1. Slow(j) => spent'["slow"] = spent["slow"] + 1 /\ spent["slow"] \in Nat
    BY DEF Slow, Spend, CloserInv, Counters
  <2> QED BY <2>1
<1> QED
  BY <1>1, <1>2, <1>3, <1>4, <1>5
     DEF Next, vars, Visitor, ReceiveMessage, RefuseMessage, StoreMessage, Answer, MessageFails,
         CloseDialog, Statement, ResetSchedule, PlanFollowUp, ArmFollowUp, WinDialog, Scan,
         ScanFinds, ScanChecks, Postpone, Tick

\* Steps that free jobs or leave them, and give the scan no new turn.
LEMMA OneJobKept ==
    ASSUME OneJob, \A j \in Jobs : Busy(j)' => Busy(j), ScanTurn' => ScanTurn
    PROVE  OneJob'
BY DEF OneJob

LEMMA OneJobStep ==
    ASSUME CloserInv, CloserInv', OneJob, NoneSlow, [Next]_vars, spent'["faults"] = spent["faults"],
           spent'["slow"] = spent["slow"]
    PROVE  OneJob'
<1>0. cron \in CronSteps
  BY DEF CloserInv
<1>1. CASE UNCHANGED <<job, cron>> /\ (dialog'.next = 0 => dialog.next = 0)
  BY <1>1, OneJobKept DEF Busy, ScanTurn
<1>2. ASSUME NEW j \in Jobs, Work(j) PROVE OneJob'
  <2>1. Busy(j) /\ cron' = cron /\ \A k \in Jobs \ {j} : job'[k] = job[k]
    BY <1>2, WorkEffect
  <2>2. dialog'.next = 0 => dialog.next = 0
    <3>1. CASE StoreFollowUp(j)
      BY <3>1 DEF StoreFollowUp
    <3>2. CASE ~StoreFollowUp(j)
      BY <1>2, <3>2, WorkEffect DEF Onward, Nearing
    <3> QED BY <3>1, <3>2
  <2> QED BY <2>1, <2>2, OneJobKept DEF Busy, ScanTurn
<1>3. ASSUME \/ ScanFails \/ Restart \/ \E j \in Jobs : JobFails(j)
      PROVE  FALSE
  <2>1. Spend("faults", MaxFaults) /\ spent["faults"] \in Nat
    BY <1>3, FaultEffect DEF CloserInv, Counters
  <2>2. spent'["faults"] = spent["faults"] + 1
    BY <2>1 DEF Spend, CloserInv
  <2> QED BY <2>1, <2>2
<1>4. ASSUME NEW j \in Jobs, Slow(j) PROVE FALSE
  <2>1. spent'["slow"] = spent["slow"] + 1 /\ spent["slow"] \in Nat
    BY <1>4 DEF Slow, Spend, CloserInv
  <2> QED BY <2>1
<1>5. CASE Enqueue
  <2>1. PICK j \in Jobs : job' = [job EXCEPT ![j] = Queued]
    BY <1>5 DEF Enqueue
  <2>2. \A k \in Jobs : ~Busy(k)
    BY <1>5 DEF Enqueue, OneJob, ScanTurn
  <2>3. \A k \in Jobs : Busy(k)' => k = j
    BY <2>1, <2>2 DEF Busy, CloserInv
  <2>4. ~ScanTurn'
    BY <1>5 DEF Enqueue, ScanTurn
  <2> QED BY <2>3, <2>4 DEF OneJob
<1>6. CASE ScanFinds \/ ScanChecks \/ Postpone
  <2>1. job' = job
    BY <1>6 DEF ScanFinds, ScanChecks, Postpone
  <2>2. CASE ScanFinds
    BY <2>1, <2>2, OneJobKept DEF ScanFinds, RowEligible, ScanTurn, Busy
  <2>3. CASE ScanChecks
    BY <2>1, <2>3, OneJobKept DEF ScanChecks, ScanTurn, Busy
  <2>4. CASE Postpone
    <3>1. cron' = "idle" /\ dialog'.next = 1
      BY <2>4 DEF Postpone, CloserInv, DialogRow
    <3> QED BY <2>1, <3>1, OneJobKept DEF ScanTurn, Busy
  <2> QED BY <1>6, <2>2, <2>3, <2>4
<1>7. CASE Tick
  <2>1. \A k \in Jobs : ~Busy(k)'
    BY <1>7 DEF Tick, NoneSlow, Busy
  <2> QED BY <2>1 DEF OneJob
<1>8. CASE \/ ReceiveMessage \/ Answer \/ CloseDialog
           \/ PlanFollowUp \/ ArmFollowUp \/ WinDialog
  <2>1. dialog'.next = 0 => dialog.next = 0
    BY <1>8, OthersOnward DEF Onward, Nearing
  <2> QED BY <1>1, <1>8, <2>1 DEF ReceiveMessage, Answer, CloseDialog, PlanFollowUp, ArmFollowUp,
          WinDialog
<1>9. CASE StoreMessage \/ ResetSchedule \/ UNCHANGED vars
  <2>1. UNCHANGED <<job, cron>>
    BY <1>9 DEF StoreMessage, ResetSchedule, vars
  <2>2. dialog'.next = 0 => dialog.next = 0
    <3>1. dialog' = dialog
          \/ dialog' = [dialog EXCEPT !.count = 0, !.next = Null, !.state = "none"]
      BY <1>9 DEF StoreMessage, ResetSchedule, vars
    <3>2. [dialog EXCEPT !.count = 0, !.next = Null, !.state = "none"].next # 0
      BY DEF Null, CloserInv, DialogRow
    <3> QED BY <3>1, <3>2
  <2> QED BY <1>1, <2>1, <2>2
<1>10. CASE RefuseMessage \/ MessageFails
  <2>1. UNCHANGED <<job, cron, dialog>>
    BY <1>10 DEF RefuseMessage, MessageFails
  <2> QED BY <1>1, <2>1
<1> QED
  BY <1>2, <1>3, <1>4, <1>5, <1>6, <1>7, <1>8, <1>9, <1>10 DEF Next, Visitor, Statement, Scan

\* Every step keeps what is known of a series.
LEMMA SeriesStep == CloserInv /\ CloserInv' /\ SeriesInv /\ [Next]_vars => SeriesInv'
<1> SUFFICES ASSUME CloserInv, CloserInv', SeriesInv, [Next]_vars, spent'["slow"] = 0
             PROVE  Series' /\ NoneSlow' /\ (spent'["faults"] = 0 => OneJob')
  BY DEF SeriesInv
<1>1. spent["slow"] = 0 /\ spent["faults"] \in Nat
      /\ (spent'["faults"] = spent["faults"] \/ spent'["faults"] = spent["faults"] + 1)
  <2>1. spent["slow"] \in Nat /\ spent["faults"] \in Nat
    BY DEF CloserInv, Counters
  <2>2. \/ UNCHANGED spent
        \/ \E b \in Counters :
              spent' = [spent EXCEPT ![b] = spent[b] + 1]
    <3>1. ASSUME NEW j \in Jobs, Work(j) PROVE UNCHANGED spent
      BY <3>1, WorkEffect
    <3> QED
      BY <3>1 DEF Next, vars, Visitor, ReceiveMessage, RefuseMessage, StoreMessage, Answer,
         MessageFails, CloseDialog, Statement, ResetSchedule, PlanFollowUp, ArmFollowUp, WinDialog,
         Scan, ScanFinds, ScanChecks, Enqueue, Postpone, ScanFails, Tick, Restart, JobFails, Slow,
         Fault, Spend, Counters
  <2> QED BY <2>1, <2>2 DEF CloserInv, Counters
<1>2. Series /\ NoneSlow /\ (spent["faults"] = 0 => OneJob)
  BY <1>1 DEF SeriesInv
<1>3. NoneSlow'
  BY <1>1, <1>2, NoneSlowStep
<1>4. ASSUME spent'["faults"] = 0 PROVE OneJob'
  <2>1. spent["faults"] = 0
    BY <1>1, <1>4
  <2> QED BY <1>1, <1>2, <1>4, <2>1, OneJobStep
<1>5. Series'
  <2>1. ASSUME NEW j \in Jobs, Work(j) PROVE Series'
    <3>1. CASE StoreFollowUp(j)
      BY <1>2, <3>1, StoreSeries
    <3>2. CASE ~StoreFollowUp(j)
      BY <1>2, <2>1, <3>2, WorkEffect, OnwardSeries
    <3> QED BY <3>1, <3>2
  <2>2. ASSUME NEW j \in Jobs PROVE ~Slow(j)
    <3>1. Slow(j) => spent'["slow"] = spent["slow"] + 1
      BY DEF Slow, Spend, CloserInv
    <3> QED BY <1>1, <3>1
  <2>3. CASE \/ ScanFails \/ Restart \/ \E j \in Jobs : JobFails(j)
    BY <1>2, <2>3, FaultSeries
  <2>4. CASE UNCHANGED vars
    <3>1. Onward
      BY <2>4 DEF vars, Onward, Nearing, Reads
    <3> QED BY <1>2, <3>1, OnwardSeries
  <2>5. CASE \/ ReceiveMessage \/ Answer \/ CloseDialog
             \/ PlanFollowUp \/ ArmFollowUp \/ WinDialog
             \/ ScanFinds \/ ScanChecks \/ Postpone
    BY <1>2, <2>5, OthersOnward, OnwardSeries
  <2>6. CASE StoreMessage
    BY <1>2, <2>6, MessageSeries
  <2>7. CASE ResetSchedule
    BY <1>2, <2>7, ResetSeries
  <2>8. CASE Enqueue
    BY <1>2, <2>8, EnqueueSeries
  <2>9. CASE Tick
    BY <1>2, <2>9, TickSeries
  <2>10. CASE RefuseMessage \/ MessageFails
    BY <1>2, <2>10, LostSeries
  <2> QED
    BY <2>1, <2>2, <2>3, <2>4, <2>5, <2>6, <2>7, <2>8, <2>9, <2>10 DEF Next, Visitor, Statement, Scan
<1> QED BY <1>3, <1>4, <1>5

LEMMA SeriesInit == Init => SeriesInv
<1> SUFFICES ASSUME Init PROVE Series /\ NoneSlow /\ OneJob
  BY DEF SeriesInv
<1>0. CloserInv
  BY InitCloser
<1>1. /\ \A j \in Jobs : job[j] = Free /\ job[j].pc = "free"
      /\ sent = 0 /\ dialog.next # 0 /\ cron = "idle"
  BY DEF Init, Free, Null
<1>2. Base \in Nat /\ Base >= 1
  BY <1>0, BaseSize
<1>3. Coming = {} /\ MayScan = 0
  BY <1>1 DEF Coming, JobsAt, InHand, MayScan
<1>4. sent + Cardinality(Coming) + MayScan <= Base
  BY <1>1, <1>2, <1>3, FS_EmptySet
<1>5. Series
  BY <1>4 DEF Within, Low, Series
<1>6. NoneSlow /\ OneJob
  BY <1>1 DEF NoneSlow, OneJob, Busy
<1> QED BY <1>5, <1>6

\* As long as no job takes longer than its minute, a silent visitor gets no more
\* than MaxAttempts follow-ups and one that was on its way when he wrote, as many
\* again for each message of his that is refused after it has reset the count,
\* and what each restart or error can add (the closer's maxAttempts).
THEOREM BoundedTheorem == Spec => []FollowUpsBounded
<1>1. CloserInv /\ SeriesInv => FollowUpsBounded
  <2> SUFFICES ASSUME CloserInv, Series PROVE sent <= MaxAttempts + 1 + Added
    <3>1. ASSUME CloserInv PROVE sent <= MaxAttempts + 1 + Added =>
             sent <= MaxAttempts + 1 + spent["refused"] * MaxAttempts + spent["faults"] * PerFault
      <4>1. PICK a \in Nat, b \in Nat :
               a = spent["refused"] * MaxAttempts /\ b = spent["faults"] * PerFault
        BY <3>1, Products, PerFaultSize DEF CloserInv, Counters
      <4>2. Added = a + b
        BY <4>1 DEF Added
      <4> QED BY <3>1, <4>1, <4>2, PerFaultSize DEF CloserInv
    <3> QED BY <3>1 DEF SeriesInv, FollowUpsBounded
  <2>1. sent + Cardinality(JobsAt(InHand)) <= Base + MaxAttempts
    BY SeriesBounded
  <2>2. Cardinality(JobsAt(InHand)) \in Nat /\ sent \in Nat /\ MaxAttempts \in Nat
    BY Sizes, PerFaultSize, SeriesTypes DEF JobsAt
  <2>3. Base = 1 + Added /\ Base \in Nat
    BY BaseSize
  <2>4. PICK a \in Int : a = Added
    <3>1. Base - 1 \in Int
      BY <2>3
    <3>2. spent["refused"] * MaxAttempts \in Nat /\ spent["faults"] * PerFault \in Nat
      BY Products, PerFaultSize DEF CloserInv, Counters
    <3> QED BY <3>2 DEF Added
  <2> QED BY <2>1, <2>2, <2>3, <2>4
<1>2. Init => SeriesInv
  BY SeriesInit
<1> QED BY <1>1, <1>2, SeriesStep, CloserSafe, PTL DEF Spec
=============================================================================
