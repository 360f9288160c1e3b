---------------------------- MODULE SystemUpdates ----------------------------
(***************************************************************************)
(* The deployment of updates: the administrator's requests, the worker of  *)
(* the queue system-updates, the one slot of Redis from which the host's   *)
(* agent takes its jobs, the agent with the scripts it runs, and the       *)
(* history of deployments.                                                 *)
(*                                                                         *)
(* What the host builds is the head of main, whatever version it was asked *)
(* for: the version is the label the API is started with.  How main gets   *)
(* there is not the program's (Push).                                      *)
(*                                                                         *)
(* The cron of the host starts an agent every minute and nothing keeps two *)
(* from overlapping.  A deployment restarts the API: requests and the      *)
(* worker's job are cut off, and calls of other agents are lost.           *)
(* Logs, reports of tests and the manifest's other fields are left out.    *)
(***************************************************************************)
EXTENDS Naturals, Sequences, FiniteSets

CONSTANTS
    Updates,       \* the rows SystemUpdate, by version
    FirstVersion,  \* what the host runs, and main holds, at the start
    Requests,      \* the administrators' requests at once
    Agents,        \* the agents of the host at once
    MaxRequests,   \* bound: requests and pushes to main
    Faults, MaxFaults

FaultKinds == {"restart", "lost", "failing"}
None == 0

ASSUME UpdatesAssumption == Updates \subseteq Nat \ {0} /\ FirstVersion \in Nat

ASSUME UpdatesBounds ==
    MaxRequests \in Nat /\ MaxFaults \in Nat /\ Faults \subseteq FaultKinds

VARIABLES
    status,     \* SystemUpdate.status
    snapshots,  \* updates with a backupSnapshotId
    request,    \* the administrators' requests
    job,        \* the jobs of the queue, by type and update (their id)
    slot,       \* release:host-job
    agent,      \* the agents of the host
    running,    \* APP_VERSION of the API's container, which /health reports
    code,       \* the version whose code the host has checked out and built
    main,       \* the version whose code is the head of origin/main
    records,    \* DeploymentRecord, in the order of appliedAt
    spent,      \* what is used up of each bound
    passed,     \* history: updates that have passed a staging test
    stranded    \* history: updates whose deployment was lost track of

vars == <<status, snapshots, request, job, slot, agent, running, code, main,
          records, spent, passed, stranded>>

Statuses == {"pending", "testing", "test_passed", "test_failed",
             "awaiting_approval", "deploying", "applied", "rolled_back"}

RequestPc == {"idle", "test", "addTest", "approve", "backup", "reread", "queue",
              "start", "deploying", "addRollback"}
Idle      == [pc |-> "idle", update |-> None, deploy |-> FALSE]

JobTypes == {"staging", "rollback"}
JobPc    == {"none", "waiting", "active", "queued", "held", "kept"}
NewJob   == [pc |-> "none", stalled |-> FALSE]

Types   == {"deploy", "rollback"}
NoJob   == [type |-> "none", update |-> None]
AgentPc == {"idle", "claimed", "building", "built", "recording", "verify",
            "complete", "finish", "failed", "rolled", "unrolled", "marking", "ending"}
Resting == [pc |-> "idle", type |-> "none", update |-> None, seen |-> 0]

Row == [version : Updates \cup {FirstVersion},
        status : {"active", "superseded", "rolled_back"}, seen : Nat]

TypeOK ==
    /\ status \in [Updates -> Statuses]
    /\ snapshots \subseteq Updates
    /\ request \in [Requests -> [pc : RequestPc, update : Updates \cup {None},
                                 deploy : BOOLEAN]]
    /\ \A r \in Requests : request[r].pc # "idle" => request[r].update \in Updates
    /\ job \in [JobTypes \X Updates -> [pc : JobPc, stalled : BOOLEAN]]
    /\ slot \in [type : Types, update : Updates \cup {None}] \cup {NoJob}
    /\ slot.type = "deploy" => slot.update \in Updates
    /\ agent \in [Agents -> [pc : AgentPc, type : Types \cup {"none"},
                             update : Updates \cup {None}, seen : Nat]]
    /\ \A a \in Agents : agent[a].type = "deploy" => agent[a].update \in Updates
    /\ {running, code, main} \subseteq Updates \cup {FirstVersion}
    /\ records \in Seq(Row)
    /\ spent \in [{"requests", "faults"} -> Nat]
    /\ passed \subseteq Updates
    /\ stranded \subseteq Updates

\* Some updates have passed their staging test.
Init ==
    /\ passed \in SUBSET Updates
    /\ status = [u \in Updates |-> IF u \in passed THEN "test_passed" ELSE "pending"]
    /\ snapshots = {}
    /\ request = [r \in Requests |-> Idle]
    /\ job = [k \in JobTypes \X Updates |->
                 IF k[1] = "staging" /\ k[2] \in passed
                 THEN [NewJob EXCEPT !.pc = "held"] ELSE NewJob]
    /\ slot = NoJob
    /\ agent = [a \in Agents |-> Resting]
    /\ running = FirstVersion /\ code = FirstVersion /\ main = FirstVersion
    /\ records = << >>
    /\ spent = [b \in {"requests", "faults"} |-> 0]
    /\ stranded = {}

-----------------------------------------------------------------------------
(* Shared steps *)

At(r, pc)      == request[r].pc = pc
Goto(r, pc)    == request' = [request EXCEPT ![r].pc = pc]
Leave(r)       == request' = [request EXCEPT ![r] = Idle]
AgentAt(a, pc) == agent[a].pc = pc
Step(a, pc)    == agent' = [agent EXCEPT ![a].pc = pc]
Rest(a)        == agent' = [agent EXCEPT ![a] = Resting]

SetStatus(u, s) == status' = [status EXCEPT ![u] = s]
Lose(us)        == stranded' = stranded \cup (us \ {None})

Fault(kind) ==
    /\ kind \in Faults /\ spent["faults"] < MaxFaults
    /\ spent' = [spent EXCEPT !["faults"] = spent["faults"] + 1]

\* HostDeployQueueService.queueJob: a SET of the one key, whatever is in it.
QueueJob(j) ==
    /\ slot' = j
    /\ Lose({slot.update} \ {j.update})

\* BullMQ's add: nothing happens while the queue holds the id.
AddJob(k) == job' = IF job[k].pc = "none" THEN [job EXCEPT ![k].pc = "waiting"] ELSE job

-----------------------------------------------------------------------------
(* The administrator's requests *)

Begin(r, u, pc, deploy) ==
    /\ At(r, "idle") /\ spent["requests"] < MaxRequests
    /\ spent' = [spent EXCEPT !["requests"] = spent["requests"] + 1]
    /\ request' = [request EXCEPT ![r] = [pc |-> pc, update |-> u, deploy |-> deploy]]

Testable(s)   == s \in {"pending", "test_failed"}
\* Mutant: only a failed test bars the approval.
ApprovableUntested(s) == s # "test_failed"
Approvable(s) == s \in {"test_passed", "awaiting_approval"}

\* The read of enqueueStagingTest; installUpdate comes here as well.
BeginTest(r, u) ==
    /\ Testable(status[u])
    /\ Begin(r, u, "test", FALSE)
    /\ UNCHANGED <<status, snapshots, job, slot, agent, running, code, main, records, passed,
                   stranded>>

MarkTesting(r) ==
    /\ At(r, "test")
    /\ SetStatus(request[r].update, "testing")
    /\ Goto(r, "addTest")
    /\ UNCHANGED <<snapshots, job, slot, agent, running, code, main, records, spent, passed,
                   stranded>>

AddTest(r) ==
    /\ At(r, "addTest")
    /\ AddJob(<<"staging", request[r].update>>)
    /\ Leave(r)
    /\ UNCHANGED <<status, snapshots, slot, agent, running, code, main, records, spent, passed,
                   stranded>>

\* The read of enqueueProductionDeploy, as a request of its own ...
BeginApproval(r, u) ==
    /\ Approvable(status[u])
    /\ Begin(r, u, "backup", FALSE)
    /\ UNCHANGED <<status, snapshots, job, slot, agent, running, code, main, records, passed,
                   stranded>>

\* ... and of executeHostDeploy, which approves what has passed its test;
\* installUpdate comes here as well.
BeginDeploy(r, u) ==
    /\ \/ status[u] = "test_passed" /\ Begin(r, u, "approve", TRUE)
       \/ status[u] = "awaiting_approval" /\ Begin(r, u, "queue", TRUE)
    /\ UNCHANGED <<status, snapshots, job, slot, agent, running, code, main, records, passed,
                   stranded>>

Approve(r) ==
    /\ At(r, "approve")
    /\ IF Approvable(status[request[r].update]) THEN Goto(r, "backup") ELSE Leave(r)
    /\ UNCHANGED <<status, snapshots, job, slot, agent, running, code, main, records, spent,
                   passed, stranded>>

\* The snapshot has been created; the row is updated.
WriteApproval(r) ==
    /\ At(r, "backup")
    /\ SetStatus(request[r].update, "awaiting_approval")
    /\ snapshots' = snapshots \cup {request[r].update}
    /\ IF request[r].deploy THEN Goto(r, "reread") ELSE Leave(r)
    /\ UNCHANGED <<job, slot, agent, running, code, main, records, spent, passed, stranded>>

Reread(r) ==
    /\ At(r, "reread")
    /\ IF status[request[r].update] = "awaiting_approval" THEN Goto(r, "queue") ELSE Leave(r)
    /\ UNCHANGED <<status, snapshots, job, slot, agent, running, code, main, records, spent,
                   passed, stranded>>

QueueDeploy(r) ==
    /\ At(r, "queue")
    /\ QueueJob([type |-> "deploy", update |-> request[r].update])
    /\ Goto(r, "start")
    /\ UNCHANGED <<status, snapshots, job, agent, running, code, main, records, spent, passed>>

\* startHostDeploy reads the row again, with the job queued already: a request
\* that is refused here is deployed all the same.
StartHostDeploy(r) ==
    /\ At(r, "start")
    /\ IF status[request[r].update] = "awaiting_approval" THEN Goto(r, "deploying") ELSE Leave(r)
    /\ UNCHANGED <<status, snapshots, job, slot, agent, running, code, main, records, spent,
                   passed, stranded>>

MarkDeploying(r) ==
    /\ At(r, "deploying")
    /\ SetStatus(request[r].update, "deploying")
    /\ Leave(r)
    /\ UNCHANGED <<snapshots, job, slot, agent, running, code, main, records, spent, passed,
                   stranded>>

\* enqueueRollback looks at no status.
BeginRollback(r, u) ==
    /\ Begin(r, u, "addRollback", FALSE)
    /\ SetStatus(u, "deploying")
    /\ UNCHANGED <<snapshots, job, slot, agent, running, code, main, records, passed, stranded>>

AddRollback(r) ==
    LET u == request[r].update IN
    /\ At(r, "addRollback")
    /\ AddJob(<<"rollback", u>>)
    /\ Lose(IF job[<<"rollback", u>>].pc \in {"held", "kept"} THEN {u} ELSE {})
    /\ Leave(r)
    /\ UNCHANGED <<status, snapshots, slot, agent, running, code, main, records, spent, passed>>

\* ReleaseController.rollbackToVersion: a rollback that belongs to no update.
RollbackVersion ==
    /\ spent["requests"] < MaxRequests
    /\ spent' = [spent EXCEPT !["requests"] = spent["requests"] + 1]
    /\ Len(records) > 0
    /\ QueueJob([type |-> "rollback", update |-> None])
    /\ UNCHANGED <<status, snapshots, request, job, agent, running, code, main, records, passed>>

\* The backup fails, or Postgres or Redis refuse what the request asks next.
RequestFails(r) ==
    /\ ~At(r, "idle")
    /\ Fault("failing")
    /\ Lose(IF At(r, "addRollback") THEN {request[r].update} ELSE {})
    /\ Leave(r)
    /\ UNCHANGED <<status, snapshots, job, slot, agent, running, code, main, records, passed>>

-----------------------------------------------------------------------------
(* The worker: one job at a time *)

InWork(k)  == job[k].pc \in {"active", "queued"}
WorkerFree == \A k \in JobTypes \X Updates : ~InWork(k)

StartTest(u) ==
    /\ job[<<"staging", u>>].pc = "waiting" /\ WorkerFree
    /\ job' = [job EXCEPT ![<<"staging", u>>].pc = "active"]
    /\ UNCHANGED <<status, snapshots, request, slot, agent, running, code, main, records, spent,
                   passed, stranded>>

FinishTest(u) ==
    /\ job[<<"staging", u>>].pc = "active"
    /\ \E ok \in BOOLEAN :
          /\ SetStatus(u, IF ok THEN "test_passed" ELSE "test_failed")
          /\ passed' = IF ok THEN passed \cup {u} ELSE passed
    /\ job' = [job EXCEPT ![<<"staging", u>>].pc = "held"]
    /\ UNCHANGED <<snapshots, request, slot, agent, running, code, main, records, spent,
                   stranded>>

\* runRollback: the host's job first, then the row.
StartRollback(u) ==
    /\ job[<<"rollback", u>>].pc = "waiting" /\ WorkerFree
    /\ QueueJob([type |-> "rollback", update |-> u])
    /\ job' = [job EXCEPT ![<<"rollback", u>>].pc = "queued"]
    /\ UNCHANGED <<status, snapshots, request, agent, running, code, main, records, spent,
                   passed>>

EndRollback(u) ==
    /\ job[<<"rollback", u>>].pc = "queued"
    /\ SetStatus(u, "deploying")
    /\ job' = [job EXCEPT ![<<"rollback", u>>].pc = "held"]
    /\ UNCHANGED <<snapshots, request, slot, agent, running, code, main, records, spent, passed,
                   stranded>>

\* One attempt: a job that throws has failed, and its id stays; that of a
\* rollback for ever (no removeOnFail).
Failed(k) == IF k[1] = "staging" THEN "held" ELSE "kept"

JobFails(k) ==
    /\ InWork(k) \/ (job[k].pc = "waiting" /\ WorkerFree)
    /\ Fault("failing")
    /\ job' = [job EXCEPT ![k].pc = Failed(k)]
    /\ Lose(IF k[1] = "rollback" /\ ~InWork(k) THEN {k[2]} ELSE {})
    /\ UNCHANGED <<status, snapshots, request, slot, agent, running, code, main, records, passed>>

\* removeOnComplete: fifty later jobs of the queue have been done.
ForgetJob(k) ==
    /\ job[k].pc = "held"
    /\ job' = [job EXCEPT ![k] = NewJob]
    /\ UNCHANGED <<status, snapshots, request, slot, agent, running, code, main, records, spent,
                   passed, stranded>>

-----------------------------------------------------------------------------
(* The API restarts: what its handlers were doing is lost *)

\* A job whose worker died is started once more, and failed the second time.
Stalled(k) ==
    IF ~InWork(k) THEN job[k]
    ELSE [pc |-> IF job[k].stalled THEN Failed(k) ELSE "waiting", stalled |-> TRUE]

\* The host goes on when its call of the API breaks off (|| true, || warn).
CutOff(w) ==
    CASE w.pc = "recording"             -> [w EXCEPT !.pc = "verify"]
      [] w.pc \in {"marking", "ending"} -> Resting
      [] OTHER                          -> w

RestartApi(self) ==
    /\ request' = [r \in Requests |-> Idle]
    /\ job' = [k \in JobTypes \X Updates |-> Stalled(k)]
    /\ agent' = [a \in Agents |-> IF a \in DOMAIN self THEN self[a] ELSE CutOff(agent[a])]
    /\ Lose({request[r].update : r \in {q \in Requests : At(q, "addRollback")}}
            \cup {agent[a].update : a \in {b \in Agents : agent[b].pc \in {"marking", "ending"}}})

Restart ==
    /\ Fault("restart")
    /\ RestartApi(<< >>)
    /\ UNCHANGED <<status, snapshots, slot, running, code, main, records, passed>>

-----------------------------------------------------------------------------
(* The agent of the host and its scripts *)

Now(a, pc) == [b \in {a} |-> [agent[a] EXCEPT !.pc = pc]]

\* GETDEL of the slot
Claim(a) ==
    /\ AgentAt(a, "idle") /\ slot # NoJob
    /\ agent' = [agent EXCEPT ![a] = [pc |-> "claimed", type |-> slot.type,
                                      update |-> slot.update, seen |-> 0]]
    /\ slot' = NoJob
    /\ UNCHANGED <<status, snapshots, request, job, running, code, main, records, spent, passed,
                   stranded>>

ClaimLost ==
    /\ slot # NoJob
    /\ Fault("lost")
    /\ Lose({slot.update})
    /\ slot' = NoJob
    /\ UNCHANGED <<status, snapshots, request, job, agent, running, code, main, records, passed>>

\* release-deploy.sh: neither what runs nor the last sprint that SPRINTS.md of
\* the code checked out calls done is newer than what is to be deployed
CheckDeploy(a) ==
    /\ AgentAt(a, "claimed") /\ agent[a].type = "deploy"
    /\ Step(a, IF running > agent[a].update \/ code > agent[a].update
               THEN "failed" ELSE "building")
    /\ UNCHANGED <<status, snapshots, request, job, slot, running, code, main, records, spent,
                   passed, stranded>>

DeployFails(a) ==
    /\ AgentAt(a, "claimed") /\ agent[a].type = "deploy"
    /\ Step(a, "failed")
    /\ UNCHANGED <<status, snapshots, request, job, slot, running, code, main, records, spent,
                   passed, stranded>>

\* The API is started again, under the name of the version asked for.
ReplaceApi(a, pc) ==
    /\ running' = agent[a].update
    /\ RestartApi(Now(a, pc))
KeepApi(a, pc) ==
    /\ Step(a, pc)
    /\ UNCHANGED <<running, request, job, stranded>>

\* fast-update.sh takes the head of main and builds what has changed since the
\* last time: the API may be among it or not, and nothing to do is a success.
Build(a) ==
    /\ AgentAt(a, "building")
    /\ code' = main
    /\ ReplaceApi(a, "built") \/ KeepApi(a, "built")
    /\ UNCHANGED <<status, snapshots, slot, main, records, spent, passed>>

\* It fails before it has the code, or after it, or after the API was replaced.
BuildFails(a) ==
    /\ AgentAt(a, "building")
    /\ \/ KeepApi(a, "failed") /\ code' \in {code, main}
       \/ ReplaceApi(a, "failed") /\ code' = main
    /\ UNCHANGED <<status, snapshots, slot, main, records, spent, passed>>

\* Mutant: the records before are left active.
SupersedeNone(a) ==
    /\ AgentAt(a, "built")
    /\ agent' = [agent EXCEPT ![a].pc = "recording", ![a].seen = Len(records)]
    /\ UNCHANGED <<status, snapshots, request, job, slot, running, code, main, records, spent,
                   passed, stranded>>

\* POST /sync: recordDeployment's updateMany, and its create; the version it
\* records is the one the API was started with (getCurrent), not the one sent.
Supersede(a) ==
    /\ AgentAt(a, "built")
    /\ records' = [i \in 1..Len(records) |->
                      IF records[i].status = "active"
                      THEN [records[i] EXCEPT !.status = "superseded"] ELSE records[i]]
    /\ agent' = [agent EXCEPT ![a].pc = "recording", ![a].seen = Len(records)]
    /\ UNCHANGED <<status, snapshots, request, job, slot, running, code, main, spent, passed,
                   stranded>>

Record(a) ==
    /\ AgentAt(a, "recording")
    /\ records' = Append(records, [version |-> running, status |-> "active",
                                   seen |-> agent[a].seen])
    /\ Step(a, "verify")
    /\ UNCHANGED <<status, snapshots, request, job, slot, running, code, main, spent, passed,
                   stranded>>

SyncLost(a) ==
    /\ agent[a].pc \in {"built", "recording"}
    /\ Fault("lost")
    /\ Step(a, "verify")
    /\ UNCHANGED <<status, snapshots, request, job, slot, running, code, main, records, passed,
                   stranded>>

\* verify-release.sh post: what runs calls itself the version asked for.
Verify(a) ==
    /\ AgentAt(a, "verify")
    /\ \/ running = agent[a].update /\ Step(a, "complete")
       \/ Step(a, "failed")
    /\ UNCHANGED <<status, snapshots, request, job, slot, running, code, main, records, spent,
                   passed, stranded>>

\* POST /complete, which the script sends, and /host-job/finished, which the
\* agent sends after it: completeHostDeploy twice, whatever the status is.
Complete(a) ==
    /\ AgentAt(a, "complete")
    /\ SetStatus(agent[a].update, "applied")
    /\ Step(a, "finish")
    /\ UNCHANGED <<snapshots, request, job, slot, running, code, main, records, spent, passed,
                   stranded>>

\* Somebody queued the job and has yet to write that u is being deployed.
Unwritten(u) ==
    \/ job[<<"rollback", u>>].pc = "queued"
    \/ \E r \in Requests : request[r].update = u /\ request[r].pc \in {"start", "deploying"}

Ended(u) == Lose(IF u # None /\ Unwritten(u) THEN {u} ELSE {})

Finish(a) ==
    /\ AgentAt(a, "finish")
    /\ SetStatus(agent[a].update, "applied")
    /\ Ended(agent[a].update)
    /\ Rest(a)
    /\ UNCHANGED <<snapshots, request, job, slot, running, code, main, records, spent, passed>>

\* Mutant: a failed deployment is not reported, as a failed rollback is not.
FinishFailedUnreported(a) ==
    /\ AgentAt(a, "failed") /\ agent[a].type = "deploy"
    /\ Ended(agent[a].update)
    /\ Rest(a)
    /\ UNCHANGED <<status, snapshots, request, job, slot, running, code, main, records, spent,
                   passed>>

FinishFailed(a) ==
    /\ AgentAt(a, "failed") /\ agent[a].type = "deploy"
    /\ SetStatus(agent[a].update, "rolled_back")
    /\ Ended(agent[a].update)
    /\ Rest(a)
    /\ UNCHANGED <<snapshots, request, job, slot, running, code, main, records, spent, passed>>

\* release-rollback.sh: the version is the one asked for, or the manifest's
\* previous one.  With a tag it checks the tag out and starts deploy-update.sh,
\* which takes the head of main and replaces the API, and may fail before that
\* or after; without a tag it builds nothing, so that the check of the version
\* that follows passes only when it runs already.  Its call of /sync is refused
\* (rolledBackAt is not in the DTO).
Rollback(a) ==
    /\ AgentAt(a, "claimed") /\ agent[a].type = "rollback"
    /\ \/ /\ running' \in Updates \cup {FirstVersion}
          /\ code' = main
          /\ \E pc \in {"rolled", "unrolled"} : RestartApi(Now(a, pc))
       \/ KeepApi(a, "unrolled") /\ code' \in {code, main}
       \/ KeepApi(a, "rolled") /\ code' = main
    /\ UNCHANGED <<status, snapshots, slot, main, records, spent, passed>>

Active == {i \in 1..Len(records) : records[i].status = "active"}

\* finishHostJob: getActive, markRolledBack, completeHostDeploy
ReadActive(a) ==
    /\ AgentAt(a, "rolled")
    /\ agent' = [agent EXCEPT ![a].pc = IF Active = {} THEN "ending" ELSE "marking",
                              ![a].seen = IF Active = {} THEN 0
                                          ELSE CHOOSE i \in Active : \A j \in Active : j <= i]
    /\ UNCHANGED <<status, snapshots, request, job, slot, running, code, main, records, spent,
                   passed, stranded>>

MarkRolledBack(a) ==
    /\ AgentAt(a, "marking")
    /\ records' = [i \in 1..Len(records) |->
                      IF i \in Active /\ records[i].version = records[agent[a].seen].version
                      THEN [records[i] EXCEPT !.status = "rolled_back"] ELSE records[i]]
    /\ Step(a, "ending")
    /\ UNCHANGED <<status, snapshots, request, job, slot, running, code, main, spent, passed,
                   stranded>>

FinishRollback(a) ==
    LET u == agent[a].update IN
    /\ AgentAt(a, "ending")
    /\ IF u = None THEN UNCHANGED status ELSE SetStatus(u, "rolled_back")
    /\ Ended(u)
    /\ Rest(a)
    /\ UNCHANGED <<snapshots, request, job, slot, running, code, main, records, spent, passed>>

\* Nothing is done about a rollback that failed: the update stays deploying.
FinishUnrolled(a) ==
    /\ AgentAt(a, "unrolled")
    /\ Lose({agent[a].update})
    /\ Rest(a)
    /\ UNCHANGED <<status, snapshots, request, job, slot, running, code, main, records, spent,
                   passed>>

\* The call of /complete or /host-job/finished is lost; the scripts go on.
CallLost(a) ==
    /\ agent[a].pc \in {"complete", "finish", "failed", "rolled", "marking", "ending"}
    /\ Fault("lost")
    /\ IF AgentAt(a, "complete") THEN Step(a, "finish") /\ UNCHANGED stranded
       ELSE Rest(a) /\ Lose({agent[a].update})
    /\ UNCHANGED <<status, snapshots, request, job, slot, running, code, main, records, passed>>

-----------------------------------------------------------------------------

\* The developers' part: main moves on to the code of a newer version.
Push ==
    /\ spent["requests"] < MaxRequests
    /\ spent' = [spent EXCEPT !["requests"] = spent["requests"] + 1]
    /\ main' \in {u \in Updates : u > main}
    /\ UNCHANGED <<status, snapshots, request, job, slot, agent, running, code, records,
                   passed, stranded>>

RequestStep(r) ==
    \/ \E u \in Updates : BeginTest(r, u) \/ BeginApproval(r, u) \/ BeginDeploy(r, u)
                          \/ BeginRollback(r, u)
    \/ MarkTesting(r) \/ AddTest(r)
    \/ Approve(r) \/ WriteApproval(r) \/ Reread(r)
    \/ QueueDeploy(r) \/ StartHostDeploy(r) \/ MarkDeploying(r)
    \/ AddRollback(r) \/ RequestFails(r)

WorkerStep ==
    \/ \E u \in Updates : StartTest(u) \/ FinishTest(u) \/ StartRollback(u) \/ EndRollback(u)
    \/ \E k \in JobTypes \X Updates : JobFails(k) \/ ForgetJob(k)

AgentStep(a) ==
    \/ Claim(a) \/ CheckDeploy(a) \/ DeployFails(a) \/ Build(a) \/ BuildFails(a)
    \/ Supersede(a) \/ Record(a) \/ SyncLost(a) \/ Verify(a)
    \/ Complete(a) \/ Finish(a) \/ FinishFailed(a)
    \/ Rollback(a) \/ ReadActive(a) \/ MarkRolledBack(a)
    \/ FinishRollback(a) \/ FinishUnrolled(a) \/ CallLost(a)

Next ==
    \/ \E r \in Requests : RequestStep(r)
    \/ RollbackVersion
    \/ WorkerStep
    \/ \E a \in Agents : AgentStep(a)
    \/ ClaimLost \/ Restart \/ Push

Spec == Init /\ [][Next]_vars

-----------------------------------------------------------------------------

\* The host is given, and an agent deploys, only an update whose row says that
\* its mandatory staging test has passed and has a restore point "before it is
\* applied" (MASTER 14.2), whatever requests, retries and agents overlap.  It is
\* said of the row: the test looks at the server that runs, and what is built is
\* the head of main (TestedCodeIsBuilt).
HostJobsAreTested ==
    /\ slot.type = "deploy" => slot.update \in passed \cap snapshots
    /\ \A a \in Agents : agent[a].type = "deploy" => agent[a].update \in passed \cap snapshots

\* Deploying is a state that somebody ends: the job is in the slot, with an
\* agent, or about to be queued.  The exceptions are what stranded records: a
\* job that another one overwrote in the slot, an agent that was done before
\* deploying was written, a rollback that failed or whose id was held, and
\* calls and handlers that were lost.
Attended(u) ==
    \/ slot.update = u
    \/ \E a \in Agents : agent[a].update = u
    \/ job[<<"rollback", u>>].pc \in {"waiting", "queued"}
    \/ \E r \in Requests : At(r, "addRollback") /\ request[r].update = u
DeployingIsAttended ==
    \A u \in Updates : status[u] = "deploying" => Attended(u) \/ u \in stranded

\* One version is the deployed one: of two active records neither was there when
\* the other one's deployment put the earlier ones aside, so agents overlapped.
ActiveIsRace ==
    \A i, k \in Active : i < k => records[k].seen < i

\* "Deployment failed, rolled back", says the log, and RELEASE.md that an error
\* rolls back: a version whose deployment is reported as failed does not run.
FailedIsRolledBack ==
    [][\A a \in Agents :
          AgentAt(a, "failed") /\ agent'[a].pc = "idle" => running # agent[a].update]_vars

\* The staging test, mandatory, is of a deployment of the new version (MASTER
\* 14.2): what a deployment that succeeds has built is code that passed its test.
TestedCodeIsBuilt ==
    \A a \in Agents : AgentAt(a, "complete") => code \in passed \cup {FirstVersion}

\* "Host-agent will execute it": a job of the host is taken out of the queue by
\* an agent, not by the next job.
QueuedIsTaken == [][slot # NoJob /\ slot' # slot => slot' = NoJob]_vars
=============================================================================
