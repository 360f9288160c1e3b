------------------------- MODULE SystemUpdatesProofs -------------------------
(***************************************************************************)
(* Proofs about SystemUpdates for every set of updates, administrators'    *)
(* requests and agents of the host, and every number of requests and       *)
(* faults.                                                                 *)
(***************************************************************************)
EXTENDS SystemUpdates, SequenceTheorems, WellFoundedInduction, TLAPS

\* The steps of an agent that only a deployment takes.
Deploying == {"building", "built", "recording", "verify", "complete", "finish", "failed"}

\* The types, and what a step says of the job: a deployment goes through the
\* deployment's steps, and a rollback is never run as a test.
UpdatesInv ==
    /\ TypeOK
    /\ \A a \in Agents : agent[a].pc \in Deploying => agent[a].type = "deploy"
    /\ \A u \in Updates : job[<<"rollback", u>>].pc # "active"

-----------------------------------------------------------------------------
(* Pieces of steps *)

LEMMA SpentStep ==
    ASSUME TypeOK, NEW b \in {"requests", "faults"}, spent' = [spent EXCEPT ![b] = spent[b] + 1]
    PROVE  spent' \in [{"requests", "faults"} -> Nat]
  BY DEF TypeOK

JobRows == [JobTypes \X Updates -> [pc : JobPc, stalled : BOOLEAN]]

\* One job moves, the others stay.
LEMMA JobMoves ==
    ASSUME job \in JobRows, NEW k \in JobTypes \X Updates, NEW pc \in JobPc,
           job' = [job EXCEPT ![k].pc = pc]
    PROVE  /\ job' \in JobRows
           /\ job'[k].pc = pc
           /\ \A l \in JobTypes \X Updates : l # k => job'[l] = job[l]
<1>1. job' = [l \in JobTypes \X Updates |-> IF l = k THEN [job[k] EXCEPT !.pc = pc] ELSE job[l]]
  BY DEF JobRows
<1>2. [job[k] EXCEPT !.pc = pc] \in [pc : JobPc, stalled : BOOLEAN]
  BY DEF JobRows
<1> QED BY <1>1, <1>2 DEF JobRows

\* A request is somewhere else, or has ended.
LEMMA RequestTypes ==
    ASSUME TypeOK, NEW r \in Requests,
           \/ \E pc \in RequestPc : ~At(r, "idle") /\ Goto(r, pc)
           \/ Leave(r)
           \/ \E u \in Updates, pc \in RequestPc, deploy \in BOOLEAN :
                 request' = [request EXCEPT ![r] = [pc |-> pc, update |-> u, deploy |-> deploy]]
    PROVE  /\ request' \in [Requests -> [pc : RequestPc, update : Updates \cup {None},
                                         deploy : BOOLEAN]]
           /\ \A q \in Requests : request'[q].pc # "idle" => request'[q].update \in Updates
<1>1. CASE \E pc \in RequestPc : ~At(r, "idle") /\ Goto(r, pc)
  BY <1>1 DEF TypeOK, Goto, At
<1>2. CASE Leave(r)
  BY <1>2 DEF TypeOK, Leave, Idle, RequestPc
<1>3. CASE \E u \in Updates, pc \in RequestPc, deploy \in BOOLEAN :
              request' = [request EXCEPT ![r] = [pc |-> pc, update |-> u, deploy |-> deploy]]
  BY <1>3 DEF TypeOK
<1> QED BY <1>1, <1>2, <1>3

\* A request keeps its update until it ends.
LEMMA RequestUpdate ==
    ASSUME TypeOK, NEW r \in Requests, ~At(r, "idle")
    PROVE  request[r].update \in Updates
  BY DEF TypeOK, At

LEMMA RequestInv == ASSUME UpdatesInv, NEW r \in Requests, RequestStep(r) PROVE UpdatesInv'
<1> USE DEF UpdatesInv
<1>1. ASSUME NEW u \in Updates,
             BeginTest(r, u) \/ BeginApproval(r, u) \/ BeginDeploy(r, u) \/ BeginRollback(r, u)
      PROVE  UpdatesInv'
  <2>1. /\ request' \in [Requests -> [pc : RequestPc, update : Updates \cup {None},
                                      deploy : BOOLEAN]]
        /\ \A q \in Requests : request'[q].pc # "idle" => request'[q].update \in Updates
    BY <1>1, RequestTypes DEF BeginTest, BeginApproval, BeginDeploy, BeginRollback, Begin,
                              RequestPc
  <2>2. spent' \in [{"requests", "faults"} -> Nat]
    BY <1>1, SpentStep DEF BeginTest, BeginApproval, BeginDeploy, BeginRollback, Begin
  <2>3. status' \in [Updates -> Statuses]
    BY <1>1 DEF BeginTest, BeginApproval, BeginDeploy, BeginRollback, SetStatus, TypeOK, Statuses
  <2>4. UNCHANGED <<snapshots, job, slot, agent, running, code, main, records, passed, stranded>>
    BY <1>1 DEF BeginTest, BeginApproval, BeginDeploy, BeginRollback
  <2> QED BY <2>1, <2>2, <2>3, <2>4 DEF TypeOK
<1>2. CASE MarkTesting(r) \/ Approve(r) \/ WriteApproval(r) \/ Reread(r) \/ StartHostDeploy(r)
           \/ MarkDeploying(r)
  <2>0. request[r].update \in Updates
    BY <1>2, RequestUpdate DEF MarkTesting, Approve, WriteApproval, Reread, StartHostDeploy,
                               MarkDeploying, At
  <2>1. /\ request' \in [Requests -> [pc : RequestPc, update : Updates \cup {None},
                                      deploy : BOOLEAN]]
        /\ \A q \in Requests : request'[q].pc # "idle" => request'[q].update \in Updates
    BY <1>2, RequestTypes DEF MarkTesting, Approve, WriteApproval, Reread, StartHostDeploy,
                              MarkDeploying, At, RequestPc
  <2>2. status' \in [Updates -> Statuses]
    BY <1>2 DEF MarkTesting, Approve, WriteApproval, Reread, StartHostDeploy, MarkDeploying,
                SetStatus, TypeOK, Statuses
  <2>3. snapshots' \subseteq Updates
    BY <1>2, <2>0 DEF MarkTesting, Approve, WriteApproval, Reread, StartHostDeploy, MarkDeploying,
                      TypeOK
  <2>4. UNCHANGED <<job, slot, agent, running, code, main, records, spent, passed, stranded>>
    BY <1>2 DEF MarkTesting, Approve, WriteApproval, Reread, StartHostDeploy, MarkDeploying
  <2> QED BY <2>1, <2>2, <2>3, <2>4 DEF TypeOK
<1>3. CASE AddTest(r) \/ AddRollback(r) \/ QueueDeploy(r) \/ RequestFails(r)
  <2>0. request[r].update \in Updates
    BY <1>3, RequestUpdate DEF AddTest, AddRollback, QueueDeploy, RequestFails, At
  <2>1. /\ request' \in [Requests -> [pc : RequestPc, update : Updates \cup {None},
                                      deploy : BOOLEAN]]
        /\ \A q \in Requests : request'[q].pc # "idle" => request'[q].update \in Updates
    BY <1>3, RequestTypes DEF AddTest, AddRollback, QueueDeploy, RequestFails, At, RequestPc
  <2>2. /\ job' \in [JobTypes \X Updates -> [pc : JobPc, stalled : BOOLEAN]]
        /\ \A u \in Updates : job'[<<"rollback", u>>].pc # "active"
    <3>1. job' = job \/ \E k \in JobTypes \X Updates : job' = [job EXCEPT ![k].pc = "waiting"]
      BY <1>3, <2>0 DEF AddTest, AddRollback, QueueDeploy, RequestFails, AddJob, JobTypes
    <3>2. job \in JobRows /\ "waiting" \in JobPc
      BY DEF TypeOK, JobRows, JobPc
    <3>3. \A u \in Updates : <<"rollback", u>> \in JobTypes \X Updates
      BY DEF JobTypes
    <3> QED BY <3>1, <3>2, <3>3, JobMoves DEF JobRows
  <2>3. /\ slot' \in [type : Types, update : Updates \cup {None}] \cup {NoJob}
        /\ slot'.type = "deploy" => slot'.update \in Updates
    BY <1>3, <2>0 DEF AddTest, AddRollback, QueueDeploy, RequestFails, QueueJob, TypeOK, Types
  <2>4. stranded' \subseteq Updates
    BY <1>3, <2>0 DEF AddTest, AddRollback, QueueDeploy, RequestFails, QueueJob, Lose, TypeOK,
                      NoJob
  <2>5. spent' \in [{"requests", "faults"} -> Nat]
    BY <1>3, SpentStep DEF AddTest, AddRollback, QueueDeploy, RequestFails, Fault, TypeOK
  <2>6. UNCHANGED <<status, snapshots, agent, running, code, main, records, passed>>
    BY <1>3 DEF AddTest, AddRollback, QueueDeploy, RequestFails
  <2> QED BY <2>1, <2>2, <2>3, <2>4, <2>5, <2>6 DEF TypeOK
<1> QED BY <1>1, <1>2, <1>3 DEF RequestStep

\* The worker's job goes on: a test, a rollback, a failure, a forgotten row.
LEMMA WorkerInv == ASSUME UpdatesInv, WorkerStep PROVE UpdatesInv'
<1> USE DEF UpdatesInv
<1>0. job \in JobRows /\ JobPc = {"none", "waiting", "active", "queued", "held", "kept"}
  BY DEF TypeOK, JobRows, JobPc
<1>1. ASSUME NEW u \in Updates, StartTest(u) \/ FinishTest(u) PROVE UpdatesInv'
  <2>1. PICK pc \in {"active", "held"} : job' = [job EXCEPT ![<<"staging", u>>].pc = pc]
    BY <1>1 DEF StartTest, FinishTest
  <2>0. /\ <<"staging", u>> \in JobTypes \X Updates /\ pc \in JobPc
        /\ \A v \in Updates : <<"rollback", v>> \in JobTypes \X Updates
    BY <1>0 DEF JobTypes
  <2>2. job' \in JobRows /\ \A v \in Updates : job'[<<"rollback", v>>] = job[<<"rollback", v>>]
    BY <1>0, <2>0, <2>1, JobMoves
  <2>3. status' \in [Updates -> Statuses] /\ passed' \subseteq Updates
    BY <1>1 DEF StartTest, FinishTest, SetStatus, TypeOK, Statuses
  <2>4. UNCHANGED <<snapshots, request, slot, agent, running, code, main, records, spent,
                    stranded>>
    BY <1>1 DEF StartTest, FinishTest
  <2> QED BY <2>2, <2>3, <2>4 DEF TypeOK, JobRows
<1>2. ASSUME NEW u \in Updates, StartRollback(u) \/ EndRollback(u) PROVE UpdatesInv'
  <2>1. PICK pc \in {"queued", "held"} : job' = [job EXCEPT ![<<"rollback", u>>].pc = pc]
    BY <1>2 DEF StartRollback, EndRollback
  <2>0. /\ <<"rollback", u>> \in JobTypes \X Updates /\ pc \in JobPc
        /\ \A v \in Updates : <<"rollback", v>> \in JobTypes \X Updates
    BY <1>0 DEF JobTypes
  <2>2. job' \in JobRows /\ \A v \in Updates : job'[<<"rollback", v>>].pc # "active"
    <3>1. /\ job' \in JobRows /\ job'[<<"rollback", u>>].pc = pc
          /\ \A l \in JobTypes \X Updates : l # <<"rollback", u>> => job'[l] = job[l]
      BY <1>0, <2>0, <2>1, JobMoves
    <3> QED BY <2>0, <3>1
  <2>3. /\ status' \in [Updates -> Statuses]
        /\ slot' \in [type : Types, update : Updates \cup {None}] \cup {NoJob}
        /\ slot'.type = "deploy" => slot'.update \in Updates
        /\ stranded' \subseteq Updates
    <3>1. CASE StartRollback(u)
      BY <3>1 DEF StartRollback, QueueJob, Lose, TypeOK, Types, NoJob
    <3>2. CASE EndRollback(u)
      BY <3>2 DEF EndRollback, SetStatus, TypeOK, Statuses
    <3> QED BY <1>2, <3>1, <3>2
  <2>4. UNCHANGED <<snapshots, request, agent, running, code, main, records, spent, passed>>
    BY <1>2 DEF StartRollback, EndRollback
  <2> QED BY <2>2, <2>3, <2>4 DEF TypeOK, JobRows
<1>3. ASSUME NEW k \in JobTypes \X Updates, JobFails(k) PROVE UpdatesInv'
  <2>1. Failed(k) \in {"held", "kept"} /\ job' = [job EXCEPT ![k].pc = Failed(k)]
    BY <1>3 DEF JobFails, Failed
  <2>0. Failed(k) \in JobPc /\ \A v \in Updates : <<"rollback", v>> \in JobTypes \X Updates
    BY <1>0, <2>1 DEF JobTypes
  <2>2. job' \in JobRows /\ \A v \in Updates : job'[<<"rollback", v>>].pc # "active"
    <3>1. /\ job' \in JobRows /\ job'[k].pc = Failed(k)
          /\ \A l \in JobTypes \X Updates : l # k => job'[l] = job[l]
      BY <1>0, <2>0, <2>1, JobMoves
    <3> QED BY <2>0, <2>1, <3>1
  <2>3. spent' \in [{"requests", "faults"} -> Nat] /\ stranded' \subseteq Updates
    BY <1>3, SpentStep DEF JobFails, Fault, Lose, TypeOK
  <2>4. UNCHANGED <<status, snapshots, request, slot, agent, running, code, main, records,
                    passed>>
    BY <1>3 DEF JobFails
  <2> QED BY <2>2, <2>3, <2>4 DEF TypeOK, JobRows
<1>4. ASSUME NEW k \in JobTypes \X Updates, ForgetJob(k) PROVE UpdatesInv'
  <2>1. job' \in JobRows /\ \A v \in Updates : job'[<<"rollback", v>>].pc # "active"
    BY <1>0, <1>4 DEF ForgetJob, JobRows, NewJob, JobTypes
  <2>2. UNCHANGED <<status, snapshots, request, slot, agent, running, code, main, records,
                    spent, passed, stranded>>
    BY <1>4 DEF ForgetJob
  <2> QED BY <2>1, <2>2 DEF TypeOK, JobRows
<1> QED BY <1>1, <1>2, <1>3, <1>4 DEF WorkerStep

\* A restart of the API moves agents only as the host goes on, and no job comes
\* into an agent that had none.
LEMMA RestartTypes ==
    ASSUME UpdatesInv, NEW self, RestartApi(self),
           \/ self = << >>
           \/ \E a \in Agents, pc \in AgentPc :
                 self = Now(a, pc) /\ (pc \in Deploying => agent[a].type = "deploy")
    PROVE  /\ request' = [r \in Requests |-> Idle]
           /\ job' \in JobRows
           /\ \A u \in Updates : job'[<<"rollback", u>>].pc # "active"
           /\ agent' \in [Agents -> [pc : AgentPc, type : Types \cup {"none"},
                                     update : Updates \cup {None}, seen : Nat]]
           /\ \A a \in Agents : /\ agent'[a].type = "deploy" => agent'[a].update \in Updates
                                /\ agent'[a].pc \in Deploying => agent'[a].type = "deploy"
           /\ stranded' \subseteq Updates
<1> USE DEF UpdatesInv
<1>1. request' = [r \in Requests |-> Idle]
  BY DEF RestartApi
<1>2. job' \in JobRows /\ \A u \in Updates : job'[<<"rollback", u>>].pc # "active"
  <2>1. \A k \in JobTypes \X Updates : /\ Stalled(k) \in [pc : JobPc, stalled : BOOLEAN]
                                       /\ Stalled(k).pc \in {"active", "queued"} => FALSE
    BY DEF Stalled, InWork, TypeOK, JobPc, Failed
  <2> QED BY <2>1 DEF RestartApi, JobRows, JobTypes
<1>3. ASSUME NEW a \in Agents
      PROVE  /\ agent'[a] \in [pc : AgentPc, type : Types \cup {"none"},
                               update : Updates \cup {None}, seen : Nat]
             /\ agent'[a].type = "deploy" => agent'[a].update \in Updates
             /\ agent'[a].pc \in Deploying => agent'[a].type = "deploy"
  <2>1. agent[a] \in [pc : AgentPc, type : Types \cup {"none"},
                      update : Updates \cup {None}, seen : Nat]
    BY DEF TypeOK
  <2>2. CASE agent'[a] = CutOff(agent[a])
    BY <2>1, <2>2 DEF TypeOK, CutOff, Resting, AgentPc, Deploying, None
  <2>3. CASE \E pc \in AgentPc : /\ agent'[a] = [agent[a] EXCEPT !.pc = pc]
                                 /\ pc \in Deploying => agent[a].type = "deploy"
    BY <2>1, <2>3 DEF TypeOK
  <2>4. CASE self = << >>
    BY <2>2, <2>4 DEF RestartApi
  <2>5. ASSUME NEW b \in Agents, NEW pc \in AgentPc, self = Now(b, pc),
               pc \in Deploying => agent[b].type = "deploy"
        PROVE  \/ agent'[a] = CutOff(agent[a])
               \/ /\ agent'[a] = [agent[a] EXCEPT !.pc = pc]
                  /\ pc \in Deploying => agent[a].type = "deploy"
    BY <2>5 DEF RestartApi, Now
  <2> QED BY <2>2, <2>3, <2>4, <2>5
<1>4. agent' \in [Agents -> [pc : AgentPc, type : Types \cup {"none"},
                             update : Updates \cup {None}, seen : Nat]]
  BY <1>3 DEF RestartApi
<1>5. stranded' \subseteq Updates
  BY DEF RestartApi, Lose, TypeOK
<1> QED BY <1>1, <1>2, <1>3, <1>4, <1>5

\* Of several records one is the last.
LEMMA LastRecord ==
    ASSUME NEW n \in Nat, NEW K \in SUBSET (1..n), K # {}
    PROVE  \E k \in K : \A j \in K : j <= k
<1> DEFINE D == {n - k : k \in K}
<1>1. D \subseteq Nat
  <2>1. \A k \in K : n - k \in Nat
    OBVIOUS
  <2> QED BY <2>1
<1>2. PICK k0 \in K : TRUE
  OBVIOUS
<1>3. n - k0 \in D
  OBVIOUS
<1>4. D # {}
  BY <1>3
<1>5. \E x \in D : \A y \in D : ~(<<y, x>> \in OpToRel(<, Nat))
  BY <1>1, <1>4, NatLessThanWellFounded, WFMin, Zenon
<1>6. PICK x \in D : \A y \in D : ~(y < x)
  BY <1>1, <1>5, Zenon DEF OpToRel
<1>7. PICK k \in K : x = n - k
  OBVIOUS
<1>8. ASSUME NEW j \in K PROVE j <= k
  <2>1. n - j \in D
    OBVIOUS
  <2>2. ~(n - j < n - k)
    BY <1>6, <1>7, <2>1
  <2>3. j \in Int /\ k \in Int /\ n \in Int
    OBVIOUS
  <2> HIDE DEF D
  <2> QED BY <2>2, <2>3
<1> QED BY <1>7, <1>8

\* An agent goes on to its next step, or rests.
LEMMA AgentMoves ==
    ASSUME UpdatesInv, NEW a \in Agents,
           \/ \E pc \in AgentPc : /\ Step(a, pc)
                                  /\ pc \in Deploying => agent[a].type = "deploy"
           \/ Rest(a)
    PROVE  /\ agent' \in [Agents -> [pc : AgentPc, type : Types \cup {"none"},
                                     update : Updates \cup {None}, seen : Nat]]
           /\ \A b \in Agents : /\ agent'[b].type = "deploy" => agent'[b].update \in Updates
                                /\ agent'[b].pc \in Deploying => agent'[b].type = "deploy"
<1>1. CASE \E pc \in AgentPc : Step(a, pc) /\ (pc \in Deploying => agent[a].type = "deploy")
  <2>1. PICK pc \in AgentPc : Step(a, pc) /\ (pc \in Deploying => agent[a].type = "deploy")
    BY <1>1
  <2>2. agent' = [b \in Agents |-> IF b = a THEN [agent[a] EXCEPT !.pc = pc] ELSE agent[b]]
    BY <2>1 DEF Step, UpdatesInv, TypeOK
  <2>3. [agent[a] EXCEPT !.pc = pc] \in [pc : AgentPc, type : Types \cup {"none"},
                                        update : Updates \cup {None}, seen : Nat]
    BY DEF UpdatesInv, TypeOK
  <2> QED BY <2>1, <2>2, <2>3 DEF UpdatesInv, TypeOK
<1>2. CASE Rest(a)
  BY <1>2 DEF Rest, Resting, UpdatesInv, TypeOK, AgentPc, Deploying, None
<1> QED BY <1>1, <1>2

\* What an agent does between its steps: the slot, and whose status it writes.
LEMMA AgentInv == ASSUME UpdatesInv, NEW a \in Agents, AgentStep(a) PROVE UpdatesInv'
<1> USE DEF UpdatesInv
<1> DEFINE AgentTypes ==
             /\ agent \in [Agents -> [pc : AgentPc, type : Types \cup {"none"},
                                      update : Updates \cup {None}, seen : Nat]]
             /\ \A b \in Agents : /\ agent[b].type = "deploy" => agent[b].update \in Updates
                                  /\ agent[b].pc \in Deploying => agent[b].type = "deploy"
<1>0. AgentTypes
  BY DEF TypeOK
<1>1. CASE Claim(a)
  <2>1. AgentTypes'
    BY <1>1 DEF Claim, TypeOK, NoJob, AgentPc, Deploying
  <2>2. slot' = NoJob
    BY <1>1 DEF Claim
  <2>3. UNCHANGED <<status, snapshots, request, job, running, code, main, records, spent,
                    passed, stranded>>
    BY <1>1 DEF Claim
  <2> QED BY <2>1, <2>2, <2>3 DEF TypeOK, NoJob
<1>2. CASE CheckDeploy(a) \/ DeployFails(a) \/ Verify(a)
  <2>1. AgentTypes'
    BY <1>2, AgentMoves DEF CheckDeploy, DeployFails, Verify, AgentAt, Deploying, AgentPc
  <2>2. UNCHANGED <<status, snapshots, request, job, slot, running, code, main, records, spent,
                    passed, stranded>>
    BY <1>2 DEF CheckDeploy, DeployFails, Verify
  <2> QED BY <2>1, <2>2 DEF TypeOK
<1>3. CASE Build(a) \/ BuildFails(a) \/ Rollback(a)
  <2>1. /\ {running', code', main'} \subseteq Updates \cup {FirstVersion}
        /\ UNCHANGED <<status, snapshots, slot, records, spent, passed>>
    <3>1. CASE Build(a) \/ BuildFails(a)
      BY <3>1 DEF Build, BuildFails, ReplaceApi, KeepApi, TypeOK, AgentAt, Deploying
    <3>2. CASE Rollback(a)
      BY <3>2 DEF Rollback, KeepApi, TypeOK
    <3> QED BY <1>3, <3>1, <3>2
  <2>2. \/ \E pc \in {"built", "failed"} : AgentAt(a, "building") /\ RestartApi(Now(a, pc))
        \/ \E pc \in {"rolled", "unrolled"} : RestartApi(Now(a, pc))
        \/ /\ UNCHANGED <<request, job, stranded>>
           /\ \/ AgentAt(a, "building") /\ \E pc \in {"built", "failed"} : Step(a, pc)
              \/ \E pc \in {"rolled", "unrolled"} : Step(a, pc)
    BY <1>3 DEF Build, BuildFails, ReplaceApi, KeepApi, Rollback
  <2>3. ASSUME NEW pc \in AgentPc, RestartApi(Now(a, pc)), pc \in Deploying => agent[a].type = "deploy"
        PROVE  UpdatesInv'
    <3>1. /\ request' = [r \in Requests |-> Idle]
          /\ job' \in JobRows
          /\ \A u \in Updates : job'[<<"rollback", u>>].pc # "active"
          /\ AgentTypes'
          /\ stranded' \subseteq Updates
      BY <2>3, RestartTypes
    <3> QED BY <2>1, <3>1 DEF TypeOK, JobRows, Idle, RequestPc
  <2>4. CASE /\ UNCHANGED <<request, job, stranded>>
             /\ \/ AgentAt(a, "building") /\ \E pc \in {"built", "failed"} : Step(a, pc)
                \/ \E pc \in {"rolled", "unrolled"} : Step(a, pc)
    <3>1. AgentTypes'
      BY <2>4, AgentMoves DEF AgentAt, Deploying, AgentPc
    <3> QED BY <2>1, <2>4, <3>1 DEF TypeOK
  <2> QED BY <2>2, <2>3, <2>4 DEF AgentAt, Deploying, AgentPc
<1>4. CASE Supersede(a)
  <2>1. AgentTypes'
    <3>1. Len(records) \in Nat
      BY LenProperties DEF TypeOK
    <3>2. agent' = [b \in Agents |->
                      IF b = a THEN [agent[a] EXCEPT !.pc = "recording", !.seen = Len(records)]
                      ELSE agent[b]]
      BY <1>4 DEF Supersede, TypeOK
    <3>3. [agent[a] EXCEPT !.pc = "recording", !.seen = Len(records)] \in
              [pc : AgentPc, type : Types \cup {"none"}, update : Updates \cup {None}, seen : Nat]
      BY <1>0, <3>1 DEF AgentPc
    <3>4. agent[a].type = "deploy"
      BY <1>0, <1>4 DEF Supersede, AgentAt, Deploying
    <3> QED BY <1>0, <3>2, <3>3, <3>4
  <2>2. records' \in Seq(Row)
    <3>1. \A i \in 1..Len(records) : records[i] \in Row
      BY ElementOfSeq DEF TypeOK
    <3>2. \A i \in 1..Len(records) :
            (IF records[i].status = "active" THEN [records[i] EXCEPT !.status = "superseded"]
             ELSE records[i]) \in Row
      BY <3>1 DEF Row
    <3> QED BY <1>4, <3>2, LenProperties, IsASeq DEF Supersede, TypeOK
  <2>3. UNCHANGED <<status, snapshots, request, job, slot, running, code, main, spent, passed,
                    stranded>>
    BY <1>4 DEF Supersede
  <2> QED BY <2>1, <2>2, <2>3 DEF TypeOK
<1>5. CASE Record(a)
  <2>1. AgentTypes'
    BY <1>5, AgentMoves DEF Record, AgentAt, Deploying, AgentPc
  <2>2. [version |-> running, status |-> "active", seen |-> agent[a].seen] \in Row
    BY <1>0, <1>5 DEF Record, AgentAt, Deploying, Row, TypeOK
  <2>3. records' \in Seq(Row)
    BY <1>5, <2>2, AppendProperties DEF Record, TypeOK
  <2>4. UNCHANGED <<status, snapshots, request, job, slot, running, code, main, spent, passed,
                    stranded>>
    BY <1>5 DEF Record
  <2> QED BY <2>1, <2>3, <2>4 DEF TypeOK
<1>6. CASE SyncLost(a) \/ CallLost(a)
  <2>1. AgentTypes'
    BY <1>6, AgentMoves DEF SyncLost, CallLost, AgentAt, Deploying, AgentPc
  <2>2. spent' \in [{"requests", "faults"} -> Nat] /\ stranded' \subseteq Updates
    BY <1>0, <1>6, SpentStep DEF SyncLost, CallLost, Fault, Lose, TypeOK
  <2>3. UNCHANGED <<status, snapshots, request, job, slot, running, code, main, records, passed>>
    BY <1>6 DEF SyncLost, CallLost
  <2> QED BY <2>1, <2>2, <2>3 DEF TypeOK
<1>7. CASE Complete(a) \/ Finish(a) \/ FinishFailed(a) \/ FinishRollback(a) \/ FinishUnrolled(a)
  <2>1. AgentTypes'
    BY <1>7, AgentMoves DEF Complete, Finish, FinishFailed, FinishRollback, FinishUnrolled,
                            AgentAt, Deploying, AgentPc
  <2>2. status' \in [Updates -> Statuses]
    BY <1>7 DEF Complete, Finish, FinishFailed, FinishRollback, FinishUnrolled, SetStatus,
                TypeOK, Statuses
  <2>3. stranded' \subseteq Updates
    BY <1>0, <1>7 DEF Complete, Finish, FinishFailed, FinishRollback, FinishUnrolled, Ended,
                      Lose, TypeOK
  <2>4. UNCHANGED <<snapshots, request, job, slot, running, code, main, records, spent, passed>>
    BY <1>7 DEF Complete, Finish, FinishFailed, FinishRollback, FinishUnrolled
  <2> QED BY <2>1, <2>2, <2>3, <2>4 DEF TypeOK
<1>8. CASE ReadActive(a)
  <2>1. \A i \in Active : i \in Nat
    BY LenProperties DEF Active, TypeOK
  <2>2. PICK n \in Nat, pc \in {"ending", "marking"} :
             agent' = [agent EXCEPT ![a].pc = pc, ![a].seen = n]
    <3>1. CASE Active = {}
      BY <1>8, <3>1 DEF ReadActive
    <3>2. CASE Active # {}
      <4>1. PICK m \in Active : \A j \in Active : j <= m
        <5>1. /\ Active \subseteq 1..Len(records) /\ Len(records) \in Nat
          BY LenProperties DEF Active, TypeOK
        <5> QED BY <3>2, <5>1, LastRecord
      <4>2. (CHOOSE i \in Active : \A j \in Active : j <= i) \in Active
        BY <4>1
      <4> QED BY <1>8, <2>1, <3>2, <4>2 DEF ReadActive
    <3> QED BY <3>1, <3>2
  <2>3. AgentTypes'
    <3>1. agent' = [b \in Agents |-> IF b = a THEN [agent[a] EXCEPT !.pc = pc, !.seen = n]
                                    ELSE agent[b]]
      BY <2>2 DEF TypeOK
    <3>2. [agent[a] EXCEPT !.pc = pc, !.seen = n] \in
              [pc : AgentPc, type : Types \cup {"none"}, update : Updates \cup {None}, seen : Nat]
      BY <1>0 DEF AgentPc
    <3>3. pc \notin Deploying
      BY DEF Deploying
    <3> QED BY <1>0, <3>1, <3>2, <3>3
  <2>4. UNCHANGED <<status, snapshots, request, job, slot, running, code, main, records, spent,
                    passed, stranded>>
    BY <1>8 DEF ReadActive
  <2> QED BY <2>3, <2>4 DEF TypeOK
<1>9. CASE MarkRolledBack(a)
  <2>1. AgentTypes'
    BY <1>9, AgentMoves DEF MarkRolledBack, AgentAt, Deploying, AgentPc
  <2>2. records' \in Seq(Row)
    <3>1. \A i \in 1..Len(records) : records[i] \in Row
      BY ElementOfSeq DEF TypeOK
    <3>2. \A i \in 1..Len(records) :
            (IF i \in Active /\ records[i].version = records[agent[a].seen].version
             THEN [records[i] EXCEPT !.status = "rolled_back"] ELSE records[i]) \in Row
      BY <3>1 DEF Row
    <3> QED BY <1>9, <3>2, LenProperties, IsASeq DEF MarkRolledBack, TypeOK
  <2>3. UNCHANGED <<status, snapshots, request, job, slot, running, code, main, spent, passed,
                    stranded>>
    BY <1>9 DEF MarkRolledBack
  <2> QED BY <2>1, <2>2, <2>3 DEF TypeOK
<1> QED BY <1>1, <1>2, <1>3, <1>4, <1>5, <1>6, <1>7, <1>8, <1>9 DEF AgentStep

LEMMA UpdatesStep == UpdatesInv /\ [Next]_vars => UpdatesInv'
<1> SUFFICES ASSUME UpdatesInv, [Next]_vars PROVE UpdatesInv'
  OBVIOUS
<1>1. CASE RollbackVersion
  <2>1. spent' \in [{"requests", "faults"} -> Nat]
    BY <1>1, SpentStep DEF RollbackVersion, UpdatesInv
  <2> QED BY <1>1, <2>1 DEF RollbackVersion, QueueJob, Lose, UpdatesInv, TypeOK, Types, NoJob,
                            None
<1>5. CASE Push
  <2>1. spent' \in [{"requests", "faults"} -> Nat]
    BY <1>5, SpentStep DEF Push, UpdatesInv
  <2> QED BY <1>5, <2>1 DEF Push, UpdatesInv, TypeOK
<1>2. CASE ClaimLost
  <2>1. spent' \in [{"requests", "faults"} -> Nat]
    BY <1>2, SpentStep DEF ClaimLost, Fault, UpdatesInv
  <2> QED BY <1>2, <2>1 DEF ClaimLost, Lose, UpdatesInv, TypeOK, NoJob
<1>3. CASE Restart
  <2>1. spent' \in [{"requests", "faults"} -> Nat]
    BY <1>3, SpentStep DEF Restart, Fault, UpdatesInv
  <2>2. RestartApi(<< >>) /\ UNCHANGED <<status, snapshots, slot, running, code, main, records,
                                         passed>>
    BY <1>3 DEF Restart
  <2>3. /\ request' = [r \in Requests |-> Idle]
        /\ job' \in JobRows
        /\ \A u \in Updates : job'[<<"rollback", u>>].pc # "active"
        /\ agent' \in [Agents -> [pc : AgentPc, type : Types \cup {"none"},
                                  update : Updates \cup {None}, seen : Nat]]
        /\ \A a \in Agents : /\ agent'[a].type = "deploy" => agent'[a].update \in Updates
                             /\ agent'[a].pc \in Deploying => agent'[a].type = "deploy"
        /\ stranded' \subseteq Updates
    BY <2>2, RestartTypes
  <2> QED BY <2>1, <2>2, <2>3 DEF UpdatesInv, TypeOK, JobRows, Idle, RequestPc
<1>4. CASE UNCHANGED vars
  BY <1>4 DEF vars, UpdatesInv, TypeOK
<1> QED BY <1>1, <1>2, <1>3, <1>4, <1>5, RequestInv, WorkerInv, AgentInv DEF Next

LEMMA InitUpdates == Init => UpdatesInv
<1> SUFFICES ASSUME Init PROVE UpdatesInv
  OBVIOUS
<1>1. /\ status \in [Updates -> Statuses] /\ passed \subseteq Updates
      /\ request \in [Requests -> [pc : RequestPc, update : Updates \cup {None}, deploy : BOOLEAN]]
      /\ agent \in [Agents -> [pc : AgentPc, type : Types \cup {"none"},
                               update : Updates \cup {None}, seen : Nat]]
      /\ spent \in [{"requests", "faults"} -> Nat]
  BY DEF Init, Statuses, Idle, RequestPc, Resting, AgentPc, None
<1>2. job \in JobRows /\ \A u \in Updates : job[<<"rollback", u>>].pc # "active"
  BY DEF Init, JobRows, JobTypes, NewJob, JobPc
<1>3. records \in Seq(Row)
  BY EmptySeq DEF Init
<1> QED BY <1>1, <1>2, <1>3 DEF Init, UpdatesInv, TypeOK, JobRows, NoJob, Idle, Resting,
                                Deploying, None

LEMMA UpdatesSafe == Spec => []UpdatesInv
  BY InitUpdates, UpdatesStep, PTL DEF Spec

-----------------------------------------------------------------------------
(* The host gets only jobs of updates that were tested *)

\* Where an update's test and restore point are relied on: its row, a request
\* that has read the row, the host's slot, and the agent.
Ready(u) == u \in passed \cap snapshots
TestedInv ==
    /\ \A u \in Updates : /\ status[u] = "test_passed" => u \in passed
                          /\ status[u] = "awaiting_approval" => Ready(u)
    /\ \A r \in Requests : /\ At(r, "backup") => request[r].update \in passed
                           /\ At(r, "queue") => Ready(request[r].update)
    /\ slot.type = "deploy" => Ready(slot.update)
    /\ HostJobsAreTested

\* A test that has passed and a restore point stay.
LEMMA ReadyStays ==
    ASSUME [Next]_vars
    PROVE  passed \subseteq passed' /\ snapshots \subseteq snapshots'
<1>1. ASSUME NEW r \in Requests, RequestStep(r) PROVE UNCHANGED passed /\ snapshots \subseteq snapshots'
  BY <1>1 DEF RequestStep, BeginTest, BeginApproval, BeginDeploy, BeginRollback, MarkTesting,
              AddTest,
              Approve, WriteApproval, Reread, QueueDeploy, StartHostDeploy, MarkDeploying,
              AddRollback, RequestFails
<1>2. ASSUME WorkerStep PROVE passed \subseteq passed' /\ UNCHANGED snapshots
  BY <1>2 DEF WorkerStep, StartTest, FinishTest, StartRollback, EndRollback, JobFails, ForgetJob
<1>3. ASSUME NEW a \in Agents, AgentStep(a) PROVE UNCHANGED <<passed, snapshots>>
  BY <1>3 DEF AgentStep, Claim, CheckDeploy, DeployFails, Build, BuildFails, ReplaceApi,
              KeepApi, Supersede, Record,
              SyncLost, Verify, Complete, Finish, FinishFailed, Rollback, ReadActive,
              MarkRolledBack, FinishRollback, FinishUnrolled, CallLost
<1>4. RollbackVersion \/ ClaimLost \/ Restart \/ Push \/ UNCHANGED vars => UNCHANGED <<passed,
                                                                                       snapshots>>
  BY DEF RollbackVersion, ClaimLost, Push, Restart, vars
<1> QED BY <1>1, <1>2, <1>3, <1>4 DEF Next

\* A row says that it was tested, or approved, only through the actions that do.
LEMMA StatusStep ==
    ASSUME UpdatesInv, [Next]_vars, NEW u \in Updates
    PROVE  /\ status'[u] = "test_passed" => status[u] = "test_passed" \/ u \in passed'
           /\ status'[u] = "awaiting_approval" =>
                 \/ status[u] = "awaiting_approval"
                 \/ \E r \in Requests : WriteApproval(r) /\ u = request[r].update
<1> USE DEF UpdatesInv
<1>1. ASSUME NEW r \in Requests, RequestStep(r)
      PROVE  \/ UNCHANGED status
             \/ \E s \in {"testing", "deploying"} : \E v : SetStatus(v, s)
             \/ WriteApproval(r)
  BY <1>1 DEF RequestStep, BeginTest, BeginApproval, BeginDeploy, BeginRollback, MarkTesting,
              AddTest,
              Approve, Reread, QueueDeploy, StartHostDeploy, MarkDeploying, AddRollback, RequestFails
<1>2. ASSUME WorkerStep
      PROVE  \/ UNCHANGED status
             \/ \E s \in {"test_failed", "deploying"} : \E v : SetStatus(v, s)
             \/ \E v \in Updates : SetStatus(v, "test_passed") /\ v \in passed'
  BY <1>2 DEF WorkerStep, StartTest, FinishTest, StartRollback, EndRollback, JobFails, ForgetJob
<1>3. ASSUME NEW a \in Agents, AgentStep(a)
      PROVE  \/ UNCHANGED status
             \/ \E s \in {"applied", "rolled_back"} : \E v : SetStatus(v, s)
  BY <1>3 DEF AgentStep, Claim, CheckDeploy, DeployFails, Build, BuildFails, ReplaceApi,
              KeepApi, Supersede, Record,
              SyncLost, Verify, Complete, Finish, FinishFailed, Rollback, ReadActive,
              MarkRolledBack, FinishRollback, FinishUnrolled, CallLost
<1>4. RollbackVersion \/ ClaimLost \/ Restart \/ Push \/ UNCHANGED vars => UNCHANGED status
  BY DEF RollbackVersion, ClaimLost, Push, Restart, vars
<1>5. ASSUME NEW s, NEW v, SetStatus(v, s) PROVE status'[u] \in {s, status[u]}
  BY <1>5 DEF SetStatus, TypeOK
<1>6. ASSUME NEW v \in Updates, SetStatus(v, "test_passed") PROVE u # v => status'[u] = status[u]
  BY <1>6 DEF SetStatus, TypeOK
<1>7. ASSUME NEW r \in Requests, WriteApproval(r)
      PROVE  status'[u] = IF u = request[r].update THEN "awaiting_approval" ELSE status[u]
  BY <1>7 DEF WriteApproval, SetStatus, TypeOK
<1> QED BY <1>1, <1>2, <1>3, <1>4, <1>5, <1>6, <1>7 DEF Next

\* Who makes the restore point has read that the test was passed, and who queues
\* the job has read the approval.
LEMMA RequestTested ==
    ASSUME UpdatesInv, TestedInv, [Next]_vars, NEW r \in Requests
    PROVE  /\ At(r, "backup")' => request'[r].update \in passed
           /\ At(r, "queue")' => Ready(request'[r].update)
<1> USE DEF UpdatesInv
<1>1. CASE request'[r] = request[r]
  BY <1>1 DEF TestedInv, At
<1>2. CASE request'[r] = Idle
  BY <1>2 DEF At, Idle
<1>3. ASSUME RequestStep(r)
      PROVE  /\ At(r, "backup")' => request'[r].update \in passed
             /\ At(r, "queue")' => Ready(request'[r].update)
  <2>1. ASSUME NEW u \in Updates,
               BeginTest(r, u) \/ BeginApproval(r, u) \/ BeginDeploy(r, u) \/ BeginRollback(r, u)
        PROVE  /\ At(r, "backup")' => request'[r].update \in passed
               /\ At(r, "queue")' => Ready(request'[r].update)
    BY <2>1 DEF BeginTest, BeginApproval, BeginDeploy, BeginRollback, Begin, Approvable,
                TestedInv, Ready, At, TypeOK
  <2>2. CASE MarkTesting(r) \/ AddTest(r) \/ WriteApproval(r) \/ QueueDeploy(r) \/ StartHostDeploy(r)
             \/ MarkDeploying(r) \/ AddRollback(r) \/ RequestFails(r)
    BY <2>2 DEF MarkTesting, AddTest, WriteApproval, QueueDeploy, StartHostDeploy, MarkDeploying,
                AddRollback, RequestFails, Goto, Leave, At, Idle, TypeOK
  <2>3. CASE Approve(r) \/ Reread(r)
    <3>1. request[r].update \in Updates
      BY <2>3, RequestUpdate DEF Approve, Reread, At
    <3>2. request'[r] = Idle \/ request'[r] = [request[r] EXCEPT !.pc = "backup"]
            \/ request'[r] = [request[r] EXCEPT !.pc = "queue"]
      BY <2>3 DEF Approve, Reread, Goto, Leave, TypeOK
    <3>3. CASE request'[r] = [request[r] EXCEPT !.pc = "backup"]
      <4>1. request'[r].pc = "backup" /\ request'[r].update = request[r].update
        BY <3>3 DEF TypeOK
      <4>2. Approvable(status[request[r].update])
        BY <2>3, <4>1 DEF Approve, Reread, Goto, Leave, Idle, TypeOK
      <4> QED BY <3>1, <4>1, <4>2 DEF Approvable, TestedInv, Ready, At
    <3>4. CASE request'[r] = [request[r] EXCEPT !.pc = "queue"]
      <4>1. request'[r].pc = "queue" /\ request'[r].update = request[r].update
        BY <3>4 DEF TypeOK
      <4>2. status[request[r].update] = "awaiting_approval"
        BY <2>3, <4>1 DEF Approve, Reread, Goto, Leave, Idle, TypeOK
      <4> QED BY <3>1, <4>1, <4>2 DEF TestedInv, At
    <3> QED BY <1>2, <3>2, <3>3, <3>4
  <2> QED BY <1>3, <2>1, <2>2, <2>3 DEF RequestStep
<1>4. RequestStep(r) \/ request'[r] \in {request[r], Idle}
  <2>1. ASSUME NEW q \in Requests, RequestStep(q), q # r PROVE request'[r] = request[r]
    BY <2>1 DEF RequestStep, BeginTest, BeginApproval, BeginDeploy, BeginRollback, Begin,
                MarkTesting,
                AddTest, Approve, WriteApproval, Reread, QueueDeploy, StartHostDeploy, MarkDeploying,
                AddRollback, RequestFails, Goto, Leave, TypeOK
  <2>2. WorkerStep => UNCHANGED request
    BY DEF WorkerStep, StartTest, FinishTest, StartRollback, EndRollback, JobFails, ForgetJob
  <2>3. ASSUME NEW a \in Agents, AgentStep(a) PROVE request'[r] \in {request[r], Idle}
    BY <2>3 DEF AgentStep, Claim, CheckDeploy, DeployFails, Build, BuildFails, ReplaceApi,
                KeepApi, Supersede, Record,
                SyncLost, Verify, Complete, Finish, FinishFailed, Rollback, ReadActive,
                MarkRolledBack, FinishRollback, FinishUnrolled, CallLost, RestartApi
  <2>4. RollbackVersion \/ ClaimLost \/ Restart \/ Push \/ UNCHANGED vars => request'[r] \in {request[r], Idle}
    BY DEF RollbackVersion, ClaimLost, Push, Restart, RestartApi, vars
  <2> QED BY <2>1, <2>2, <2>3, <2>4 DEF Next
<1> QED BY <1>1, <1>2, <1>3, <1>4

\* The slot is filled by the requests and the worker, and taken by the agents.
LEMMA SlotStep ==
    ASSUME [Next]_vars
    PROVE  \/ slot' \in {slot, NoJob}
           \/ slot'.type = "rollback"
           \/ \E r \in Requests : QueueDeploy(r)
<1>1. ASSUME NEW r \in Requests, RequestStep(r) PROVE QueueDeploy(r) \/ UNCHANGED slot
  BY <1>1 DEF RequestStep, BeginTest, BeginApproval, BeginDeploy, BeginRollback, MarkTesting,
              AddTest,
              Approve, WriteApproval, Reread, StartHostDeploy, MarkDeploying, AddRollback, RequestFails
<1>2. ASSUME WorkerStep PROVE (UNCHANGED slot) \/ slot'.type = "rollback"
  <2>1. (UNCHANGED slot) \/ \E u \in Updates : StartRollback(u)
    BY <1>2 DEF WorkerStep, StartTest, FinishTest, EndRollback, JobFails, ForgetJob
  <2>2. ASSUME NEW u \in Updates, StartRollback(u) PROVE slot'.type = "rollback"
    <3>1. slot' = [type |-> "rollback", update |-> u]
      BY <2>2 DEF StartRollback, QueueJob
    <3> QED BY <3>1
  <2> QED BY <2>1, <2>2
<1>3. ASSUME NEW a \in Agents, AgentStep(a) PROVE slot' \in {slot, NoJob}
  BY <1>3 DEF AgentStep, Claim, CheckDeploy, DeployFails, Build, BuildFails, ReplaceApi,
              KeepApi, Supersede, Record,
              SyncLost, Verify, Complete, Finish, FinishFailed, Rollback, ReadActive,
              MarkRolledBack, FinishRollback, FinishUnrolled, CallLost
<1>4. RollbackVersion \/ ClaimLost \/ Restart \/ Push \/ UNCHANGED vars
        => slot' \in {slot, NoJob} \/ slot'.type = "rollback"
  BY DEF RollbackVersion, ClaimLost, Push, Restart, QueueJob, vars
<1> QED BY <1>1, <1>2, <1>3, <1>4 DEF Next

\* An agent has what it had, what the slot had, or nothing.
LEMMA AgentJob ==
    ASSUME UpdatesInv, [Next]_vars, NEW a \in Agents
    PROVE  \/ agent'[a].type = agent[a].type /\ agent'[a].update = agent[a].update
           \/ agent'[a] = Resting
           \/ agent'[a].type = slot.type /\ agent'[a].update = slot.update
<1> USE DEF UpdatesInv
<1>1. ASSUME NEW self, RestartApi(self), self = << >> \/ \E b \in Agents : \E pc : self = Now(b, pc)
      PROVE  \/ agent'[a].type = agent[a].type /\ agent'[a].update = agent[a].update
             \/ agent'[a] = Resting
  <2>1. \/ agent'[a] = CutOff(agent[a])
        \/ \E pc : agent'[a] = [agent[a] EXCEPT !.pc = pc]
    <3>1. CASE self = << >>
      BY <1>1, <3>1 DEF RestartApi
    <3>2. ASSUME NEW b \in Agents, NEW pc, self = Now(b, pc)
          PROVE  \/ agent'[a] = CutOff(agent[a])
                 \/ agent'[a] = [agent[a] EXCEPT !.pc = pc]
      BY <1>1, <3>2 DEF RestartApi, Now
    <3> QED BY <1>1, <3>1, <3>2
  <2>2. CutOff(agent[a]) \in {agent[a], Resting, [agent[a] EXCEPT !.pc = "verify"]}
    BY DEF CutOff
  <2> QED BY <2>1, <2>2 DEF TypeOK
<1>2. ASSUME NEW b \in Agents, AgentStep(b)
      PROVE  \/ Claim(b)
             \/ \E pc : Step(b, pc)
             \/ Rest(b)
             \/ Supersede(b) \/ ReadActive(b)
             \/ \E pc : RestartApi(Now(b, pc))
  BY <1>2 DEF AgentStep, CheckDeploy, DeployFails, Build, BuildFails, ReplaceApi, KeepApi, Record,
              SyncLost, Verify, Complete, Finish, FinishFailed, Rollback,
              MarkRolledBack, FinishRollback, FinishUnrolled, CallLost
<1>3. ASSUME NEW b \in Agents, Claim(b) \/ (\E pc : Step(b, pc)) \/ Rest(b) \/ Supersede(b) \/ ReadActive(b)
      PROVE  \/ agent'[a].type = agent[a].type /\ agent'[a].update = agent[a].update
             \/ agent'[a] = Resting
             \/ agent'[a].type = slot.type /\ agent'[a].update = slot.update
  <2>1. CASE Claim(b)
    BY <2>1 DEF Claim, TypeOK
  <2>2. ASSUME NEW pc, Step(b, pc)
        PROVE  agent'[a].type = agent[a].type /\ agent'[a].update = agent[a].update
    BY <2>2 DEF Step, TypeOK
  <2>3. CASE Rest(b)
    BY <2>3 DEF Rest, TypeOK
  <2>4. CASE Supersede(b) \/ ReadActive(b)
    <3>1. PICK pc, n : agent' = [agent EXCEPT ![b].pc = pc, ![b].seen = n]
      BY <2>4 DEF Supersede, ReadActive
    <3> QED BY <3>1 DEF TypeOK
  <2> QED BY <1>3, <2>1, <2>2, <2>3, <2>4
<1>4. \/ \E b \in Agents : AgentStep(b)
      \/ RestartApi(<< >>)
      \/ UNCHANGED agent
  <2>1. ASSUME NEW r \in Requests, RequestStep(r) PROVE UNCHANGED agent
    BY <2>1 DEF RequestStep, BeginTest, BeginApproval, BeginDeploy, BeginRollback, MarkTesting,
                AddTest,
                Approve, WriteApproval, Reread, QueueDeploy, StartHostDeploy, MarkDeploying,
                AddRollback, RequestFails
  <2>2. WorkerStep => UNCHANGED agent
    BY DEF WorkerStep, StartTest, FinishTest, StartRollback, EndRollback, JobFails, ForgetJob
  <2> QED BY <2>1, <2>2 DEF Next, RollbackVersion, ClaimLost, Push, Restart, vars
<1> QED BY <1>1, <1>2, <1>3, <1>4

LEMMA TestedStep == UpdatesInv /\ TestedInv /\ [Next]_vars => TestedInv'
<1> SUFFICES ASSUME UpdatesInv, TestedInv, [Next]_vars PROVE TestedInv'
  OBVIOUS
<1>1. passed \subseteq passed' /\ snapshots \subseteq snapshots'
  BY ReadyStays
<1>2. ASSUME NEW u, Ready(u) PROVE Ready(u)'
  BY <1>1, <1>2 DEF Ready
<1>3. ASSUME NEW u \in Updates
      PROVE  /\ status'[u] = "test_passed" => u \in passed'
             /\ status'[u] = "awaiting_approval" => Ready(u)'
  <2>1. ASSUME NEW r \in Requests, WriteApproval(r), u = request[r].update PROVE Ready(u)'
    BY <1>1, <2>1 DEF WriteApproval, TestedInv, Ready
  <2> QED BY <1>1, <1>2, <2>1, StatusStep DEF TestedInv
<1>4. ASSUME NEW r \in Requests
      PROVE  /\ At(r, "backup")' => request'[r].update \in passed'
             /\ At(r, "queue")' => request'[r].update \in passed' \cap snapshots'
  BY <1>1, RequestTested DEF Ready
<1>5. slot'.type = "deploy" => slot'.update \in passed' \cap snapshots'
  <2>1. ASSUME NEW r \in Requests, QueueDeploy(r) PROVE slot'.update \in passed \cap snapshots
    BY <2>1 DEF QueueDeploy, QueueJob, TestedInv, Ready
  <2>2. CASE slot' \in {slot, NoJob}
    BY <2>2, <1>1 DEF TestedInv, Ready, NoJob
  <2> QED BY <1>1, <2>1, <2>2, SlotStep
<1>6. HostJobsAreTested'
  BY <1>1, <1>5, AgentJob DEF TestedInv, Ready, HostJobsAreTested, Resting
<1> QED BY <1>3, <1>4, <1>5, <1>6 DEF TestedInv, Ready

\* Whatever requests, retries, restarts and agents overlap, and however many, the
\* job in the host's slot and the one an agent works on are of an update whose
\* row passed its test and has a restore point.  It says nothing of the code.
THEOREM TestedTheorem == Spec => []HostJobsAreTested
<1>1. Init => TestedInv
  BY DEF Init, TestedInv, HostJobsAreTested, At, Idle, NoJob, Resting
<1>2. Spec => []TestedInv
  BY <1>1, UpdatesSafe, TestedStep, PTL DEF Spec
<1> QED BY <1>2, PTL DEF TestedInv

-----------------------------------------------------------------------------
(* One deployed version *)

\* What an agent that has put the earlier records aside knows: those that are
\* active came since, of agents that overlapped with it.
RaceInv ==
    /\ \A a \in Agents : AgentAt(a, "recording") =>
          /\ agent[a].seen <= Len(records)
          /\ \A i \in Active : agent[a].seen < i
    /\ ActiveIsRace

\* The history is written by the agents' calls alone.
LEMMA RecordsStep ==
    ASSUME [Next]_vars
    PROVE  \/ UNCHANGED records
           \/ \E a \in Agents : Supersede(a) \/ Record(a) \/ MarkRolledBack(a)
<1>1. ASSUME NEW r \in Requests, RequestStep(r) PROVE UNCHANGED records
  BY <1>1 DEF RequestStep, BeginTest, BeginApproval, BeginDeploy, BeginRollback, MarkTesting,
              AddTest,
              Approve, WriteApproval, Reread, QueueDeploy, StartHostDeploy, MarkDeploying,
              AddRollback, RequestFails
<1>2. WorkerStep => UNCHANGED records
  BY DEF WorkerStep, StartTest, FinishTest, StartRollback, EndRollback, JobFails, ForgetJob
<1>3. ASSUME NEW a \in Agents, AgentStep(a)
      PROVE  UNCHANGED records \/ Supersede(a) \/ Record(a) \/ MarkRolledBack(a)
  BY <1>3 DEF AgentStep, Claim, CheckDeploy, DeployFails, Build, BuildFails, ReplaceApi,
              KeepApi, SyncLost, Verify,
              Complete, Finish, FinishFailed, Rollback, ReadActive, FinishRollback,
              FinishUnrolled, CallLost
<1>4. RollbackVersion \/ ClaimLost \/ Restart \/ Push \/ UNCHANGED vars => UNCHANGED records
  BY DEF RollbackVersion, ClaimLost, Push, Restart, vars
<1> QED BY <1>1, <1>2, <1>3, <1>4 DEF Next

\* Who writes a record has just put the earlier ones aside, or stays; who has
\* no job stays or has put it down.
LEMMA AgentPcStep ==
    ASSUME UpdatesInv, [Next]_vars, NEW a \in Agents
    PROVE  \/ agent'[a] \in {agent[a], Resting}
           \/ agent'[a].pc \notin {"idle", "recording"}
           \/ Supersede(a) /\ agent'[a].pc = "recording"
<1> USE DEF UpdatesInv
<1> DEFINE Other == AgentPc \ {"idle", "recording"}
           Goal  == agent'[a] \in {agent[a], Resting} \/ agent'[a].pc \notin {"idle", "recording"}
<1>1. ASSUME NEW self, RestartApi(self), self = << >> \/ \E b \in Agents, pc \in Other : self = Now(b, pc)
      PROVE  Goal
  <2>1. CutOff(agent[a]) \in {agent[a], Resting} \/ CutOff(agent[a]).pc = "verify"
    BY DEF CutOff, TypeOK
  <2>2. ASSUME NEW b \in Agents, NEW pc \in Other, self = Now(b, pc)
        PROVE  agent'[a] = CutOff(agent[a]) \/ agent'[a] = [agent[a] EXCEPT !.pc = pc]
    BY <1>1, <2>2 DEF RestartApi, Now
  <2>3. CASE self = << >>
    BY <1>1, <2>1, <2>3 DEF RestartApi
  <2>4. ASSUME NEW pc \in Other, agent'[a] = [agent[a] EXCEPT !.pc = pc] PROVE Goal
    BY <2>4 DEF TypeOK
  <2> QED BY <1>1, <2>1, <2>2, <2>3, <2>4
<1>2. ASSUME NEW b \in Agents, AgentStep(b)
      PROVE  \/ Claim(b)
             \/ \E pc \in Other : Step(b, pc)
             \/ Rest(b)
             \/ Supersede(b) \/ ReadActive(b)
             \/ \E pc \in Other : RestartApi(Now(b, pc))
  BY <1>2 DEF AgentStep, CheckDeploy, DeployFails, Build, BuildFails, ReplaceApi, KeepApi, Record,
              SyncLost, Verify, Complete, Finish, FinishFailed, Rollback,
              MarkRolledBack, FinishRollback, FinishUnrolled, CallLost, AgentPc
<1>3. ASSUME NEW b \in Agents, Claim(b) \/ (\E pc \in Other : Step(b, pc)) \/ Rest(b)
      PROVE  Goal
  <2>1. CASE Claim(b)
    BY <2>1 DEF Claim, TypeOK
  <2>2. ASSUME NEW pc \in Other, Step(b, pc) PROVE Goal
    BY <2>2 DEF Step, TypeOK
  <2>3. CASE Rest(b)
    BY <2>3 DEF Rest, TypeOK
  <2> QED BY <1>3, <2>1, <2>2, <2>3
<1>4. ASSUME NEW b \in Agents, Supersede(b)
      PROVE  (a = b /\ agent'[a].pc = "recording") \/ agent'[a] = agent[a]
  BY <1>4 DEF Supersede, TypeOK
<1>5. ASSUME NEW b \in Agents, ReadActive(b) PROVE Goal
  <2>1. \E n : \E pc \in {"ending", "marking"} : agent' = [agent EXCEPT ![b].pc = pc, ![b].seen = n]
    <3>1. CASE Active = {}
      BY <1>5, <3>1 DEF ReadActive
    <3>2. CASE Active # {}
      BY <1>5, <3>2 DEF ReadActive
    <3> QED BY <3>1, <3>2
  <2>2. PICK n : \E pc \in {"ending", "marking"} : agent' = [agent EXCEPT ![b].pc = pc, ![b].seen = n]
    BY <2>1
  <2> QED BY <2>2 DEF TypeOK
<1>6. \/ \E b \in Agents : AgentStep(b)
      \/ RestartApi(<< >>)
      \/ UNCHANGED agent
  <2>1. ASSUME NEW r \in Requests, RequestStep(r) PROVE UNCHANGED agent
    BY <2>1 DEF RequestStep, BeginTest, BeginApproval, BeginDeploy, BeginRollback, MarkTesting,
                AddTest,
                Approve, WriteApproval, Reread, QueueDeploy, StartHostDeploy, MarkDeploying,
                AddRollback, RequestFails
  <2>2. WorkerStep => UNCHANGED agent
    BY DEF WorkerStep, StartTest, FinishTest, StartRollback, EndRollback, JobFails, ForgetJob
  <2> QED BY <2>1, <2>2 DEF Next, RollbackVersion, ClaimLost, Push, Restart, vars
<1> QED BY <1>1, <1>2, <1>3, <1>4, <1>5, <1>6

\* A call that only takes records out of the active ones leaves the rest as they were.
Retired(s) ==
    /\ DOMAIN s = 1..Len(records) /\ Len(s) = Len(records)
    /\ \A i \in 1..Len(records) : s[i].status = "active" => s[i] = records[i]

LEMMA RaceStep == UpdatesInv /\ RaceInv /\ [Next]_vars => RaceInv'
<1> SUFFICES ASSUME UpdatesInv, RaceInv, [Next]_vars PROVE RaceInv'
  OBVIOUS
<1>0. Len(records) \in Nat /\ records \in Seq(Row)
  BY LenProperties DEF UpdatesInv, TypeOK
<1>1. CASE Retired(records') /\ \A a \in Agents : ~Supersede(a)
  <2>1. Active' \subseteq Active /\ \A i \in Active' : records'[i] = records[i]
    BY <1>1 DEF Retired, Active
  <2>2. ASSUME NEW a \in Agents, AgentAt(a, "recording")'
        PROVE  agent'[a] = agent[a] /\ AgentAt(a, "recording")
    BY <1>1, <2>2, AgentPcStep DEF AgentAt, Resting
  <2> QED BY <1>1, <2>1, <2>2 DEF RaceInv, ActiveIsRace, Retired
<1>2. ASSUME NEW a \in Agents, Supersede(a) PROVE RaceInv'
  <2>1. Active' = {} /\ Len(records') = Len(records)
    <3>1. \A i \in 1..Len(records) : records[i] \in Row
      BY <1>0, ElementOfSeq
    <3>2. \A i \in 1..Len(records) : records'[i].status # "active"
      BY <1>2, <3>1 DEF Supersede, Row
    <3> QED BY <1>0, <1>2, <3>2 DEF Supersede, Active
  <2>2. ASSUME NEW b \in Agents, AgentAt(b, "recording")' PROVE agent'[b].seen <= Len(records)
    <3>1. CASE b = a
      BY <1>0, <1>2, <3>1 DEF Supersede, UpdatesInv, TypeOK
    <3>2. CASE b # a
      BY <1>2, <2>2, <3>2 DEF Supersede, UpdatesInv, TypeOK, RaceInv, AgentAt
    <3> QED BY <3>1, <3>2
  <2> QED BY <2>1, <2>2 DEF RaceInv, ActiveIsRace
<1>3. ASSUME NEW a \in Agents, Record(a) PROVE RaceInv'
  <2> DEFINE n == Len(records)
             row == [version |-> running, status |-> "active", seen |-> agent[a].seen]
  <2>1. /\ Len(records') = n + 1 /\ records'[n + 1] = row
        /\ \A i \in 1..n : records'[i] = records[i]
    <3>1. row \in Row
      BY <1>3 DEF Record, AgentAt, UpdatesInv, TypeOK, Deploying, Row
    <3> QED BY <1>0, <1>3, <3>1, AppendProperties DEF Record
  <2>2. Active' = Active \cup {n + 1} /\ \A i \in Active : i < n + 1
    BY <1>0, <2>1 DEF Active
  <2>3. /\ agent[a].seen <= n /\ \A i \in Active : agent[a].seen < i
        /\ \A b \in Agents : AgentAt(b, "recording")' => agent'[b] = agent[b] /\ AgentAt(b, "recording")
    <3>1. \A b \in Agents : ~Supersede(b)
      BY <1>3 DEF Record, Supersede, Step, AgentAt, UpdatesInv, TypeOK
    <3> QED BY <1>3, <3>1, AgentPcStep DEF RaceInv, Record, AgentAt, Resting
  <2>4. ASSUME NEW b \in Agents, AgentAt(b, "recording")'
        PROVE  agent'[b].seen <= n + 1 /\ \A i \in Active' : agent'[b].seen < i
    <3>1. agent[b].seen \in Nat /\ agent[b].seen <= n /\ \A i \in Active : agent[b].seen < i
      BY <2>3, <2>4 DEF RaceInv, UpdatesInv, TypeOK
    <3> QED BY <1>0, <2>2, <2>3, <2>4, <3>1
  <2>5. ActiveIsRace'
    <3>1. \A i \in Active : i \in 1..n
      BY DEF Active
    <3>2. ASSUME NEW i \in Active', NEW k \in Active', i < k PROVE records'[k].seen < i
      <4>1. i \in Active
        BY <1>0, <2>2, <3>1, <3>2
      <4>2. CASE k \in Active
        BY <2>1, <3>1, <3>2, <4>1, <4>2 DEF RaceInv, ActiveIsRace
      <4>3. CASE k = n + 1
        BY <2>1, <2>3, <4>1, <4>3
      <4> QED BY <2>2, <4>2, <4>3
    <3> QED BY <3>2 DEF ActiveIsRace
  <2> QED BY <2>1, <2>4, <2>5 DEF RaceInv
<1>4. ASSUME UNCHANGED records \/ \E a \in Agents : MarkRolledBack(a) PROVE Retired(records')
  <2>1. CASE UNCHANGED records
    <3>1. DOMAIN records = 1..Len(records)
      BY <1>0, LenProperties
    <3> QED BY <2>1, <3>1 DEF Retired
  <2>2. ASSUME NEW a \in Agents, MarkRolledBack(a) PROVE Retired(records')
    <3>1. \A i \in 1..Len(records) : records[i] \in Row
      BY <1>0, ElementOfSeq
    <3>2. \A i \in 1..Len(records) : records'[i].status = "active" => records'[i] = records[i]
      BY <2>2, <3>1 DEF MarkRolledBack, Row
    <3> QED BY <1>0, <2>2, <3>2 DEF MarkRolledBack, Retired
  <2> QED BY <1>4, <2>1, <2>2
<1>5. \/ \E a \in Agents : Supersede(a) \/ Record(a)
      \/ Retired(records') /\ \A a \in Agents : ~Supersede(a)
  BY <1>4, RecordsStep
<1> QED BY <1>1, <1>2, <1>3, <1>5

\* Of two active versions the later one's deployment overlapped with the
\* earlier's, however many agents run and whatever calls are lost.
THEOREM ActiveTheorem == Spec => []ActiveIsRace
<1>1. Init => RaceInv
  BY DEF Init, RaceInv, ActiveIsRace, Active, AgentAt, Resting
<1>2. Spec => []RaceInv
  BY <1>1, UpdatesSafe, RaceStep, PTL DEF Spec
<1> QED BY <1>2, PTL DEF RaceInv

-----------------------------------------------------------------------------
(* Deploying is attended *)

\* Where the host has u's job, or its loss is recorded ...
Held(u) ==
    \/ slot.update = u
    \/ \E a \in Agents : agent[a].update = u
    \/ u \in stranded

\* ... and where a rollback of u is still on its way to the host.
Coming(u) ==
    \/ job[<<"rollback", u>>].pc \in {"waiting", "queued"}
    \/ \E r \in Requests : At(r, "addRollback") /\ request[r].update = u

\* Who has yet to write "deploying" has queued a job that the host has, or had
\* and lost: it does not write it after the deployment has come to its end.
AttendedInv ==
    /\ \A a \in Agents : AgentAt(a, "idle") => agent[a] = Resting
    /\ \A u \in Updates : /\ Unwritten(u) => Held(u)
                          /\ status[u] = "deploying" => Held(u) \/ Coming(u)

LEMMA UpdatesAreNotNone == \A u \in Updates : u # None
  BY UpdatesAssumption DEF None

\* Nothing is forgotten while the slot stays and what an agent gives up is
\* recorded as lost.
LEMMA HeldKept ==
    ASSUME NEW u \in Updates, Held(u), UNCHANGED slot, stranded \subseteq stranded',
           \A a \in Agents : \/ agent'[a].update = agent[a].update
                             \/ agent[a].update \in stranded' \cup {None}
    PROVE  Held(u)'
  BY UpdatesAreNotNone DEF Held

\* A job that another one overwrites in the slot is recorded as lost.
LEMMA HeldQueued ==
    ASSUME NEW u \in Updates, NEW j, QueueJob(j), UNCHANGED agent, Held(u)
    PROVE  Held(u)'
  BY UpdatesAreNotNone DEF Held, QueueJob, Lose

LEMMA HeldRestarted ==
    ASSUME UpdatesInv, NEW u \in Updates, NEW self, RestartApi(self), UNCHANGED slot,
           self = << >> \/ \E b \in Agents, pc \in AgentPc : self = Now(b, pc),
           Held(u)
    PROVE  Held(u)'
<1>1. stranded \subseteq stranded'
  BY DEF RestartApi, Lose
<1>2. ASSUME NEW a \in Agents
      PROVE  agent'[a].update = agent[a].update \/ agent[a].update \in stranded' \cup {None}
  <2>1. CASE agent'[a] = CutOff(agent[a])
    <3>1. CASE agent[a].pc \in {"marking", "ending"}
      BY <3>1 DEF RestartApi, Lose
    <3>2. CASE agent[a].pc \notin {"marking", "ending"}
      BY <2>1, <3>2 DEF CutOff, UpdatesInv, TypeOK
    <3> QED BY <3>1, <3>2
  <2>2. CASE self = << >>
    BY <2>1, <2>2 DEF RestartApi
  <2>3. ASSUME NEW b \in Agents, NEW pc \in AgentPc, self = Now(b, pc)
        PROVE  agent'[a] = CutOff(agent[a]) \/ agent'[a] = [agent[a] EXCEPT !.pc = pc]
    BY <2>3 DEF RestartApi, Now
  <2>4. ASSUME NEW pc, agent'[a] = [agent[a] EXCEPT !.pc = pc] PROVE agent'[a].update = agent[a].update
    BY <2>4 DEF UpdatesInv, TypeOK
  <2> QED BY <2>1, <2>2, <2>3, <2>4
<1> QED BY <1>1, <1>2, HeldKept

\* An agent that goes on keeps its job.
LEMMA HeldStepped ==
    ASSUME UpdatesInv, NEW u \in Updates, NEW a \in Agents, NEW pc, NEW n,
           Step(a, pc) \/ agent' = [agent EXCEPT ![a].pc = pc, ![a].seen = n],
           UNCHANGED slot, stranded \subseteq stranded', Held(u)
    PROVE  Held(u)'
<1>1. ASSUME NEW b \in Agents PROVE agent'[b].update = agent[b].update
  <2>1. CASE Step(a, pc)
    BY <2>1 DEF Step, UpdatesInv, TypeOK
  <2>2. CASE agent' = [agent EXCEPT ![a].pc = pc, ![a].seen = n]
    BY <2>2 DEF UpdatesInv, TypeOK
  <2> QED BY <2>1, <2>2
<1> QED BY <1>1, HeldKept

\* An agent that rests has written the end of the deployment, with nobody left to
\* write that it runs, or the loss is recorded.
LEMMA HeldRested ==
    ASSUME UpdatesInv, NEW u \in Updates, NEW a \in Agents, Rest(a), UNCHANGED slot, Held(u),
           \/ Lose({agent[a].update})
           \/ /\ Ended(agent[a].update) /\ UNCHANGED <<job, request>>
              /\ u = agent[a].update => status'[u] # "deploying"
    PROVE  Held(u)' \/ (status'[u] # "deploying" /\ ~Unwritten(u)')
<1>1. \A b \in Agents : b # a => agent'[b] = agent[b]
  BY DEF Rest, UpdatesInv, TypeOK
<1>2. stranded \subseteq stranded'
  BY DEF Lose, Ended
<1>3. CASE u # agent[a].update \/ u \in stranded'
  BY <1>1, <1>2, <1>3 DEF Held
<1>4. CASE u = agent[a].update /\ u \notin stranded'
  <2>1. Ended(u) /\ UNCHANGED <<job, request>> /\ status'[u] # "deploying"
    BY <1>4, UpdatesAreNotNone DEF Lose
  <2>2. ~Unwritten(u)
    BY <1>4, <2>1, UpdatesAreNotNone DEF Ended, Lose
  <2> QED BY <2>1, <2>2 DEF Unwritten
<1> QED BY <1>3, <1>4

\* The host has the job until the deployment has come to its end.
LEMMA HeldStep ==
    ASSUME UpdatesInv, AttendedInv, [Next]_vars, NEW u \in Updates, Held(u)
    PROVE  Held(u)' \/ (status'[u] # "deploying" /\ ~Unwritten(u)')
<1>1. ASSUME NEW r \in Requests, RequestStep(r) PROVE Held(u)'
  <2>1. (\E j : QueueJob(j)) \/ (UNCHANGED slot /\ stranded \subseteq stranded')
    BY <1>1 DEF RequestStep, BeginTest, BeginApproval, BeginDeploy, BeginRollback, MarkTesting,
                AddTest,
                Approve, WriteApproval, Reread, QueueDeploy, StartHostDeploy, MarkDeploying,
                AddRollback, RequestFails, Lose
  <2>2. UNCHANGED agent
    BY <1>1 DEF RequestStep, BeginTest, BeginApproval, BeginDeploy, BeginRollback, MarkTesting,
                AddTest,
                Approve, WriteApproval, Reread, QueueDeploy, StartHostDeploy, MarkDeploying,
                AddRollback, RequestFails
  <2> QED BY <2>1, <2>2, HeldQueued, HeldKept
<1>2. ASSUME WorkerStep PROVE Held(u)'
  <2>1. (\E j : QueueJob(j)) \/ (UNCHANGED slot /\ stranded \subseteq stranded')
    BY <1>2 DEF WorkerStep, StartTest, FinishTest, StartRollback, EndRollback, JobFails,
                ForgetJob, Lose
  <2>2. UNCHANGED agent
    BY <1>2 DEF WorkerStep, StartTest, FinishTest, StartRollback, EndRollback, JobFails, ForgetJob
  <2> QED BY <2>1, <2>2, HeldQueued, HeldKept
<1>3. ASSUME NEW a \in Agents, AgentStep(a)
      PROVE  Held(u)' \/ (status'[u] # "deploying" /\ ~Unwritten(u)')
  <2>1. CASE Claim(a)
    <3>1. /\ agent'[a].update = slot.update /\ UNCHANGED stranded
          /\ \A b \in Agents : b # a => agent'[b] = agent[b]
      BY <2>1 DEF Claim, UpdatesInv, TypeOK
    <3>2. agent[a].update = None
      BY <2>1 DEF Claim, AttendedInv, AgentAt, Resting
    <3> QED BY <3>1, <3>2, UpdatesAreNotNone DEF Held
  <2>2. CASE CheckDeploy(a) \/ DeployFails(a) \/ Supersede(a) \/ Record(a) \/ SyncLost(a) \/ Verify(a)
             \/ Complete(a) \/ MarkRolledBack(a)
    <3>1. /\ \E pc, n : Step(a, pc) \/ agent' = [agent EXCEPT ![a].pc = pc, ![a].seen = n]
          /\ UNCHANGED <<slot, stranded>>
      BY <2>2 DEF CheckDeploy, DeployFails, Supersede, Record, SyncLost, Verify, Complete,
                  MarkRolledBack
    <3> QED BY <3>1, HeldStepped
  <2>3. CASE ReadActive(a)
    <3>1. \E pc, n : agent' = [agent EXCEPT ![a].pc = pc, ![a].seen = n]
      BY <2>3 DEF ReadActive
    <3> QED BY <2>3, <3>1, HeldStepped DEF ReadActive
  <2>4. CASE Build(a) \/ BuildFails(a) \/ Rollback(a)
    <3>1. /\ UNCHANGED slot
          /\ \/ \E pc \in AgentPc : RestartApi(Now(a, pc))
             \/ UNCHANGED stranded /\ \E pc : Step(a, pc)
      BY <2>4 DEF Build, BuildFails, ReplaceApi, KeepApi, Rollback, AgentPc
    <3>2. CASE \E pc \in AgentPc : RestartApi(Now(a, pc))
      BY <3>1, <3>2, HeldRestarted
    <3>3. CASE UNCHANGED stranded /\ \E pc : Step(a, pc)
      BY <3>1, <3>3, HeldStepped
    <3> QED BY <3>1, <3>2, <3>3
  <2>5. CASE Finish(a) \/ FinishFailed(a) \/ FinishRollback(a)
    <3>1. /\ Rest(a) /\ Ended(agent[a].update) /\ UNCHANGED <<slot, job, request>>
      BY <2>5 DEF Finish, FinishFailed, FinishRollback
    <3>2. u = agent[a].update => status'[u] # "deploying"
      BY <2>5, UpdatesAreNotNone DEF Finish, FinishFailed, FinishRollback, SetStatus,
                                     UpdatesInv, TypeOK
    <3> QED BY <3>1, <3>2, HeldRested
  <2>6. CASE FinishUnrolled(a)
    BY <2>6, HeldRested DEF FinishUnrolled
  <2>7. CASE CallLost(a)
    <3>1. CASE AgentAt(a, "complete")
      BY <2>7, <3>1, HeldStepped DEF CallLost
    <3>2. CASE ~AgentAt(a, "complete")
      BY <2>7, <3>2, HeldRested DEF CallLost
    <3> QED BY <3>1, <3>2
  <2> QED BY <1>3, <2>1, <2>2, <2>3, <2>4, <2>5, <2>6, <2>7 DEF AgentStep
<1>4. CASE RollbackVersion
  BY <1>4, HeldQueued DEF RollbackVersion
<1>5. CASE ClaimLost
  BY <1>5, UpdatesAreNotNone DEF ClaimLost, Lose, Held
<1>6. CASE Restart
  BY <1>6, HeldRestarted DEF Restart
<1>7. CASE Push \/ UNCHANGED vars
  BY <1>7, HeldKept DEF Push, vars
<1> QED BY <1>1, <1>2, <1>3, <1>4, <1>5, <1>6, <1>7 DEF Next

\* A job that is queued is in the slot.
LEMMA UnwrittenStep ==
    ASSUME UpdatesInv, [Next]_vars, NEW u \in Updates, Unwritten(u)', ~Unwritten(u)
    PROVE  Held(u)'
<1> USE DEF UpdatesInv
<1>1. ASSUME NEW r \in Requests, RequestStep(r) PROVE Held(u)'
  <2>1. PICK q \in Requests : request'[q].update = u /\ request'[q].pc \in {"start", "deploying"}
                              /\ request'[q] # request[q]
    <3>1. job'[<<"rollback", u>>].pc = "queued" => job[<<"rollback", u>>].pc = "queued"
      <4>1. job' = job \/ \E k \in JobTypes \X Updates : job' = [job EXCEPT ![k].pc = "waiting"]
        BY <1>1, RequestUpdate DEF RequestStep, BeginTest, BeginApproval, BeginDeploy,
                                   BeginRollback,
              MarkTesting, AddTest, Approve, WriteApproval, Reread, QueueDeploy, StartHostDeploy,
              MarkDeploying, AddRollback, RequestFails, AddJob, JobTypes, At
      <4> QED BY <4>1 DEF TypeOK, JobTypes
    <3> QED BY <3>1 DEF Unwritten
  <2>2. QueueDeploy(r) \/ StartHostDeploy(r) \/ request'[q].pc \notin {"start", "deploying"}
    BY <1>1, <2>1 DEF RequestStep, BeginTest, BeginApproval, BeginDeploy, BeginRollback, Begin,
                      MarkTesting,
            AddTest, Approve, WriteApproval, Reread, MarkDeploying, AddRollback, RequestFails, Goto,
            Leave, Idle, TypeOK
  <2>3. CASE QueueDeploy(r)
    <3>1. q = r /\ request'[r].update = request[r].update
      BY <2>1, <2>3 DEF QueueDeploy, Goto, TypeOK
    <3> QED BY <2>1, <2>3, <3>1 DEF QueueDeploy, QueueJob, Held
  <2>4. CASE StartHostDeploy(r)
    <3>1. q = r /\ request'[r].update = request[r].update /\ request[r].pc = "start"
      BY <2>1, <2>4 DEF StartHostDeploy, Goto, Leave, Idle, At, TypeOK
    <3> QED BY <2>1, <3>1 DEF Unwritten
  <2> QED BY <2>1, <2>2, <2>3, <2>4
<1>2. ASSUME WorkerStep PROVE Held(u)'
  <2>1. UNCHANGED request /\ job'[<<"rollback", u>>].pc = "queued" /\ job[<<"rollback", u>>].pc # "queued"
    BY <1>2 DEF WorkerStep, StartTest, FinishTest, StartRollback, EndRollback, JobFails,
                ForgetJob, Unwritten
  <2>2. ASSUME NEW v \in Updates, StartTest(v) \/ FinishTest(v) \/ EndRollback(v) PROVE FALSE
    BY <2>1, <2>2 DEF StartTest, FinishTest, EndRollback, TypeOK, JobTypes
  <2>3. ASSUME NEW k \in JobTypes \X Updates, JobFails(k) \/ ForgetJob(k) PROVE FALSE
    BY <2>1, <2>3 DEF JobFails, ForgetJob, Failed, NewJob, TypeOK, JobTypes
  <2>4. ASSUME NEW v \in Updates, StartRollback(v) PROVE Held(u)'
    <3>1. u = v
      BY <2>1, <2>4 DEF StartRollback, TypeOK, JobTypes
    <3> QED BY <2>4, <3>1 DEF StartRollback, QueueJob, Held
  <2> QED BY <1>2, <2>2, <2>3, <2>4 DEF WorkerStep
<1>3. RestartApi(<< >>) \/ (\E a \in Agents : \E pc : RestartApi(Now(a, pc))) => ~Unwritten(u)'
  <2>1. \A k \in JobTypes \X Updates : Stalled(k).pc = "queued" => FALSE
    BY DEF Stalled, InWork, Failed
  <2>2. <<"rollback", u>> \in JobTypes \X Updates
    BY DEF JobTypes
  <2> QED BY <2>1, <2>2 DEF RestartApi, Unwritten, Idle
<1>4. ASSUME NEW a \in Agents, AgentStep(a)
      PROVE  (\E pc : RestartApi(Now(a, pc))) \/ UNCHANGED <<request, job>>
  BY <1>4 DEF AgentStep, Claim, CheckDeploy, DeployFails, Build, BuildFails, ReplaceApi,
              KeepApi, Supersede, Record,
              SyncLost, Verify, Complete, Finish, FinishFailed, Rollback, ReadActive,
              MarkRolledBack, FinishRollback, FinishUnrolled, CallLost
<1>5. UNCHANGED <<request, job>> => ~Unwritten(u)'
  BY DEF Unwritten
<1>6. RollbackVersion \/ ClaimLost \/ Push \/ UNCHANGED vars => UNCHANGED <<request, job>>
  BY DEF RollbackVersion, ClaimLost, Push, vars
<1> QED BY <1>1, <1>2, <1>3, <1>4, <1>5, <1>6 DEF Next, Restart

\* "Deploying" is written by who has queued the job, or goes to queue it.
LEMMA DeployingStep ==
    ASSUME UpdatesInv, [Next]_vars, NEW u \in Updates, status'[u] = "deploying", status[u] # "deploying"
    PROVE  Unwritten(u) \/ Coming(u)'
<1> USE DEF UpdatesInv
<1>1. ASSUME NEW r \in Requests, RequestStep(r) PROVE Unwritten(u) \/ Coming(u)'
  <2>1. \/ MarkDeploying(r)
        \/ \E v \in Updates : BeginRollback(r, v)
        \/ UNCHANGED status
        \/ \E v, s : s # "deploying" /\ SetStatus(v, s)
    BY <1>1 DEF RequestStep, BeginTest, BeginApproval, BeginDeploy, MarkTesting, AddTest,
                Approve, WriteApproval, Reread, QueueDeploy, StartHostDeploy, AddRollback, RequestFails
  <2>2. CASE MarkDeploying(r)
    BY <2>2 DEF MarkDeploying, SetStatus, At, Unwritten, TypeOK
  <2>3. ASSUME NEW v \in Updates, BeginRollback(r, v) PROVE Coming(u)'
    BY <2>3 DEF BeginRollback, Begin, SetStatus, At, Coming, TypeOK
  <2>4. ASSUME NEW v, NEW s, s # "deploying", SetStatus(v, s) PROVE FALSE
    BY <2>4 DEF SetStatus, TypeOK
  <2> QED BY <2>1, <2>2, <2>3, <2>4
<1>2. ASSUME WorkerStep PROVE Unwritten(u)
  <2>1. \/ \E v \in Updates : EndRollback(v)
        \/ UNCHANGED status
        \/ \E v, s : s # "deploying" /\ SetStatus(v, s)
    BY <1>2 DEF WorkerStep, StartTest, FinishTest, StartRollback, JobFails, ForgetJob
  <2>2. ASSUME NEW v \in Updates, EndRollback(v) PROVE Unwritten(u)
    BY <2>2 DEF EndRollback, SetStatus, Unwritten, TypeOK
  <2>3. ASSUME NEW v, NEW s, s # "deploying", SetStatus(v, s) PROVE FALSE
    BY <2>3 DEF SetStatus, TypeOK
  <2> QED BY <2>1, <2>2, <2>3
<1>3. ASSUME NEW a \in Agents, AgentStep(a) PROVE FALSE
  <2>1. \/ UNCHANGED status
        \/ \E v, s : s # "deploying" /\ SetStatus(v, s)
    BY <1>3 DEF AgentStep, Claim, CheckDeploy, DeployFails, Build, BuildFails, ReplaceApi,
                KeepApi, Supersede, Record,
                SyncLost, Verify, Complete, Finish, FinishFailed, Rollback, ReadActive,
                MarkRolledBack, FinishRollback, FinishUnrolled, CallLost
  <2>2. ASSUME NEW v, NEW s, s # "deploying", SetStatus(v, s) PROVE FALSE
    BY <2>2 DEF SetStatus, TypeOK
  <2> QED BY <2>1, <2>2
<1>4. RollbackVersion \/ ClaimLost \/ Restart \/ Push \/ UNCHANGED vars => UNCHANGED status
  BY DEF RollbackVersion, ClaimLost, Push, Restart, vars
<1> QED BY <1>1, <1>2, <1>3, <1>4 DEF Next

\* A rollback that is on its way arrives, or its loss is recorded, unless the
\* job of it that runs is cut off.
LEMMA ComingStep ==
    ASSUME UpdatesInv, [Next]_vars, NEW u \in Updates, Coming(u)
    PROVE  Coming(u)' \/ Held(u)' \/ Unwritten(u)
<1> USE DEF UpdatesInv
<1> DEFINE k == <<"rollback", u>>
<1>0. /\ k \in JobTypes \X Updates /\ job \in JobRows
      /\ job[k].pc \in JobPc /\ job[k].pc # "active" /\ u # None
  BY UpdatesAreNotNone DEF TypeOK, JobTypes, JobRows
<1>1. ASSUME NEW r \in Requests, RequestStep(r) PROVE Coming(u)' \/ Held(u)'
  <2>1. CASE job[k].pc \in {"waiting", "queued"}
    <3>1. job' = job \/ \E l \in JobTypes \X Updates : job' = [job EXCEPT ![l].pc = "waiting"]
      BY <1>1, RequestUpdate DEF RequestStep, BeginTest, BeginApproval, BeginDeploy,
                                 BeginRollback,
            MarkTesting, AddTest, Approve, WriteApproval, Reread, QueueDeploy, StartHostDeploy,
            MarkDeploying, AddRollback, RequestFails, AddJob, JobTypes, At
    <3> QED BY <1>0, <2>1, <3>1 DEF Coming, JobRows
  <2>2. ASSUME NEW q \in Requests, At(q, "addRollback"), request[q].update = u
        PROVE  Coming(u)' \/ Held(u)'
    <3>1. CASE request'[q] = request[q]
      BY <2>2, <3>1 DEF Coming, At
    <3>2. CASE request'[q] # request[q]
      <4>1. r = q /\ (AddRollback(q) \/ RequestFails(q))
        BY <1>1, <2>2, <3>2 DEF RequestStep, BeginTest, BeginApproval, BeginDeploy,
                                BeginRollback, Begin,
              MarkTesting, AddTest, Approve, WriteApproval, Reread, QueueDeploy, StartHostDeploy,
              MarkDeploying, AddRollback, RequestFails, Goto, Leave, At, TypeOK
      <4>2. CASE RequestFails(q)
        BY <1>0, <2>2, <4>2 DEF RequestFails, Lose, Held
      <4>3. CASE AddRollback(q)
        <5>1. CASE job[k].pc \in {"held", "kept"}
          BY <1>0, <2>2, <4>3, <5>1 DEF AddRollback, Lose, Held
        <5>2. CASE job[k].pc \in {"none", "waiting", "queued"}
          <6>1. job'[k].pc \in {"waiting", "queued"}
            BY <1>0, <2>2, <4>3, <5>2 DEF AddRollback, AddJob, JobRows
          <6> QED BY <6>1 DEF Coming
        <5> QED BY <1>0, <5>1, <5>2 DEF JobPc
      <4> QED BY <4>1, <4>2, <4>3
    <3> QED BY <3>1, <3>2
  <2> QED BY <2>1, <2>2 DEF Coming
<1>2. ASSUME WorkerStep PROVE Coming(u)' \/ Held(u)' \/ Unwritten(u)
  <2>1. UNCHANGED request
    BY <1>2 DEF WorkerStep, StartTest, FinishTest, StartRollback, EndRollback, JobFails, ForgetJob
  <2>2. CASE job[k].pc = "waiting" /\ job'[k].pc # "waiting"
    <3>1. ASSUME NEW v \in Updates, StartTest(v) \/ FinishTest(v) \/ EndRollback(v) PROVE FALSE
      BY <1>0, <2>2, <3>1 DEF StartTest, FinishTest, EndRollback, JobRows, JobTypes
    <3>2. ASSUME NEW v \in Updates, StartRollback(v) PROVE Coming(u)'
      <4>1. u = v /\ job'[k].pc = "queued"
        BY <1>0, <2>2, <3>2 DEF StartRollback, JobRows, JobTypes
      <4> QED BY <4>1 DEF Coming
    <3>3. ASSUME NEW l \in JobTypes \X Updates, JobFails(l) PROVE Held(u)'
      <4>1. l = k
        BY <1>0, <2>2, <3>3 DEF JobFails, JobRows
      <4> QED BY <1>0, <2>2, <3>3, <4>1 DEF JobFails, InWork, Lose, Held
    <3>4. ASSUME NEW l \in JobTypes \X Updates, ForgetJob(l) PROVE FALSE
      BY <1>0, <2>2, <3>4 DEF ForgetJob, JobRows
    <3> QED BY <1>2, <3>1, <3>2, <3>3, <3>4 DEF WorkerStep
  <2> QED BY <2>1, <2>2 DEF Coming, Unwritten, At
<1>3. ASSUME NEW self, RestartApi(self) PROVE Coming(u)' \/ Held(u)' \/ Unwritten(u)
  <2>1. CASE job[k].pc = "waiting"
    <3>1. job'[k].pc = "waiting"
      BY <1>0, <1>3, <2>1 DEF RestartApi, Stalled, InWork
    <3> QED BY <3>1 DEF Coming
  <2>2. ASSUME NEW q \in Requests, At(q, "addRollback"), request[q].update = u PROVE u \in stranded'
    BY <1>0, <1>3, <2>2 DEF RestartApi, Lose
  <2> QED BY <2>1, <2>2 DEF Coming, Held, Unwritten
<1>4. ASSUME NEW a \in Agents, AgentStep(a)
      PROVE  (\E pc : RestartApi(Now(a, pc))) \/ UNCHANGED <<request, job>>
  BY <1>4 DEF AgentStep, Claim, CheckDeploy, DeployFails, Build, BuildFails, ReplaceApi,
              KeepApi, Supersede, Record,
              SyncLost, Verify, Complete, Finish, FinishFailed, Rollback, ReadActive,
              MarkRolledBack, FinishRollback, FinishUnrolled, CallLost
<1>5. UNCHANGED <<request, job>> => Coming(u)'
  BY DEF Coming, At
<1>6. RollbackVersion \/ ClaimLost \/ Push \/ UNCHANGED vars => UNCHANGED <<request, job>>
  BY DEF RollbackVersion, ClaimLost, Push, vars
<1> QED BY <1>1, <1>2, <1>3, <1>4, <1>5, <1>6 DEF Next, Restart

LEMMA AttendedStep == UpdatesInv /\ AttendedInv /\ [Next]_vars => AttendedInv'
<1> SUFFICES ASSUME UpdatesInv, AttendedInv, [Next]_vars PROVE AttendedInv'
  OBVIOUS
<1>1. ASSUME NEW a \in Agents, agent'[a].pc = "idle" PROVE agent'[a] = Resting
  BY <1>1, AgentPcStep DEF AttendedInv, AgentAt, Resting
<1>2. ASSUME NEW u \in Updates, Unwritten(u)' PROVE Held(u)'
  <2>1. CASE Unwritten(u)
    BY <1>2, <2>1, HeldStep DEF AttendedInv
  <2> QED BY <1>2, <2>1, UnwrittenStep
<1>3. ASSUME NEW u \in Updates, status'[u] = "deploying" PROVE Held(u)' \/ Coming(u)'
  <2>1. CASE Held(u)
    BY <1>3, <2>1, HeldStep
  <2>2. CASE Unwritten(u)
    BY <2>1, <2>2 DEF AttendedInv
  <2>3. CASE Coming(u)
    BY <2>2, <2>3, ComingStep
  <2>4. CASE status[u] # "deploying"
    BY <1>3, <2>2, <2>4, DeployingStep
  <2> QED BY <2>1, <2>3, <2>4 DEF AttendedInv
<1> QED BY <1>1, <1>2, <1>3 DEF AttendedInv, AgentAt

\* An update that is "deploying" has a job on its way, in the slot or with an
\* agent, or what lost the job is one of the cases that stranded records.
THEOREM AttendedTheorem == Spec => []DeployingIsAttended
<1>1. Init => AttendedInv
  BY DEF Init, AttendedInv, Unwritten, AgentAt, Idle, NewJob, JobTypes
<1>2. Spec => []AttendedInv
  BY <1>1, UpdatesSafe, AttendedStep, PTL DEF Spec
<1>3. AttendedInv => DeployingIsAttended
  BY DEF AttendedInv, DeployingIsAttended, Attended, Held, Coming
<1> QED BY <1>2, <1>3, PTL

=============================================================================
