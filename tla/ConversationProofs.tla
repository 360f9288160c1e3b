-------------------------- MODULE ConversationProofs --------------------------
(***************************************************************************)
(* Proofs about Conversation for any number of dialogs, messages answered  *)
(* at once, edits and faults: what summarising may delete, and that a      *)
(* dialog is answered with one variant.                                    *)
(***************************************************************************)
EXTENDS Conversation, FiniteSetTheorems, SequenceTheorems, TLAPS

Request == [pc : RequestPc, dialog : Dialogs \cup {"none"},
            question : Questions \cup {"none"}, old : SUBSET Nat,
            variant : Variants \cup {"none"}]

\* The part of the state the theorems are about, and its types.
talk == <<count, rows, summarised, assignment, given, request>>

TalkTypes ==
    /\ count \in [Dialogs -> Nat]
    /\ rows \in [Dialogs -> SUBSET Nat]
    /\ \A d \in Dialogs : rows[d] \subseteq 1..count[d]
    /\ summarised \in [Dialogs -> SUBSET Nat]
    /\ assignment \in [Dialogs -> Variants \cup {"none"}]
    /\ given \in [Dialogs -> SUBSET Variants]
    /\ request \in [Requests -> Request]
    /\ \A r \in Requests : request[r].pc # "idle" => request[r].dialog \in Dialogs

\* What a request is about to summarise and delete is older than the last Keep
\* messages, however many have been stored since it was read.
OldIsOld ==
    \A r \in Requests : request[r].pc # "idle" =>
        \A i \in request[r].old : i + Keep <= count[Dialog(r)]

RecentStay ==
    \A d \in Dialogs : \A i \in 1..count[d] : i + Keep > count[d] => i \in rows[d]

\* What a request is about to delete is in a summary.
DeletesSummarised ==
    \A r \in Requests : At(r, "deleting") => request[r].old \subseteq summarised[Dialog(r)]

\* A variant is given only as it was assigned.
BeforeVariant == {"asked", "hit", "missed", "testing"}

GivenIsAssigned ==
    /\ \A d \in Dialogs : given[d] \subseteq {assignment[d]}
    /\ \A r \in Requests :
          /\ request[r].pc \in BeforeVariant => request[r].variant = "none"
          /\ At(r, "assign") => request[r].variant \in Variants
          /\ At(r, "assemble") => request[r].variant \in {"none", assignment[Dialog(r)]}

TalkInv == TalkTypes /\ OldIsOld /\ RecentStay /\ DeletedIsSummarised /\ DeletesSummarised
           /\ GivenIsAssigned

-----------------------------------------------------------------------------
(* Lemmas *)

\* The actions that touch nothing of this part.
LEMMA Elsewhere ==
    ASSUME \/ \E e \in Editors : EditorStep(e)
           \/ \E d \in Dialogs : MarkConverted(d)
           \/ \E q \in Questions : Expire(q)
           \/ \E x \in Experiments : PauseExperiment(x)
           \/ UNCHANGED vars
    PROVE  UNCHANGED talk
<1>1. ASSUME NEW e \in Editors, EditorStep(e) PROVE UNCHANGED talk
  BY <1>1 DEF EditorStep, BeginCreate, BeginActivate, Deactivate, InsertVersion,
       ActivateVersion, BeginStart, PauseOthers, RunExperiment, EditFails,
       dialogVars, testVars, promptVars, talk
<1> QED
  BY <1>1 DEF MarkConverted, Expire, PauseExperiment, dialogVars, testVars, vars, talk

LEMMA IdleRequest == NoRequest \in Request /\ NoRequest.pc = "idle"
BY DEF NoRequest, Request, RequestPc

\* Of the messages 1..c, the Keep newest are those within Keep of c.
LEMMA NewestOfAll ==
    ASSUME NEW c \in Nat, NEW i \in 1..c
    PROVE  i \in Newest(Keep, 1..c) <=> i + Keep > c
<1>1. {k \in 1..c : k > i} = (i + 1)..c
  <2>1. i \in Nat /\ i >= 1
    OBVIOUS
  <2>2. \A k : k \in {m \in 1..c : m > i} <=> k \in (i + 1)..c
    BY <2>1
  <2> QED BY <2>2
<1>2. Cardinality((i + 1)..c) = c - i
  BY FS_Interval
<1>3. i \in Newest(Keep, 1..c) <=> Cardinality({k \in 1..c : k > i}) < Keep
  BY DEF Newest
<1>4. i \in Newest(Keep, 1..c) <=> c - i < Keep
  BY <1>1, <1>2, <1>3
<1> QED BY <1>4, KeepAssumption

\* What was read besides the Keep newest is older than the last Keep messages.
LEMMA NotNewest ==
    ASSUME NEW c \in Nat, NEW S \in SUBSET (1..c), NEW i \in S \ Newest(Keep, S)
    PROVE  i + Keep <= c
<1> DEFINE Later == {k \in S : k > i}
<1>1. Later \subseteq (i + 1)..c
  <2>1. i \in Nat /\ \A k \in S : k \in Nat /\ k <= c
    OBVIOUS
  <2>2. ASSUME NEW k \in Later PROVE k \in (i + 1)..c
    BY <2>1
  <2> QED BY <2>2
<1>2. IsFiniteSet((i + 1)..c) /\ Cardinality((i + 1)..c) = c - i
  BY FS_Interval
<1>3. Cardinality(Later) <= c - i /\ Cardinality(Later) \in Nat
  BY <1>1, <1>2, FS_Subset, FS_CardinalityType
<1>4. ~(Cardinality(Later) < Keep)
  BY DEF Newest
<1> QED BY <1>3, <1>4, KeepAssumption

-----------------------------------------------------------------------------
(* The types *)

LEMMA TypesInit == Init => TalkTypes
BY IdleRequest DEF Init, TalkTypes

LEMMA MessageTypes ==
    ASSUME TalkTypes, NEW d \in Dialogs, AddMessage(d)
    PROVE  /\ count' \in [Dialogs -> Nat] /\ rows' \in [Dialogs -> SUBSET Nat]
           /\ \A k \in Dialogs : rows'[k] \subseteq 1..count'[k]
           /\ summarised' \in [Dialogs -> SUBSET Nat]
<1>1. rows[d] \cup {count[d] + 1} \subseteq 1..(count[d] + 1)
  BY DEF TalkTypes
<1> QED BY <1>1 DEF AddMessage, TalkTypes

\* A request that goes on, or ends, keeps its type.
LEMMA RequestTypes ==
    ASSUME TalkTypes, NEW r \in Requests, NEW q \in Request,
           q.pc # "idle" => q.dialog \in Dialogs,
           request' = [request EXCEPT ![r] = q]
    PROVE  /\ request' \in [Requests -> Request]
           /\ \A k \in Requests : request'[k].pc # "idle" => request'[k].dialog \in Dialogs
BY DEF TalkTypes

LEMMA GotoTypes ==
    ASSUME TalkTypes, NEW r \in Requests, NEW pc \in RequestPc, request[r].pc # "idle",
           Goto(r, pc)
    PROVE  /\ request' \in [Requests -> Request]
           /\ \A k \in Requests : request'[k].pc # "idle" => request'[k].dialog \in Dialogs
<1>1. PICK q : q = [request[r] EXCEPT !.pc = pc]
  OBVIOUS
<1>2. q \in Request /\ q.dialog = request[r].dialog
  BY <1>1 DEF TalkTypes, Request
<1>3. request' = [request EXCEPT ![r] = q]
  BY <1>1 DEF Goto
<1> QED BY <1>2, <1>3, RequestTypes DEF TalkTypes

LEMMA LeaveTypes ==
    ASSUME TalkTypes, NEW r \in Requests, Leave(r)
    PROVE  /\ request' \in [Requests -> Request]
           /\ \A k \in Requests : request'[k].pc # "idle" => request'[k].dialog \in Dialogs
BY RequestTypes, IdleRequest DEF Leave

\* Each step of a request keeps the types.
LEMMA StepTypes ==
    ASSUME TalkTypes, NEW r \in Requests, RequestStep(r)
    PROVE  TalkTypes'
<1> USE DEF dialogVars, testVars, At
<1>1. CASE \E d \in Dialogs, q \in Questions : Ask(r, d, q)
  <2>1. PICK d \in Dialogs, q \in Questions : Ask(r, d, q)
    BY <1>1
  <2>2. PICK new : new = [NoRequest EXCEPT !.pc = "asked", !.dialog = d, !.question = q]
    OBVIOUS
  <2>3. new \in Request /\ new.dialog \in Dialogs /\ request' = [request EXCEPT ![r] = new]
    BY <2>1, <2>2 DEF Ask, NoRequest, Request, RequestPc
  <2> QED BY <2>1, <2>3, MessageTypes, RequestTypes DEF Ask, TalkTypes
<1>2. CASE CompleteLead(r)
  BY <1>2 DEF CompleteLead, TalkTypes
<1>3. CASE Block(r) \/ AnswerFromCache(r)
  <2>1. Dialog(r) \in Dialogs
    BY <1>3 DEF Block, AnswerFromCache, TalkTypes, Dialog
  <2> QED BY <1>3, <2>1, MessageTypes, LeaveTypes DEF Block, AnswerFromCache, TalkTypes
<1>4. CASE Lookup(r) \/ ReadExperiment(r)
  <2>1. \E pc \in RequestPc : Goto(r, pc)
    BY <1>4 DEF Lookup, ReadExperiment, RequestPc
  <2> QED BY <1>4, <2>1, GotoTypes DEF Lookup, ReadExperiment, TalkTypes
<1>5. CASE ReadAssignment(r)
  <2>1. PICK v \in Variants : request' = [request EXCEPT
             ![r].variant = v,
             ![r].pc = IF assignment[Dialog(r)] = v THEN "assemble" ELSE "assign"]
    BY <1>5 DEF ReadAssignment
  <2>2. PICK q : q = [request[r] EXCEPT
             !.variant = v,
             !.pc = IF assignment[Dialog(r)] = v THEN "assemble" ELSE "assign"]
    OBVIOUS
  <2>3. q \in Request /\ q.dialog = request[r].dialog
    BY <2>2 DEF TalkTypes, Request, RequestPc
  <2>4. request' = [request EXCEPT ![r] = q]
    BY <2>1, <2>2 DEF TalkTypes, Request
  <2> QED BY <1>5, <2>3, <2>4, RequestTypes DEF ReadAssignment, TalkTypes
<1>6. CASE Assign(r)
  <2>1. Dialog(r) \in Dialogs /\ request[r].variant \in Variants \cup {"none"}
    BY <1>6 DEF Assign, TalkTypes, Dialog, Request
  <2>2. assignment' \in [Dialogs -> Variants \cup {"none"}]
    BY <1>6, <2>1 DEF Assign, TalkTypes
  <2> QED BY <1>6, <2>2, GotoTypes, LeaveTypes DEF Assign, TalkTypes, RequestPc
<1>7. CASE Assemble(r)
  <2>1. Dialog(r) \in Dialogs /\ {request[r].variant} \ {"none"} \subseteq Variants
    BY <1>7 DEF Assemble, TalkTypes, Dialog, Request
  <2>2. given' \in [Dialogs -> SUBSET Variants]
    BY <1>7, <2>1 DEF Assemble, TalkTypes
  <2> QED BY <1>7, <2>2, GotoTypes DEF Assemble, TalkTypes, RequestPc
<1>8. CASE StoreAnswer(r)
  <2>1. Dialog(r) \in Dialogs
    BY <1>8 DEF StoreAnswer, TalkTypes, Dialog
  <2> QED BY <1>8, <2>1, MessageTypes, GotoTypes DEF StoreAnswer, TalkTypes, RequestPc
<1>9. CASE ReadHistory(r)
  <2> DEFINE Read == Newest(Limit, rows[Dialog(r)])
  <2>1. Dialog(r) \in Dialogs /\ Read \in SUBSET Nat /\ Read \ Newest(Keep, Read) \in SUBSET Nat
    BY <1>9 DEF ReadHistory, TalkTypes, Dialog, Newest
  <2>2. PICK old \in SUBSET Nat, pc \in {"summarising", "caching"} :
           request' = [request EXCEPT ![r].old = old, ![r].pc = pc]
    BY <1>9, <2>1 DEF ReadHistory
  <2>3. PICK q : q = [request[r] EXCEPT !.old = old, !.pc = pc]
    OBVIOUS
  <2>4. q \in Request /\ q.dialog = request[r].dialog
    BY <2>3 DEF TalkTypes, Request, RequestPc
  <2>5. request' = [request EXCEPT ![r] = q]
    BY <2>2, <2>3 DEF TalkTypes, Request
  <2> QED BY <1>9, <2>4, <2>5, RequestTypes DEF ReadHistory, TalkTypes
<1>10. CASE WriteSummary(r)
  <2>1. Dialog(r) \in Dialogs /\ request[r].old \in SUBSET Nat
    BY <1>10 DEF WriteSummary, TalkTypes, Dialog, Request
  <2>2. summarised' \in [Dialogs -> SUBSET Nat]
    BY <1>10, <2>1 DEF WriteSummary, TalkTypes
  <2> QED BY <1>10, <2>2, GotoTypes DEF WriteSummary, TalkTypes, RequestPc
<1>11. CASE DeleteMessages(r)
  <2>1. Dialog(r) \in Dialogs
    BY <1>11 DEF DeleteMessages, TalkTypes, Dialog
  <2>2. /\ rows' \in [Dialogs -> SUBSET Nat]
        /\ \A d \in Dialogs : rows'[d] \subseteq rows[d]
    BY <1>11, <2>1 DEF DeleteMessages, TalkTypes
  <2> QED BY <1>11, <2>2, GotoTypes DEF DeleteMessages, TalkTypes, RequestPc
<1>12. CASE CacheAnswer(r) \/ RequestFails(r)
  BY <1>12, LeaveTypes DEF CacheAnswer, RequestFails, TalkTypes
<1> QED
  BY <1>1, <1>2, <1>3, <1>4, <1>5, <1>6, <1>7, <1>8, <1>9, <1>10, <1>11, <1>12
     DEF RequestStep

LEMMA TypesStep ==
    ASSUME TalkTypes, [Next]_vars
    PROVE  TalkTypes'
<1>1. CASE UNCHANGED talk
  BY <1>1 DEF talk, TalkTypes
<1>2. ASSUME NEW d \in Dialogs, FollowUpMessage(d) PROVE TalkTypes'
  BY <1>2, MessageTypes DEF FollowUpMessage, TalkTypes, testVars
<1>3. CASE Restart
  <2>1. \A r \in Requests : request'[r] = NoRequest
    BY <1>3 DEF Restart
  <2>2. request' \in [Requests -> Request]
    BY <1>3, IdleRequest DEF Restart
  <2> QED BY <1>3, <2>1, <2>2, IdleRequest DEF Restart, TalkTypes, dialogVars
<1> QED
  BY <1>1, <1>2, <1>3, StepTypes, Elsewhere DEF Next

-----------------------------------------------------------------------------
(* The last messages stay *)

\* Storing a message makes none of the others newer.
LEMMA MessageStays ==
    ASSUME TalkTypes, NEW d \in Dialogs, AddMessage(d), RecentStay
    PROVE  /\ \A k \in Dialogs : count'[k] >= count[k]
           /\ RecentStay'
<1>1. /\ count' = [count EXCEPT ![d] = count[d] + 1]
      /\ rows' = [rows EXCEPT ![d] = rows[d] \cup {count[d] + 1}]
  BY DEF AddMessage
<1>2. ASSUME NEW k \in Dialogs, NEW i \in 1..count'[k], i + Keep > count'[k]
      PROVE  i \in rows'[k]
  <2>1. CASE k # d
    BY <1>1, <1>2, <2>1 DEF TalkTypes, RecentStay
  <2>2. CASE k = d /\ i = count[d] + 1
    BY <1>1, <2>2 DEF TalkTypes
  <2>3. CASE k = d /\ i # count[d] + 1
    <3>1. i \in 1..count[d] /\ i + Keep > count[d]
      BY <1>1, <1>2, <2>3, KeepAssumption DEF TalkTypes
    <3> QED BY <1>1, <2>3, <3>1 DEF TalkTypes, RecentStay
  <2> QED BY <2>1, <2>2, <2>3
<1>3. \A k \in Dialogs : count'[k] >= count[k]
  BY <1>1 DEF TalkTypes
<1> QED BY <1>2, <1>3 DEF RecentStay

\* A request that keeps what it read, or starts or ends, stays about old messages.
LEMMA OldStays ==
    ASSUME TalkTypes, TalkTypes', OldIsOld,
           \A d \in Dialogs : count'[d] >= count[d],
           \A r \in Requests : \/ request'[r].pc = "idle" \/ request'[r].old = {}
                              \/ /\ request[r].pc # "idle"
                                 /\ request'[r].old = request[r].old
                                 /\ request'[r].dialog = request[r].dialog
    PROVE  OldIsOld'
<1>1. ASSUME NEW r \in Requests, request'[r].pc # "idle", NEW i \in request'[r].old
      PROVE  i + Keep <= count'[request'[r].dialog]
  <2>1. request[r].pc # "idle" /\ i \in request[r].old /\ request'[r].dialog = request[r].dialog
    BY <1>1
  <2>2. request[r].dialog \in Dialogs /\ i \in Nat
    BY <2>1 DEF TalkTypes, Request
  <2>3. i + Keep <= count[request[r].dialog]
    BY <2>1 DEF OldIsOld, Dialog
  <2>4. count[request[r].dialog] \in Nat /\ count'[request[r].dialog] \in Nat
    BY <2>2 DEF TalkTypes
  <2> QED BY <2>1, <2>2, <2>3, <2>4, KeepAssumption
<1> QED BY <1>1 DEF OldIsOld, Dialog

\* What a step of a request other than ReadHistory does with what was read.
LEMMA KeepsOld ==
    ASSUME TalkTypes, NEW r \in Requests, RequestStep(r), ~ReadHistory(r), NEW k \in Requests
    PROVE  \/ request'[k].pc = "idle" \/ request'[k].old = {}
           \/ /\ request[k].pc # "idle"
              /\ request'[k].old = request[k].old
              /\ request'[k].dialog = request[k].dialog
<1> USE DEF TalkTypes, Request, At, Goto, Leave, NoRequest
<1>1. CASE \E d \in Dialogs, q \in Questions : Ask(r, d, q)
  BY <1>1 DEF Ask
<1>2. CASE CompleteLead(r) \/ Block(r) \/ Lookup(r) \/ AnswerFromCache(r) \/ ReadExperiment(r)
  BY <1>2 DEF CompleteLead, Block, Lookup, AnswerFromCache, ReadExperiment
<1>3. CASE ReadAssignment(r)
  BY <1>3 DEF ReadAssignment
<1>4. CASE Assign(r) \/ Assemble(r) \/ StoreAnswer(r)
  BY <1>4 DEF Assign, Assemble, StoreAnswer
<1>5. CASE WriteSummary(r) \/ DeleteMessages(r)
  BY <1>5 DEF WriteSummary, DeleteMessages
<1>6. CASE CacheAnswer(r) \/ RequestFails(r)
  BY <1>6 DEF CacheAnswer, RequestFails
<1> QED BY <1>1, <1>2, <1>3, <1>4, <1>5, <1>6 DEF RequestStep

LEMMA OldStep ==
    ASSUME TalkTypes, TalkTypes', OldIsOld, RecentStay, [Next]_vars
    PROVE  OldIsOld' /\ RecentStay'
<1>1. CASE UNCHANGED talk
  BY <1>1 DEF talk, OldIsOld, RecentStay, Dialog
<1>2. ASSUME NEW d \in Dialogs, FollowUpMessage(d) PROVE OldIsOld' /\ RecentStay'
  <2>1. request' = request /\ AddMessage(d)
    BY <1>2 DEF FollowUpMessage
  <2> QED BY <2>1, MessageStays, OldStays
<1>3. CASE Restart
  <2>1. count' = count /\ rows' = rows /\ \A r \in Requests : request'[r].pc = "idle"
    BY <1>3 DEF Restart, dialogVars, NoRequest
  <2>2. OldIsOld'
    BY <2>1 DEF OldIsOld
  <2> QED BY <2>1, <2>2 DEF RecentStay
<1>4. ASSUME NEW r \in Requests, RequestStep(r) PROVE OldIsOld' /\ RecentStay'
  <2>1. CASE ReadHistory(r)
    <3> DEFINE d    == request[r].dialog
               Read == Newest(Limit, rows[d])
    <3>1. d \in Dialogs /\ Read \in SUBSET (1..count[d]) /\ count[d] \in Nat
      BY <2>1 DEF ReadHistory, TalkTypes, At, Newest
    <3>2. /\ request'[r].old \subseteq Read \ Newest(Keep, Read)
          /\ request'[r].dialog = d
          /\ \A k \in Requests \ {r} : request'[k] = request[k]
      BY <2>1 DEF ReadHistory, TalkTypes, Request, Dialog
    <3>3. count' = count /\ rows' = rows
      BY <2>1 DEF ReadHistory, dialogVars
    <3>4. \A i \in request'[r].old : i + Keep <= count[d]
      BY <3>1, <3>2, NotNewest
    <3>5. OldIsOld'
      BY <3>2, <3>3, <3>4 DEF OldIsOld, Dialog
    <3> QED BY <3>3, <3>5 DEF RecentStay
  <2>2. CASE Block(r) \/ AnswerFromCache(r) \/ StoreAnswer(r)
             \/ \E d \in Dialogs, q \in Questions : Ask(r, d, q)
    <3>1. \E d \in Dialogs : AddMessage(d)
      BY <2>2 DEF Block, AnswerFromCache, StoreAnswer, Ask, TalkTypes, At, Dialog
    <3>2. ~ReadHistory(r)
      BY <2>2 DEF Block, AnswerFromCache, StoreAnswer, Ask, ReadHistory, At
    <3> QED BY <1>4, <3>1, <3>2, MessageStays, OldStays, KeepsOld
  <2>3. CASE DeleteMessages(r)
    <3> DEFINE d == Dialog(r)
    <3>1. /\ d \in Dialogs /\ count' = count
          /\ rows' = [rows EXCEPT ![d] = rows[d] \ request[r].old]
      BY <2>3 DEF DeleteMessages, TalkTypes, At, Dialog
    <3>2. ~ReadHistory(r) /\ request[r].pc # "idle"
      BY <2>3 DEF DeleteMessages, ReadHistory, At
    <3>3. \A i \in request[r].old : i + Keep <= count[d]
      BY <3>2 DEF OldIsOld
    <3>4. RecentStay'
      <4>1. ASSUME NEW k \in Dialogs, NEW i \in 1..count[k], i + Keep > count[k]
            PROVE  i \in rows'[k]
        <5>1. i \in rows[k]
          BY <4>1 DEF RecentStay
        <5>2. k = d => i \notin request[r].old
          BY <3>1, <3>3, <4>1, KeepAssumption DEF TalkTypes
        <5> QED BY <3>1, <5>1, <5>2 DEF TalkTypes
      <4> QED BY <3>1, <4>1 DEF RecentStay
    <3>5. \A k \in Dialogs : count'[k] >= count[k]
      BY <3>1 DEF TalkTypes
    <3> QED BY <1>4, <3>2, <3>4, <3>5, OldStays, KeepsOld
  <2>4. CASE CompleteLead(r) \/ Lookup(r) \/ ReadExperiment(r) \/ ReadAssignment(r) \/ Assign(r)
             \/ Assemble(r) \/ WriteSummary(r) \/ CacheAnswer(r) \/ RequestFails(r)
    <3>1. count' = count /\ rows' = rows
      BY <2>4 DEF CompleteLead, Lookup, ReadExperiment, ReadAssignment, Assign, Assemble,
           WriteSummary, CacheAnswer, RequestFails, dialogVars
    <3>2. CASE ReadHistory(r)
      BY <2>1, <3>2
    <3>3. CASE ~ReadHistory(r)
      <4>1. \A k \in Dialogs : count'[k] >= count[k]
        BY <3>1 DEF TalkTypes
      <4> QED BY <1>4, <3>1, <3>3, <4>1, OldStays, KeepsOld DEF RecentStay
    <3> QED BY <3>2, <3>3
  <2> QED BY <1>4, <2>1, <2>2, <2>3, <2>4 DEF RequestStep
<1> QED
  BY <1>1, <1>2, <1>3, <1>4, Elsewhere DEF Next

-----------------------------------------------------------------------------
(* What is deleted is in a summary *)

LEMMA MessageSummarised ==
    ASSUME TalkTypes, NEW d \in Dialogs, AddMessage(d), DeletedIsSummarised
    PROVE  DeletedIsSummarised' /\ summarised' = summarised
<1>1. /\ count' = [count EXCEPT ![d] = count[d] + 1]
      /\ rows' = [rows EXCEPT ![d] = rows[d] \cup {count[d] + 1}]
      /\ summarised' = summarised
  BY DEF AddMessage
<1>2. ASSUME NEW k \in Dialogs, NEW i \in (1..count'[k]) \ rows'[k]
      PROVE  i \in summarised[k]
  <2>1. i \in (1..count[k]) \ rows[k]
    BY <1>1, <1>2 DEF TalkTypes
  <2> QED BY <2>1 DEF DeletedIsSummarised
<1> QED BY <1>1, <1>2 DEF DeletedIsSummarised

\* A request that is not brought to "deleting" by the step.
LEMMA DeletesKept ==
    ASSUME TalkTypes, DeletesSummarised,
           \A d \in Dialogs : summarised[d] \subseteq summarised'[d],
           \A r \in Requests : request'[r].pc = "deleting" => request'[r] = request[r]
    PROVE  DeletesSummarised'
<1>1. ASSUME NEW r \in Requests, request'[r].pc = "deleting"
      PROVE  request'[r].old \subseteq summarised'[request'[r].dialog]
  <2>1. request[r].pc = "deleting" /\ request'[r] = request[r] /\ request[r].dialog \in Dialogs
    BY <1>1 DEF TalkTypes
  <2>2. request[r].old \subseteq summarised[request[r].dialog]
    BY <2>1 DEF DeletesSummarised, At, Dialog
  <2> QED BY <2>1, <2>2
<1> QED BY <1>1 DEF DeletesSummarised, At, Dialog

LEMMA SummaryStep ==
    ASSUME TalkTypes, DeletedIsSummarised, DeletesSummarised, [Next]_vars
    PROVE  DeletedIsSummarised' /\ DeletesSummarised'
<1>1. CASE UNCHANGED talk
  BY <1>1 DEF talk, DeletedIsSummarised, DeletesSummarised, At, Dialog
<1>2. ASSUME NEW d \in Dialogs, FollowUpMessage(d)
      PROVE  DeletedIsSummarised' /\ DeletesSummarised'
  <2>1. request' = request /\ AddMessage(d)
    BY <1>2 DEF FollowUpMessage
  <2> QED BY <2>1, MessageSummarised, DeletesKept
<1>3. CASE Restart
  <2>1. /\ count' = count /\ rows' = rows /\ summarised' = summarised
        /\ \A r \in Requests : request'[r].pc = "idle"
    BY <1>3 DEF Restart, dialogVars, NoRequest
  <2> QED BY <2>1, DeletesKept DEF DeletedIsSummarised
<1>4. ASSUME NEW r \in Requests, RequestStep(r)
      PROVE  DeletedIsSummarised' /\ DeletesSummarised'
  <2>1. CASE WriteSummary(r)
    <3> DEFINE d == Dialog(r)
    <3>1. /\ count' = count /\ rows' = rows /\ d \in Dialogs
          /\ summarised' = [summarised EXCEPT ![d] = summarised[d] \cup request[r].old]
          /\ request' = [request EXCEPT ![r].pc = "deleting"]
      BY <2>1 DEF WriteSummary, TalkTypes, At, Dialog, Goto
    <3>2. \A k \in Dialogs : summarised[k] \subseteq summarised'[k]
      BY <3>1 DEF TalkTypes
    <3>3. DeletedIsSummarised'
      BY <3>1, <3>2 DEF DeletedIsSummarised
    <3>4. request'[r].old = request[r].old /\ request'[r].dialog = d
      BY <3>1 DEF TalkTypes, Request, Dialog
    <3>5. request'[r].old \subseteq summarised'[d]
      BY <3>1, <3>4 DEF TalkTypes
    <3>6. ASSUME NEW k \in Requests \ {r}, request'[k].pc = "deleting"
          PROVE  request'[k].old \subseteq summarised'[request'[k].dialog]
      <4>1. request'[k] = request[k]
        BY <3>1, <3>6 DEF TalkTypes
      <4>2. request[k].dialog \in Dialogs /\ request[k].old \subseteq summarised[request[k].dialog]
        BY <3>6, <4>1 DEF TalkTypes, DeletesSummarised, At, Dialog
      <4> QED BY <3>2, <4>1, <4>2
    <3> QED BY <3>3, <3>4, <3>5, <3>6 DEF DeletesSummarised, At, Dialog
  <2>2. CASE DeleteMessages(r)
    <3> DEFINE d == Dialog(r)
    <3>1. /\ d \in Dialogs /\ count' = count /\ summarised' = summarised
          /\ rows' = [rows EXCEPT ![d] = rows[d] \ request[r].old]
      BY <2>2 DEF DeleteMessages, TalkTypes, At, Dialog
    <3>2. request[r].old \subseteq summarised[d]
      BY <2>2 DEF DeletesSummarised, DeleteMessages
    <3>3. DeletedIsSummarised'
      BY <3>1, <3>2 DEF DeletedIsSummarised, TalkTypes
    <3>4. \A k \in Requests : request'[k].pc = "deleting" => request'[k] = request[k]
      BY <2>2 DEF DeleteMessages, TalkTypes, Request, Goto
    <3> QED BY <3>1, <3>3, <3>4, DeletesKept
  <2>3. CASE Block(r) \/ AnswerFromCache(r) \/ StoreAnswer(r)
             \/ \E d \in Dialogs, q \in Questions : Ask(r, d, q)
    <3>1. \E d \in Dialogs : AddMessage(d)
      BY <2>3 DEF Block, AnswerFromCache, StoreAnswer, Ask, TalkTypes, At, Dialog
    <3>2. ASSUME NEW k \in Requests, request'[k].pc = "deleting" PROVE request'[k] = request[k]
      <4>1. CASE Block(r) \/ AnswerFromCache(r) \/ StoreAnswer(r)
        BY <3>2, <4>1 DEF Block, AnswerFromCache, StoreAnswer, TalkTypes, Request, Goto, Leave,
             NoRequest
      <4>2. CASE \E d \in Dialogs, q \in Questions : Ask(r, d, q)
        BY <3>2, <4>2 DEF Ask, TalkTypes, NoRequest
      <4> QED BY <2>3, <4>1, <4>2
    <3> QED BY <3>1, <3>2, MessageSummarised, DeletesKept
  <2>4. CASE CompleteLead(r) \/ Lookup(r) \/ ReadExperiment(r) \/ ReadAssignment(r) \/ Assign(r)
             \/ Assemble(r) \/ ReadHistory(r) \/ CacheAnswer(r) \/ RequestFails(r)
    <3>1. count' = count /\ rows' = rows /\ summarised' = summarised
      BY <2>4 DEF CompleteLead, Lookup, ReadExperiment, ReadAssignment, Assign, Assemble,
           ReadHistory, CacheAnswer, RequestFails, dialogVars
    <3>2. DeletedIsSummarised'
      BY <3>1 DEF DeletedIsSummarised
    <3>3. ASSUME NEW k \in Requests, request'[k].pc = "deleting" PROVE request'[k] = request[k]
      <4>1. CASE CompleteLead(r) \/ Lookup(r) \/ ReadExperiment(r) \/ Assemble(r)
                 \/ CacheAnswer(r) \/ RequestFails(r)
        BY <3>3, <4>1 DEF CompleteLead, Lookup, ReadExperiment, Assemble, CacheAnswer,
             RequestFails, TalkTypes, Request, Goto, Leave, NoRequest
      <4>2. CASE ReadAssignment(r)
        BY <3>3, <4>2 DEF ReadAssignment, TalkTypes, Request
      <4>3. CASE Assign(r)
        BY <3>3, <4>3 DEF Assign, TalkTypes, Request, Goto, Leave, NoRequest
      <4>4. CASE ReadHistory(r)
        BY <3>3, <4>4 DEF ReadHistory, TalkTypes, Request
      <4> QED BY <2>4, <4>1, <4>2, <4>3, <4>4
    <3> QED BY <3>1, <3>2, <3>3, DeletesKept
  <2> QED BY <1>4, <2>1, <2>2, <2>3, <2>4 DEF RequestStep
<1> QED
  BY <1>1, <1>2, <1>3, <1>4, Elsewhere DEF Next

-----------------------------------------------------------------------------
(* One variant *)

\* A request's variant is kept, lost, or not yet chosen.
LEMMA VariantKept ==
    ASSUME TalkTypes, GivenIsAssigned, given' = given, assignment' = assignment,
           \A r \in Requests :
              \/ request'[r].pc \in BeforeVariant /\ request'[r].variant = "none"
              \/ request'[r].pc \notin BeforeVariant \cup {"assign", "assemble"}
              \/ /\ request'[r].pc = request[r].pc
                 /\ request'[r].variant = request[r].variant
                 /\ request'[r].dialog = request[r].dialog
              \/ request'[r].pc = "assemble" /\ request'[r].variant = "none"
    PROVE  GivenIsAssigned'
BY DEF GivenIsAssigned, BeforeVariant, At, Dialog

LEMMA VariantStep ==
    ASSUME TalkTypes, GivenIsAssigned, [Next]_vars
    PROVE  GivenIsAssigned'
<1>1. CASE UNCHANGED talk
  BY <1>1 DEF talk, GivenIsAssigned, At, Dialog
<1>2. ASSUME NEW d \in Dialogs, FollowUpMessage(d) PROVE GivenIsAssigned'
  BY <1>2 DEF FollowUpMessage, testVars, GivenIsAssigned, At, Dialog
<1>3. CASE Restart
  BY <1>3 DEF Restart, NoRequest, GivenIsAssigned, BeforeVariant, At
<1>4. ASSUME NEW r \in Requests, RequestStep(r) PROVE GivenIsAssigned'
  <2>1. CASE ReadAssignment(r)
    <3>1. /\ given' = given /\ assignment' = assignment
          /\ \A k \in Requests \ {r} : request'[k] = request[k]
      BY <2>1 DEF ReadAssignment, testVars, TalkTypes
    <3>2. PICK v \in Variants :
             /\ assignment[Dialog(r)] \in {v, "none"}
             /\ request'[r].variant = v /\ request'[r].dialog = Dialog(r)
             /\ request'[r].pc = IF assignment[Dialog(r)] = v THEN "assemble" ELSE "assign"
      BY <2>1 DEF ReadAssignment, TalkTypes, Request, Dialog
    <3>3. /\ request'[r].pc \in BeforeVariant => request'[r].variant = "none"
          /\ request'[r].pc = "assign" => request'[r].variant \in Variants
          /\ request'[r].pc = "assemble" =>
                request'[r].variant \in {"none", assignment'[request'[r].dialog]}
      BY <3>1, <3>2 DEF BeforeVariant
    <3> QED BY <3>1, <3>3 DEF GivenIsAssigned, At, Dialog
  <2>2. CASE Assign(r)
    <3> DEFINE d == Dialog(r)
    <3>1. /\ given' = given /\ d \in Dialogs /\ request[r].variant \in Variants
          /\ \A k \in Requests \ {r} : request'[k] = request[k]
      BY <2>2 DEF Assign, TalkTypes, GivenIsAssigned, At, Dialog, Goto, Leave
    <3>2. CASE assignment[d] = "none"
      <4>1. /\ assignment' = [assignment EXCEPT ![d] = request[r].variant]
            /\ request' = [request EXCEPT ![r].pc = "assemble"]
        BY <2>2, <3>2 DEF Assign, Goto
      <4>2. \A k \in Dialogs : assignment[k] # "none" => assignment'[k] = assignment[k]
        BY <3>2, <4>1 DEF TalkTypes
      <4>3. \A k \in Dialogs : given[k] \subseteq {assignment'[k]}
        <5>1. "none" \notin Variants
          BY DEF Variants
        <5> QED BY <4>2, <5>1 DEF GivenIsAssigned, TalkTypes
      <4>4. request'[r].variant = assignment'[d] /\ request'[r].dialog = d
            /\ request'[r].pc = "assemble"
        BY <3>1, <4>1 DEF TalkTypes, Request, Dialog
      <4>5. ASSUME NEW k \in Requests \ {r}, request'[k].pc = "assemble"
            PROVE  request'[k].variant \in {"none", assignment'[request'[k].dialog]}
        <5>1. /\ request'[k] = request[k] /\ request[k].dialog \in Dialogs
              /\ request[k].variant \in {"none", assignment[request[k].dialog]}
          BY <3>1, <4>5 DEF GivenIsAssigned, TalkTypes, At, Dialog
        <5> QED BY <4>2, <5>1
      <4> QED BY <3>1, <4>3, <4>4, <4>5 DEF GivenIsAssigned, BeforeVariant, At, Dialog
    <3>3. CASE assignment[d] # "none"
      <4>1. assignment' = assignment /\ request'[r].pc = "idle"
        BY <2>2, <3>3 DEF Assign, Leave, NoRequest, TalkTypes
      <4> QED BY <3>1, <4>1, VariantKept DEF BeforeVariant
    <3> QED BY <3>2, <3>3
  <2>3. CASE Assemble(r)
    <3> DEFINE d == Dialog(r)
    <3>1. /\ d \in Dialogs /\ assignment' = assignment
          /\ given' = [given EXCEPT ![d] = given[d] \cup ({request[r].variant} \ {"none"})]
          /\ request'[r].pc = "asking"
          /\ \A k \in Requests \ {r} : request'[k] = request[k]
      BY <2>3 DEF Assemble, TalkTypes, At, Dialog, Goto, Request
    <3>2. request[r].variant \in {"none", assignment[d]}
      BY <2>3 DEF Assemble, GivenIsAssigned
    <3>3. \A k \in Dialogs : given'[k] \subseteq {assignment'[k]}
      BY <3>1, <3>2 DEF GivenIsAssigned, TalkTypes
    <3> QED BY <3>1, <3>3 DEF GivenIsAssigned, BeforeVariant, At, Dialog
  <2>4. CASE \E d \in Dialogs, q \in Questions : Ask(r, d, q)
    <3>1. /\ given' = given /\ assignment' = assignment
          /\ request'[r].pc = "asked" /\ request'[r].variant = "none"
          /\ \A k \in Requests \ {r} : request'[k] = request[k]
      BY <2>4 DEF Ask, testVars, TalkTypes, NoRequest
    <3> QED BY <3>1, VariantKept DEF BeforeVariant
  <2>5. CASE CompleteLead(r)
    BY <2>5 DEF CompleteLead, GivenIsAssigned, At, Dialog
  <2>6. CASE Lookup(r) \/ ReadExperiment(r)
    <3>1. /\ given' = given /\ assignment' = assignment
          /\ request[r].pc \in BeforeVariant
          /\ request'[r].pc \in BeforeVariant \cup {"assemble"}
          /\ request'[r].variant = request[r].variant
          /\ \A k \in Requests \ {r} : request'[k] = request[k]
      BY <2>6 DEF Lookup, ReadExperiment, testVars, TalkTypes, Request, Goto, At, BeforeVariant
    <3>2. request[r].variant = "none"
      BY <3>1 DEF GivenIsAssigned
    <3> QED BY <3>1, <3>2, VariantKept
  <2>7. CASE Block(r) \/ AnswerFromCache(r) \/ StoreAnswer(r) \/ ReadHistory(r) \/ WriteSummary(r)
             \/ DeleteMessages(r) \/ CacheAnswer(r) \/ RequestFails(r)
    <3>1. /\ given' = given /\ assignment' = assignment
          /\ \A k \in Requests \ {r} : request'[k] = request[k]
      BY <2>7 DEF Block, AnswerFromCache, StoreAnswer, ReadHistory, WriteSummary, DeleteMessages,
           CacheAnswer, RequestFails, testVars, TalkTypes, Goto, Leave
    <3>2. request'[r].pc \notin BeforeVariant \cup {"assign", "assemble"}
      <4>1. CASE ReadHistory(r)
        BY <4>1 DEF ReadHistory, TalkTypes, Request, BeforeVariant
      <4>2. CASE StoreAnswer(r) \/ WriteSummary(r) \/ DeleteMessages(r)
        BY <4>2 DEF StoreAnswer, WriteSummary, DeleteMessages, Goto, TalkTypes, Request,
             BeforeVariant
      <4>3. CASE Block(r) \/ AnswerFromCache(r) \/ CacheAnswer(r) \/ RequestFails(r)
        BY <4>3 DEF Block, AnswerFromCache, CacheAnswer, RequestFails, Leave, NoRequest,
             TalkTypes, BeforeVariant
      <4> QED BY <2>7, <4>1, <4>2, <4>3
    <3> QED BY <3>1, <3>2, VariantKept
  <2> QED BY <1>4, <2>1, <2>2, <2>3, <2>4, <2>5, <2>6, <2>7 DEF RequestStep
<1> QED
  BY <1>1, <1>2, <1>3, <1>4, Elsewhere DEF Next

-----------------------------------------------------------------------------
(* The active version of the prompt *)

\* The part of the state that is about it, and its types.
edits == <<editor, prompts, raced, gap>>

Edits  == [pc : EditorPc, version : Nat, row : Nat, experiment : Experiments \cup {"none"}]
Prompt == [version : Nat, active : BOOLEAN]

\* What an edit will activate is there: versions are never deleted.
EditTypes ==
    /\ editor \in [Editors -> Edits]
    /\ prompts \in Seq(Prompt)
    /\ raced \in BOOLEAN /\ gap \in BOOLEAN
    /\ \A e \in Editors : /\ editor[e].row <= Len(prompts)
                          /\ EditorAt(e, "activate") => editor[e].row # 0

InHalf(e) == editor[e].pc \in HalfWay

\* Unless edits have raced, no more than one is half-way, no version is active
\* then, and no more than one is active otherwise.
Undisputed ==
    /\ \A e, f \in Editors : InHalf(e) /\ InHalf(f) => e = f
    /\ \A e \in Editors : InHalf(e) => Active = {}
    /\ \A i, j \in Active : i = j

\* Without an active version an edit is half-way, or one was lost there.
Explained == Active = {} /\ prompts # << >> => gap \/ \E e \in Editors : InHalf(e)

EditInv == EditTypes /\ (~raced => Undisputed) /\ Explained

\* Of several numbers one is the greatest.
LEMMA Greatest ==
    ASSUME NEW n \in Nat \ {0}, NEW f, \A i \in 1..n : f[i] \in Nat
    PROVE  \E m \in 1..n : \A i \in 1..n : f[i] <= f[m]
<1> DEFINE Bad == {k \in 1..n : ~\E m \in 1..k : \A i \in 1..k : f[i] <= f[m]}
<1> SUFFICES Bad = {}
  OBVIOUS
<1> SUFFICES ASSUME Bad # {} PROVE FALSE
  OBVIOUS
<1>1. Bad \subseteq Nat
  OBVIOUS
<1>2. \E x \in Bad : \A y \in Bad : ~(<<y, x>> \in OpToRel(<, Nat))
  BY <1>1, NatLessThanWellFounded, WFMin, Zenon
<1>3. PICK k \in Bad : \A y \in Bad : ~(y < k)
  BY <1>1, <1>2, Zenon DEF OpToRel
<1>4. k \in 1..n /\ ~\E m \in 1..k : \A i \in 1..k : f[i] <= f[m]
  OBVIOUS
<1>5. k # 1
  <2>1. 1 \in 1..1 /\ \A i \in 1..1 : f[i] <= f[1]
    OBVIOUS
  <2> QED BY <1>4, <2>1
<1>6. k - 1 \in 1..n /\ k - 1 < k
  BY <1>4, <1>5
<1>7. PICK m \in 1..(k - 1) : \A i \in 1..(k - 1) : f[i] <= f[m]
  BY <1>3, <1>6
<1> HIDE DEF Bad
<1>8. m \in 1..k /\ k \in 1..k
  BY <1>4, <1>6, <1>7
<1>9. \A i \in 1..k : i = k \/ i \in 1..(k - 1)
  BY <1>4
<1>10. f[k] \in Nat /\ f[m] \in Nat /\ \A i \in 1..k : f[i] \in Nat
  BY <1>4, <1>8
<1>11. CASE f[k] <= f[m]
  BY <1>4, <1>7, <1>8, <1>9, <1>11
<1>12. CASE f[m] <= f[k]
  <2>1. \A i \in 1..k : f[i] <= f[k]
    BY <1>7, <1>9, <1>10, <1>12
  <2> QED BY <1>4, <1>8, <2>1
<1> QED BY <1>10, <1>11, <1>12

LEMMA VersionIsNat == ASSUME prompts \in Seq(Prompt) PROVE LastVersion \in Nat
<1>1. CASE prompts = << >>
  BY <1>1 DEF LastVersion
<1>2. CASE prompts # << >>
  <2>1. Len(prompts) \in Nat \ {0} /\ \A i \in 1..Len(prompts) : prompts[i].version \in Nat
    <3>1. Len(prompts) \in Nat \ {0}
      BY <1>2, EmptySeq
    <3>2. \A i \in 1..Len(prompts) : prompts[i] \in Prompt
      BY LenProperties
    <3> QED BY <3>1, <3>2 DEF Prompt
  <2> DEFINE V == [i \in 1..Len(prompts) |-> prompts[i].version]
  <2>2. PICK m \in 1..Len(prompts) : \A i \in 1..Len(prompts) : V[i] <= V[m]
    <3>1. \A i \in 1..Len(prompts) : V[i] \in Nat
      BY <2>1
    <3> HIDE DEF V
    <3> QED BY <2>1, <3>1, Greatest
  <2>3. \E k \in {prompts[i].version : i \in 1..Len(prompts)} :
           \A i \in 1..Len(prompts) : prompts[i].version <= k
    <3>1. \A i \in 1..Len(prompts) : prompts[i].version <= prompts[m].version
      BY <2>2
    <3> QED BY <3>1
  <2>4. LastVersion \in {prompts[i].version : i \in 1..Len(prompts)}
    BY <1>2, <2>3 DEF LastVersion
  <2> QED BY <2>1, <2>4
<1> QED BY <1>1, <1>2

\* An editor takes the next step of its edit: what the invariant asks of it.
EditOK(new, n) == new \in Edits /\ new.row <= n /\ (new.pc = "activate" => new.row # 0)

LEMMA NoEditOK == ASSUME NEW n \in Nat PROVE EditOK(NoEdit, n) /\ NoEdit.pc \notin HalfWay
BY DEF EditOK, NoEdit, Edits, EditorPc, HalfWay

\* An edit that neither becomes nor stops being half-way, prompts as they were.
LEMMA EditGoesOn ==
    ASSUME EditInv, NEW e \in Editors, NEW new, EditOK(new, Len(prompts)),
           editor' = [editor EXCEPT ![e] = new], UNCHANGED <<prompts, raced, gap>>,
           ~InHalf(e), new.pc \notin HalfWay
    PROVE  EditInv'
<1>1. \A f \in Editors : InHalf(f)' <=> InHalf(f)
  BY DEF EditInv, EditTypes, InHalf
<1>2. Active' = Active
  BY DEF Active
<1>3. EditTypes'
  BY DEF EditInv, EditTypes, EditOK, EditorAt
<1> QED BY <1>1, <1>2, <1>3 DEF EditInv, Undisputed, Explained

LEMMA BeginKept ==
    ASSUME EditInv, NEW e \in Editors,
           \/ BeginCreate(e) \/ \E i \in 1..Len(prompts) : BeginActivate(e, i)
           \/ \E x \in Experiments : BeginStart(e, x)
    PROVE  EditInv'
<1>1. ~InHalf(e) /\ UNCHANGED <<prompts, raced, gap>> /\ Len(prompts) \in Nat
  BY LenProperties DEF BeginCreate, BeginActivate, BeginStart, EditorAt, InHalf, HalfWay,
     promptVars, EditInv, EditTypes
<1>2. PICK new : EditOK(new, Len(prompts)) /\ new.pc \notin HalfWay
                 /\ editor' = [editor EXCEPT ![e] = new]
  <2>1. CASE BeginCreate(e)
    <3>1. PICK new : new = [NoEdit EXCEPT !.pc = "deactivate", !.version = LastVersion + 1]
      OBVIOUS
    <3>2. LastVersion + 1 \in Nat
      BY VersionIsNat DEF EditInv, EditTypes
    <3>3. new = [pc |-> "deactivate", version |-> LastVersion + 1, row |-> 0,
                 experiment |-> "none"]
      BY <3>1 DEF NoEdit
    <3>4. EditOK(new, Len(prompts)) /\ new.pc \notin HalfWay
      BY <1>1, <3>2, <3>3 DEF EditOK, Edits, EditorPc, HalfWay
    <3>5. editor' = [editor EXCEPT ![e] = new]
      BY <2>1, <3>1 DEF BeginCreate, Edit
    <3> QED BY <3>4, <3>5
  <2>2. CASE \E i \in 1..Len(prompts) : BeginActivate(e, i)
    <3>1. PICK i \in 1..Len(prompts) : BeginActivate(e, i)
      BY <2>2
    <3>2. PICK new : new = [NoEdit EXCEPT !.pc = "deactivate", !.row = i]
      OBVIOUS
    <3>3. new = [pc |-> "deactivate", version |-> 0, row |-> i, experiment |-> "none"]
      BY <3>2 DEF NoEdit
    <3>4. EditOK(new, Len(prompts)) /\ new.pc \notin HalfWay
      BY <1>1, <3>3 DEF EditOK, Edits, EditorPc, HalfWay
    <3>5. editor' = [editor EXCEPT ![e] = new]
      BY <3>1, <3>2 DEF BeginActivate, Edit
    <3> QED BY <3>4, <3>5
  <2>3. CASE \E x \in Experiments : BeginStart(e, x)
    <3>1. PICK x \in Experiments : BeginStart(e, x)
      BY <2>3
    <3>2. PICK new : new = [NoEdit EXCEPT !.pc = "pause", !.experiment = x]
      OBVIOUS
    <3>3. new = [pc |-> "pause", version |-> 0, row |-> 0, experiment |-> x]
      BY <3>2 DEF NoEdit
    <3>4. EditOK(new, Len(prompts)) /\ new.pc \notin HalfWay
      BY <1>1, <3>3 DEF EditOK, Edits, EditorPc, HalfWay
    <3>5. editor' = [editor EXCEPT ![e] = new]
      BY <3>1, <3>2 DEF BeginStart, Edit
    <3> QED BY <3>4, <3>5
  <2> QED BY <2>1, <2>2, <2>3
<1> QED BY <1>1, <1>2, EditGoesOn

\* A step of an edit that leaves the prompts alone.
LEMMA EditsExperiments ==
    ASSUME EditInv, NEW e \in Editors, PauseOthers(e) \/ RunExperiment(e)
    PROVE  EditInv'
<1>1. ~InHalf(e) /\ UNCHANGED <<prompts, raced, gap>> /\ Len(prompts) \in Nat
  BY LenProperties DEF PauseOthers, RunExperiment, EditorAt, InHalf, HalfWay, promptVars,
     EditInv, EditTypes
<1>2. CASE PauseOthers(e)
  <2>1. PICK new : new = [editor[e] EXCEPT !.pc = "run"]
    OBVIOUS
  <2>2. EditOK(new, Len(prompts)) /\ new.pc \notin HalfWay
    BY <2>1 DEF EditInv, EditTypes, EditOK, Edits, EditorPc, HalfWay
  <2> QED BY <1>1, <1>2, <2>1, <2>2, EditGoesOn DEF PauseOthers, Edit
<1>3. CASE RunExperiment(e)
  BY <1>1, <1>3, NoEditOK, EditGoesOn DEF RunExperiment, Done, Edit
<1> QED BY <1>2, <1>3

\* No version is active, and e alone is half-way unless raced says otherwise.
LEMMA DeactivateKept ==
    ASSUME EditInv, NEW e \in Editors, Deactivate(e)
    PROVE  EditInv'
<1>1. PICK new : new = [editor[e] EXCEPT !.pc = IF editor[e].row = 0 THEN "insert" ELSE "activate"]
  OBVIOUS
<1>2. EditOK(new, Len(prompts)) /\ new.pc \in HalfWay
  BY <1>1 DEF EditInv, EditTypes, EditOK, Edits, EditorPc, HalfWay
<1>3. editor' = [editor EXCEPT ![e] = new]
  BY <1>1 DEF Deactivate, Edit
<1>4. prompts' \in Seq(Prompt) /\ Len(prompts') = Len(prompts) /\ Len(prompts) \in Nat
      /\ \A i \in 1..Len(prompts) : prompts'[i].active = FALSE
  <2>1. Len(prompts) \in Nat /\ \A i \in 1..Len(prompts) : prompts[i] \in Prompt
    BY LenProperties DEF EditInv, EditTypes
  <2>2. \A i \in 1..Len(prompts) : [prompts[i] EXCEPT !.active = FALSE] \in Prompt
    BY <2>1 DEF Prompt
  <2>3. prompts' = [i \in 1..Len(prompts) |-> [prompts[i] EXCEPT !.active = FALSE]]
    BY DEF Deactivate
  <2>4. prompts' \in Seq(Prompt)
    BY <2>1, <2>2, <2>3, IsASeq
  <2>5. Len(prompts') = Len(prompts)
    BY <2>1, <2>3, <2>4, LenProperties
  <2>6. \A i \in 1..Len(prompts) : prompts'[i].active = FALSE
    BY <2>1, <2>3 DEF Prompt
  <2> QED BY <2>1, <2>4, <2>5, <2>6
<1>5. Active' = {}
  BY <1>4 DEF Active
<1>6. InHalf(e)' /\ \A f \in Editors \ {e} : InHalf(f)' <=> InHalf(f)
  BY <1>2, <1>3 DEF EditInv, EditTypes, InHalf
<1>7. gap' = gap /\ raced' = (\E f \in Editors \ {e} : InHalf(f))
  BY DEF Deactivate, InHalf
<1>8. EditTypes'
  BY <1>2, <1>3, <1>4, <1>7 DEF EditInv, EditTypes, EditOK, EditorAt
<1>9. raced' \/ Undisputed'
  BY <1>5, <1>6, <1>7 DEF Undisputed
<1> QED BY <1>6, <1>8, <1>9 DEF EditInv, Explained

\* The edit of e ends with one version active, the only one unless edits raced.
LEMMA ActivateKept ==
    ASSUME EditInv, NEW e \in Editors, InsertVersion(e) \/ ActivateVersion(e)
    PROVE  EditInv'
<1>1. InHalf(e) /\ editor' = [editor EXCEPT ![e] = NoEdit] /\ raced' = raced /\ gap' = FALSE
  BY DEF InsertVersion, ActivateVersion, EditorAt, InHalf, HalfWay, Done, Edit
<1>2. Len(prompts) \in Nat /\ \A i \in 1..Len(prompts) : prompts[i] \in Prompt
  BY LenProperties DEF EditInv, EditTypes
<1>3. PICK k \in Nat : /\ prompts' \in Seq(Prompt) /\ Len(prompts') >= Len(prompts)
                       /\ Len(prompts') \in Nat
                       /\ k \in Active' /\ Active' \subseteq Active \cup {k}
  <2>1. CASE InsertVersion(e)
    <3>1. PICK new : new = [version |-> editor[e].version, active |-> TRUE]
      OBVIOUS
    <3>2. new \in Prompt /\ new.active /\ prompts' = Append(prompts, new)
      BY <2>1, <3>1 DEF InsertVersion, Prompt, EditInv, EditTypes, Edits
    <3>3. /\ prompts' \in Seq(Prompt) /\ Len(prompts') = Len(prompts) + 1
          /\ \A i \in 1..Len(prompts) : prompts'[i] = prompts[i]
          /\ prompts'[Len(prompts) + 1] = new
      BY <3>2, AppendProperties DEF EditInv, EditTypes
    <3>4. Len(prompts) + 1 \in Active'
      BY <1>2, <3>2, <3>3 DEF Active
    <3>5. Active' \subseteq Active \cup {Len(prompts) + 1}
      BY <1>2, <3>3 DEF Active
    <3> QED BY <1>2, <3>3, <3>4, <3>5
  <2>2. CASE ActivateVersion(e)
    <3>1. PICK k : k = editor[e].row
      OBVIOUS
    <3>2. k \in 1..Len(prompts)
      BY <1>2, <2>2, <3>1 DEF ActivateVersion, EditInv, EditTypes, Edits, EditorAt
    <3>3. PICK new : new = [prompts[k] EXCEPT !.active = TRUE]
      OBVIOUS
    <3>4. new \in Prompt /\ new.active
      BY <1>2, <3>2, <3>3 DEF Prompt
    <3>5. prompts' = [prompts EXCEPT ![k] = new]
      BY <2>2, <3>1, <3>3 DEF ActivateVersion
    <3>6. /\ prompts' \in Seq(Prompt) /\ Len(prompts') = Len(prompts)
          /\ \A i \in 1..Len(prompts) : prompts'[i] = IF i = k THEN new ELSE prompts[i]
      BY <3>2, <3>4, <3>5, ExceptSeq DEF EditInv, EditTypes
    <3>7. k \in Active' /\ Active' \subseteq Active \cup {k}
      BY <3>2, <3>4, <3>6 DEF Active
    <3> QED BY <1>2, <3>2, <3>6, <3>7
  <2> QED BY <2>1, <2>2
<1>4. \A f \in Editors : /\ InHalf(f)' => f # e /\ InHalf(f)
                         /\ editor'[f] = editor[f] \/ editor'[f] = NoEdit
  BY <1>1, NoEditOK DEF EditInv, EditTypes, InHalf
<1>5. EditTypes'
  <2>1. editor' \in [Editors -> Edits]
    BY <1>1, NoEditOK DEF EditInv, EditTypes, EditOK
  <2>2. ASSUME NEW f \in Editors
        PROVE  editor'[f].row <= Len(prompts') /\ (editor'[f].pc = "activate" => editor'[f].row # 0)
    <3>1. CASE editor'[f] = editor[f]
      <4>1. editor[f].row \in Nat /\ editor[f].row <= Len(prompts)
        BY DEF EditInv, EditTypes, Edits
      <4> QED BY <1>2, <1>3, <3>1, <4>1 DEF EditInv, EditTypes, EditorAt
    <3>2. CASE editor'[f] = NoEdit
      BY <1>3, <3>2 DEF NoEdit
    <3> QED BY <1>4, <3>1, <3>2
  <2> QED BY <1>1, <1>3, <2>1, <2>2 DEF EditInv, EditTypes, EditorAt
<1>6. ASSUME ~raced PROVE Undisputed'
  <2>1. Active = {} /\ \A f \in Editors : ~InHalf(f)'
    BY <1>1, <1>4, <1>6 DEF EditInv, Undisputed
  <2> QED BY <1>3, <2>1 DEF Undisputed
<1> QED BY <1>1, <1>3, <1>5, <1>6 DEF EditInv, Explained

\* Edits that are lost leave their trace in gap.
LEMMA LostKept ==
    ASSUME EditInv, \A f \in Editors : editor'[f] = editor[f] \/ editor'[f] = NoEdit,
           editor' \in [Editors -> Edits], UNCHANGED <<prompts, raced>>,
           gap' \in BOOLEAN, gap => gap',
           \A f \in Editors : InHalf(f) => gap' \/ editor'[f] = editor[f]
    PROVE  EditInv'
<1>1. Len(prompts) \in Nat /\ Active' = Active
  BY LenProperties DEF EditInv, EditTypes, Active
<1>2. \A f \in Editors : InHalf(f)' => InHalf(f)
  BY NoEditOK, <1>1 DEF InHalf
<1>3. EditTypes'
  BY <1>1 DEF EditInv, EditTypes, EditorAt, NoEdit
<1>4. \A f \in Editors : InHalf(f) => gap' \/ InHalf(f)'
  BY DEF InHalf
<1> QED BY <1>1, <1>2, <1>3, <1>4 DEF EditInv, Undisputed, Explained

LEMMA EditStep == EditInv /\ [Next]_vars => EditInv'
<1> SUFFICES ASSUME EditInv, [Next]_vars PROVE EditInv'
  OBVIOUS
<1>1. CASE UNCHANGED edits
  BY <1>1 DEF edits, EditInv, EditTypes, Undisputed, Explained, InHalf, Active, EditorAt
<1>2. ASSUME NEW r \in Requests, RequestStep(r) PROVE UNCHANGED edits
  BY <1>2 DEF RequestStep, Ask, CompleteLead, Block, Lookup, AnswerFromCache, ReadExperiment,
       ReadAssignment, Assign, Assemble, StoreAnswer, ReadHistory, WriteSummary, DeleteMessages,
       CacheAnswer, RequestFails, promptVars, edits
<1>3. ASSUME NEW d \in Dialogs, MarkConverted(d) \/ FollowUpMessage(d) PROVE UNCHANGED edits
  BY <1>3 DEF MarkConverted, FollowUpMessage, promptVars, edits
<1>4. ASSUME NEW e \in Editors, EditFails(e) PROVE EditInv'
  <2>1. /\ editor' = [editor EXCEPT ![e] = NoEdit] /\ UNCHANGED <<prompts, raced>>
        /\ gap' = (gap \/ InHalf(e))
    BY <1>4 DEF EditFails, Done, Edit, InHalf
  <2>2. NoEdit \in Edits
    BY NoEditOK DEF EditOK
  <2>3. editor \in [Editors -> Edits] /\ gap \in BOOLEAN
    BY DEF EditInv, EditTypes
  <2>4. gap' \in BOOLEAN /\ (gap => gap') /\ (InHalf(e) => gap')
    BY <2>1, <2>3, Zenon
  <2> QED BY <2>1, <2>2, <2>3, <2>4, LostKept
<1>5. CASE Restart
  <2>1. /\ editor' = [e \in Editors |-> NoEdit] /\ UNCHANGED <<prompts, raced>>
        /\ gap' = (gap \/ \E e \in Editors : InHalf(e))
    BY <1>5 DEF Restart, InHalf
  <2>2. NoEdit \in Edits
    BY NoEditOK DEF EditOK
  <2>3. gap \in BOOLEAN
    BY DEF EditInv, EditTypes
  <2>4. gap' \in BOOLEAN /\ (gap => gap') /\ \A e \in Editors : InHalf(e) => gap'
    BY <2>1, <2>3, Zenon
  <2> QED BY <2>1, <2>2, <2>4, LostKept
<1>6. CASE (\E q \in Questions : Expire(q)) \/ (\E x \in Experiments : PauseExperiment(x))
           \/ UNCHANGED vars
  BY <1>1, <1>6 DEF Expire, PauseExperiment, promptVars, vars, edits
<1> QED
  BY <1>1, <1>2, <1>3, <1>4, <1>5, <1>6, BeginKept, EditsExperiments, DeactivateKept, ActivateKept
     DEF Next, EditorStep

-----------------------------------------------------------------------------
(* The theorems *)

LEMMA TalkInduction == Spec => []TalkInv
<1>1. Init => TalkInv
  BY TypesInit DEF Init, TalkInv, NoRequest, OldIsOld, RecentStay, DeletedIsSummarised,
       DeletesSummarised, GivenIsAssigned, BeforeVariant, At, Dialog
<1>2. TalkInv /\ [Next]_vars => TalkInv'
  BY TypesStep, OldStep, SummaryStep, VariantStep DEF TalkInv
<1> QED BY <1>1, <1>2, PTL DEF Spec

\* Several answers of one dialog may summarise and delete at once, and fail or
\* be cut off anywhere: the newest messages of every dialog stay
\* (compressIfNeeded).
THEOREM RecentTheorem == Spec => []RecentMessagesStay
<1>1. TalkInv => RecentMessagesStay
  <2> SUFFICES ASSUME TalkInv, NEW d \in Dialogs, NEW i \in Newest(Keep, 1..count[d])
               PROVE  i \in rows[d]
    BY DEF RecentMessagesStay
  <2>1. i \in 1..count[d] /\ count[d] \in Nat
    BY DEF Newest, TalkInv, TalkTypes
  <2>2. i + Keep > count[d]
    BY <2>1, NewestOfAll
  <2> QED BY <2>1, <2>2 DEF TalkInv, RecentStay
<1> QED BY <1>1, TalkInduction, PTL

\* Nothing is deleted that no stored summary was written of (compressIfNeeded).
THEOREM SummarisedTheorem == Spec => []DeletedIsSummarised
<1>1. TalkInv => DeletedIsSummarised
  BY DEF TalkInv
<1> QED BY <1>1, TalkInduction, PTL

\* A dialog is answered with one variant, whatever experiments run meanwhile
\* (resolveClientPrompt).
THEOREM VariantTheorem == Spec => []OneVariant
<1>1. TalkInv => OneVariant
  <2> SUFFICES ASSUME TalkInv, NEW d \in Dialogs PROVE Cardinality(given[d]) <= 1
    BY DEF OneVariant
  <2>1. given[d] = {} \/ given[d] = {assignment[d]}
    BY DEF TalkInv, GivenIsAssigned
  <2>2. Cardinality({}) = 0 /\ Cardinality({assignment[d]}) = 1
    BY FS_EmptySet, FS_Singleton
  <2> QED BY <2>1, <2>2
<1> QED BY <1>1, TalkInduction, PTL

\* Two versions of a prompt are active only after edits that overlapped, none
\* only while an edit is half-way or after one was lost there, however many
\* administrators edit and whatever fails (activateVersion, createVersion).
THEOREM EditTheorem == Spec => []ActiveIsEdited
<1>1. Init => EditInv
  <2> SUFFICES ASSUME Init PROVE EditInv
    OBVIOUS
  <2>1. prompts \in Seq(Prompt) /\ Len(prompts) = 0 /\ Active = {}
    <3>1. prompts = << >> /\ Len(prompts) = 0 /\ prompts \in Seq(Prompt)
      BY EmptySeq DEF Init
    <3> QED BY <3>1 DEF Active
  <2>2. \A e \in Editors : editor[e] = NoEdit
    BY DEF Init
  <2>3. editor \in [Editors -> Edits] /\ \A e \in Editors : ~InHalf(e)
    BY <2>2, NoEditOK DEF Init, EditOK, InHalf
  <2>4. \A e \in Editors : editor[e].row = 0 /\ editor[e].pc = "idle"
    BY <2>2 DEF NoEdit
  <2>5. raced \in BOOLEAN /\ gap \in BOOLEAN
    BY DEF Init
  <2>6. EditTypes
    BY <2>1, <2>3, <2>4, <2>5 DEF EditTypes, EditorAt
  <2> QED BY <2>1, <2>3, <2>6 DEF Init, EditInv, Undisputed, Explained
<1>2. EditInv => ActiveIsEdited
  <2> SUFFICES ASSUME EditInv PROVE ActiveIsEdited
    OBVIOUS
  <2>1. ASSUME ~raced PROVE ~(Cardinality(Active) > 1)
    <3>1. \A i, j \in Active : i = j
      BY <2>1 DEF EditInv, Undisputed
    <3>2. CASE Active = {}
      BY <3>2, FS_EmptySet
    <3>3. CASE Active # {}
      <4>1. PICK i : Active = {i}
        BY <3>1, <3>3
      <4> QED BY <4>1, FS_Singleton
    <3> QED BY <3>2, <3>3
  <2> QED BY <2>1 DEF EditInv, Explained, InHalf, ActiveIsEdited
<1> QED BY <1>1, <1>2, EditStep, PTL DEF Spec
=============================================================================
