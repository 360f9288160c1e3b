----------------------------- MODULE Conversation -----------------------------
(***************************************************************************)
(* A conversation of a visitor with the AI: the messages of a dialog and   *)
(* the summary that takes the place of the older ones, the semantic cache, *)
(* the tenant's prompt with its versions, and the experiments that give    *)
(* each dialog one of two variants of it.                                  *)
(*                                                                         *)
(* Messages are numbered in the order they are stored.  Admission of a     *)
(* message (UsageMeter), leads (LeadCapture) and retrieval (KnowledgeIndex)*)
(* are modelled elsewhere; the chain of providers always ends with one     *)
(* that answers, so which of them did is left out.                         *)
(***************************************************************************)
EXTENDS Naturals, Sequences, FiniteSets

CONSTANTS
    Dialogs, Questions, Experiments,
    Requests,     \* messages being answered at once
    Editors,      \* requests of the tenant's administrators at once
    Threshold,    \* HISTORY_SUMMARY_THRESHOLD
    Keep,         \* KEEP_RECENT_MESSAGES
    Limit,        \* the messages getMessages reads at most
    MaxMessages,  \* bound: messages of visitors
    MaxFollowUps, \* bound: follow-up messages
    MaxEdits,     \* bound: edits of prompts and experiments
    Faults, MaxFaults

FaultKinds == {"restart", "failing"}

ASSUME KeepAssumption ==
    /\ Threshold \in Nat /\ Keep \in Nat \ {0} /\ Limit \in Nat
    /\ Keep < Threshold /\ Threshold <= Limit

ASSUME ConversationBounds ==
    /\ MaxMessages \in Nat /\ MaxFollowUps \in Nat /\ MaxEdits \in Nat
    /\ MaxFaults \in Nat /\ Faults \subseteq FaultKinds

VARIABLES
    count,       \* messages a dialog has ever had
    rows,        \* those that are stored
    summarised,  \* history: those some summary was written of
    cache,       \* questions with an entry that has not expired
    assignment,  \* DialogExperimentAssignment.variant of a dialog
    lead,        \* the lead of a dialog: none, about to be counted, counted or missed
    experiment,  \* PromptExperiment.status
    prompts,     \* the rows Prompt of the tenant
    request,     \* messages being answered
    editor,      \* edits under way
    given,       \* history: the variants a dialog was answered with
    raced,       \* history: two edits overlapped after the last undisturbed one
    gap,         \* history: an edit was lost half-way after the last complete one
    spent        \* what is used up of each bound

dialogVars == <<count, rows, summarised, cache>>
testVars   == <<assignment, lead, experiment, given>>
promptVars == <<prompts, raced, gap>>
vars == <<dialogVars, testVars, promptVars, request, editor, spent>>

Variants  == {"A", "B"}
RequestPc == {"idle", "asked", "hit", "missed", "testing", "assign", "assemble",
              "asking", "stored", "summarising", "deleting", "caching"}
EditorPc  == {"idle", "deactivate", "insert", "activate", "pause", "run"}

NoRequest == [pc |-> "idle", dialog |-> "none", question |-> "none", old |-> {},
              variant |-> "none"]
NoEdit    == [pc |-> "idle", version |-> 0, row |-> 0, experiment |-> "none"]
Bounds    == {"messages", "followUps", "edits", "faults"}

TypeOK ==
    /\ count \in [Dialogs -> Nat]
    /\ \A d \in Dialogs : rows[d] \subseteq 1..count[d] /\ summarised[d] \subseteq 1..count[d]
    /\ cache \subseteq Questions
    /\ assignment \in [Dialogs -> Variants \cup {"none"}]
    /\ lead \in [Dialogs -> {"none", "marking", "counted", "missed"}]
    /\ experiment \in [Experiments -> {"draft", "running", "paused"}]
    /\ prompts \in Seq([version : Nat, active : BOOLEAN])
    /\ \A r \in Requests :
          \/ request[r] = NoRequest
          \/ /\ request[r].pc \in RequestPc \ {"idle"}
             /\ request[r].dialog \in Dialogs /\ request[r].question \in Questions
             /\ request[r].old \subseteq 1..count[request[r].dialog]
             /\ request[r].variant \in Variants \cup {"none"}
    /\ editor \in [Editors -> [pc : EditorPc, version : Nat, row : Nat,
                               experiment : Experiments \cup {"none"}]]
    /\ given \in [Dialogs -> SUBSET Variants]
    /\ raced \in BOOLEAN /\ gap \in BOOLEAN
    /\ spent \in [Bounds -> Nat]

Init ==
    /\ count = [d \in Dialogs |-> 0]
    /\ rows = [d \in Dialogs |-> {}]
    /\ summarised = [d \in Dialogs |-> {}]
    /\ cache = {}
    /\ assignment = [d \in Dialogs |-> "none"]
    /\ lead = [d \in Dialogs |-> "none"]
    /\ experiment = [x \in Experiments |-> "draft"]
    /\ prompts = << >>
    /\ request = [r \in Requests |-> NoRequest]
    /\ editor = [e \in Editors |-> NoEdit]
    /\ given = [d \in Dialogs |-> {}]
    /\ raced = FALSE /\ gap = FALSE
    /\ spent = [b \in Bounds |-> 0]

-----------------------------------------------------------------------------
(* Shared steps *)

At(r, pc)   == request[r].pc = pc
Goto(r, pc) == request' = [request EXCEPT ![r].pc = pc]
Leave(r)    == request' = [request EXCEPT ![r] = NoRequest]
Dialog(r)   == request[r].dialog

Spend(b, max) ==
    /\ spent[b] < max
    /\ spent' = [spent EXCEPT ![b] = spent[b] + 1]

Fault(kind) == kind \in Faults /\ Spend("faults", MaxFaults)

\* DialogService.addMessage
AddMessage(d) ==
    /\ count' = [count EXCEPT ![d] = count[d] + 1]
    /\ rows' = [rows EXCEPT ![d] = rows[d] \cup {count[d] + 1}]
    /\ UNCHANGED <<summarised, cache>>

\* The n newest of the stored messages S.
Newest(n, S) == {i \in S : Cardinality({k \in S : k > i}) < n}

-----------------------------------------------------------------------------
(* A message is answered: streamResponse *)

\* The visitor's message is stored in the dialog.
Ask(r, d, q) ==
    /\ At(r, "idle") /\ Spend("messages", MaxMessages)
    /\ AddMessage(d)
    /\ request' = [request EXCEPT ![r] = [NoRequest EXCEPT !.pc = "asked", !.dialog = d,
                                                          !.question = q]]
    /\ UNCHANGED <<testVars, promptVars, editor>>

\* It makes the dialog's lead complete; that it did is marked in the
\* assignment by a statement nobody waits for.
CompleteLead(r) ==
    /\ At(r, "asked") /\ lead[Dialog(r)] = "none"
    /\ lead' = [lead EXCEPT ![Dialog(r)] = "marking"]
    /\ UNCHANGED <<dialogVars, assignment, experiment, given, promptVars, request, editor,
                   spent>>

MarkConverted(d) ==
    /\ lead[d] = "marking"
    /\ lead' = [lead EXCEPT ![d] = IF assignment[d] = "none" THEN "missed" ELSE "counted"]
    /\ UNCHANGED <<dialogVars, assignment, experiment, given, promptVars, request, editor,
                   spent>>

\* An injection is answered by a fixed reply.
Block(r) ==
    /\ At(r, "asked")
    /\ AddMessage(Dialog(r))
    /\ Leave(r)
    /\ UNCHANGED <<testVars, promptVars, editor, spent>>

Lookup(r) ==
    /\ At(r, "asked")
    /\ Goto(r, IF request[r].question \in cache THEN "hit" ELSE "missed")
    /\ UNCHANGED <<dialogVars, testVars, promptVars, editor, spent>>

AnswerFromCache(r) ==
    /\ At(r, "hit")
    /\ AddMessage(Dialog(r))
    /\ Leave(r)
    /\ UNCHANGED <<testVars, promptVars, editor, spent>>

\* resolveClientPrompt: the running experiment (any, if there are several) ...
ReadExperiment(r) ==
    /\ At(r, "missed")
    /\ Goto(r, IF \E x \in Experiments : experiment[x] = "running" THEN "testing"
               ELSE "assemble")
    /\ UNCHANGED <<dialogVars, testVars, promptVars, editor, spent>>

\* ... the dialog's assignment, and a new one if it has none.
ReadAssignment(r) ==
    /\ At(r, "testing")
    /\ \E v \in Variants :
          /\ assignment[Dialog(r)] \in {v, "none"}
          /\ request' = [request EXCEPT
                ![r].variant = v,
                ![r].pc = IF assignment[Dialog(r)] = v THEN "assemble" ELSE "assign"]
    /\ UNCHANGED <<dialogVars, testVars, promptVars, editor, spent>>

\* Mutant: what another request has assigned meanwhile is replaced.
AssignAnyway(r) ==
    /\ At(r, "assign")
    /\ assignment' = [assignment EXCEPT ![Dialog(r)] = request[r].variant]
    /\ Goto(r, "assemble")
    /\ UNCHANGED <<dialogVars, lead, experiment, given, promptVars, editor, spent>>

\* dialogId is unique: of two first messages one is refused.
Assign(r) ==
    /\ At(r, "assign")
    /\ IF assignment[Dialog(r)] = "none"
       THEN /\ assignment' = [assignment EXCEPT ![Dialog(r)] = request[r].variant]
            /\ Goto(r, "assemble")
       ELSE Leave(r) /\ UNCHANGED assignment
    /\ UNCHANGED <<dialogVars, lead, experiment, given, promptVars, editor, spent>>

\* The prompt is the variant's, or the tenant's active one.
Assemble(r) ==
    /\ At(r, "assemble")
    /\ given' = [given EXCEPT ![Dialog(r)] = @ \cup ({request[r].variant} \ {"none"})]
    /\ Goto(r, "asking")
    /\ UNCHANGED <<dialogVars, assignment, lead, experiment, promptVars, editor, spent>>

\* A provider of the chain answers, and the answer is stored.
StoreAnswer(r) ==
    /\ At(r, "asking")
    /\ AddMessage(Dialog(r))
    /\ Goto(r, "stored")
    /\ UNCHANGED <<testVars, promptVars, editor, spent>>

-----------------------------------------------------------------------------
(* compressIfNeeded *)

\* The last messages are read: those to be summarised are all but the newest
\* of them.
ReadHistory(r) ==
    LET read == Newest(Limit, rows[Dialog(r)])
        long == Cardinality(read) >= Threshold
    IN
    /\ At(r, "stored")
    /\ request' = [request EXCEPT
          ![r].old = IF long THEN read \ Newest(Keep, read) ELSE {},
          ![r].pc  = IF long THEN "summarising" ELSE "caching"]
    /\ UNCHANGED <<dialogVars, testVars, promptVars, editor, spent>>

\* Mutant: the messages go before their summary is written.
WriteSummaryLast(r) ==
    /\ At(r, "summarising")
    /\ rows' = [rows EXCEPT ![Dialog(r)] = @ \ request[r].old]
    /\ Goto(r, "deleting")
    /\ UNCHANGED <<count, summarised, cache, testVars, promptVars, editor, spent>>

\* A provider has made the summary, or it is the beginning of the transcript;
\* it takes the place of the last one.
WriteSummary(r) ==
    /\ At(r, "summarising")
    /\ summarised' = [summarised EXCEPT ![Dialog(r)] = @ \cup request[r].old]
    /\ Goto(r, "deleting")
    /\ UNCHANGED <<count, rows, cache, testVars, promptVars, editor, spent>>

\* Mutant: all but the Keep messages that were read after the old ones go.
DeleteAllOthers(r) ==
    LET old == request[r].old IN
    /\ At(r, "deleting")
    /\ rows' = [rows EXCEPT ![Dialog(r)] =
                   {i \in rows[Dialog(r)] \ old : \E k \in old : i <= k + Keep}]
    /\ Goto(r, "caching")
    /\ UNCHANGED <<count, summarised, cache, testVars, promptVars, editor, spent>>

DeleteMessages(r) ==
    /\ At(r, "deleting")
    /\ rows' = [rows EXCEPT ![Dialog(r)] = @ \ request[r].old]
    /\ Goto(r, "caching")
    /\ UNCHANGED <<count, summarised, cache, testVars, promptVars, editor, spent>>

\* SemanticCacheService.store
CacheAnswer(r) ==
    /\ At(r, "caching")
    /\ cache' = cache \cup {request[r].question}
    /\ Leave(r)
    /\ UNCHANGED <<count, rows, summarised, testVars, promptVars, editor, spent>>

\* expires_at is over
Expire(q) ==
    /\ q \in cache
    /\ cache' = cache \ {q}
    /\ UNCHANGED <<count, rows, summarised, testVars, promptVars, request, editor, spent>>

\* A follow-up message is stored (FollowUp).
FollowUpMessage(d) ==
    /\ count[d] > 0 /\ Spend("followUps", MaxFollowUps)
    /\ AddMessage(d)
    /\ UNCHANGED <<testVars, promptVars, request, editor>>

-----------------------------------------------------------------------------
(* Prompts: every version is a row, one of them active *)

EditorAt(e, pc) == editor[e].pc = pc
Edit(e, new)    == editor' = [editor EXCEPT ![e] = new]
Done(e)         == Edit(e, NoEdit)
HalfWay         == {"insert", "activate"}
Active          == {i \in 1..Len(prompts) : prompts[i].active}
LastVersion     == IF prompts = << >> THEN 0
                   ELSE CHOOSE n \in {prompts[i].version : i \in 1..Len(prompts)} :
                            \A i \in 1..Len(prompts) : prompts[i].version <= n

\* createVersion reads the last version, activateVersion the row.
BeginCreate(e) ==
    /\ EditorAt(e, "idle") /\ Spend("edits", MaxEdits)
    /\ Edit(e, [NoEdit EXCEPT !.pc = "deactivate", !.version = LastVersion + 1])
    /\ UNCHANGED <<dialogVars, testVars, promptVars, request>>

BeginActivate(e, i) ==
    /\ EditorAt(e, "idle") /\ Spend("edits", MaxEdits)
    /\ Edit(e, [NoEdit EXCEPT !.pc = "deactivate", !.row = i])
    /\ UNCHANGED <<dialogVars, testVars, promptVars, request>>

\* Mutant: the last version is left out.
DeactivateOlder(e) ==
    /\ EditorAt(e, "deactivate")
    /\ prompts' = [i \in 1..Len(prompts) |->
                      IF prompts[i].version < LastVersion
                      THEN [prompts[i] EXCEPT !.active = FALSE] ELSE prompts[i]]
    /\ raced' = (\E f \in Editors \ {e} : editor[f].pc \in HalfWay)
    /\ Edit(e, [editor[e] EXCEPT !.pc = IF editor[e].row = 0 THEN "insert" ELSE "activate"])
    /\ UNCHANGED <<dialogVars, testVars, gap, request, spent>>

Deactivate(e) ==
    /\ EditorAt(e, "deactivate")
    /\ prompts' = [i \in 1..Len(prompts) |-> [prompts[i] EXCEPT !.active = FALSE]]
    /\ raced' = (\E f \in Editors \ {e} : editor[f].pc \in HalfWay)
    /\ Edit(e, [editor[e] EXCEPT !.pc = IF editor[e].row = 0 THEN "insert" ELSE "activate"])
    /\ UNCHANGED <<dialogVars, testVars, gap, request, spent>>

InsertVersion(e) ==
    /\ EditorAt(e, "insert")
    /\ prompts' = Append(prompts, [version |-> editor[e].version, active |-> TRUE])
    /\ gap' = FALSE
    /\ Done(e)
    /\ UNCHANGED <<dialogVars, testVars, raced, request, spent>>

ActivateVersion(e) ==
    /\ EditorAt(e, "activate")
    /\ prompts' = [prompts EXCEPT ![editor[e].row].active = TRUE]
    /\ gap' = FALSE
    /\ Done(e)
    /\ UNCHANGED <<dialogVars, testVars, raced, request, spent>>

-----------------------------------------------------------------------------
(* Experiments *)

BeginStart(e, x) ==
    /\ EditorAt(e, "idle") /\ experiment[x] # "running"
    /\ Spend("edits", MaxEdits)
    /\ Edit(e, [NoEdit EXCEPT !.pc = "pause", !.experiment = x])
    /\ UNCHANGED <<dialogVars, testVars, promptVars, request>>

PauseOthers(e) ==
    /\ EditorAt(e, "pause")
    /\ experiment' = [x \in Experiments |->
                         IF x # editor[e].experiment /\ experiment[x] = "running"
                         THEN "paused" ELSE experiment[x]]
    /\ Edit(e, [editor[e] EXCEPT !.pc = "run"])
    /\ UNCHANGED <<dialogVars, assignment, lead, given, promptVars, request, spent>>

RunExperiment(e) ==
    /\ EditorAt(e, "run")
    /\ experiment' = [experiment EXCEPT ![editor[e].experiment] = "running"]
    /\ Done(e)
    /\ UNCHANGED <<dialogVars, assignment, lead, given, promptVars, request, spent>>

PauseExperiment(x) ==
    /\ Spend("edits", MaxEdits)
    /\ experiment' = [experiment EXCEPT ![x] = "paused"]
    /\ UNCHANGED <<dialogVars, assignment, lead, given, promptVars, request, editor>>

-----------------------------------------------------------------------------
(* What fails *)

\* A statement of the request fails: what it did so far stays.
RequestFails(r) ==
    /\ ~At(r, "idle") /\ Fault("failing")
    /\ Leave(r)
    /\ UNCHANGED <<dialogVars, testVars, promptVars, editor>>

EditFails(e) ==
    /\ ~EditorAt(e, "idle") /\ Fault("failing")
    /\ gap' = (gap \/ editor[e].pc \in HalfWay)
    /\ Done(e)
    /\ UNCHANGED <<dialogVars, testVars, prompts, raced, request>>

Restart ==
    /\ Fault("restart")
    /\ request' = [r \in Requests |-> NoRequest]
    /\ editor' = [e \in Editors |-> NoEdit]
    /\ gap' = (gap \/ \E e \in Editors : editor[e].pc \in HalfWay)
    /\ lead' = [d \in Dialogs |-> IF lead[d] = "marking" THEN "missed" ELSE lead[d]]
    /\ UNCHANGED <<dialogVars, assignment, experiment, given, prompts, raced>>

-----------------------------------------------------------------------------

RequestStep(r) ==
    \/ \E d \in Dialogs, q \in Questions : Ask(r, d, q)
    \/ CompleteLead(r) \/ Block(r) \/ Lookup(r) \/ AnswerFromCache(r)
    \/ ReadExperiment(r) \/ ReadAssignment(r) \/ Assign(r) \/ Assemble(r) \/ StoreAnswer(r)
    \/ ReadHistory(r) \/ WriteSummary(r) \/ DeleteMessages(r) \/ CacheAnswer(r)
    \/ RequestFails(r)

EditorStep(e) ==
    \/ BeginCreate(e) \/ \E i \in 1..Len(prompts) : BeginActivate(e, i)
    \/ Deactivate(e) \/ InsertVersion(e) \/ ActivateVersion(e)
    \/ \E x \in Experiments : BeginStart(e, x)
    \/ PauseOthers(e) \/ RunExperiment(e)
    \/ EditFails(e)

Next ==
    \/ \E r \in Requests : RequestStep(r)
    \/ \E e \in Editors : EditorStep(e)
    \/ \E d \in Dialogs : MarkConverted(d) \/ FollowUpMessage(d)
    \/ \E q \in Questions : Expire(q)
    \/ \E x \in Experiments : PauseExperiment(x)
    \/ Restart

Spec == Init /\ [][Next]_vars

-----------------------------------------------------------------------------

\* The newest messages of a dialog stay, though several answers of one dialog
\* summarise and delete at once, each from what it read before: the history an
\* answer is made from, and the message a follow-up looks at, are the last ones.
RecentMessagesStay ==
    \A d \in Dialogs : Newest(Keep, 1..count[d]) \subseteq rows[d]

\* A message is deleted only after a summary of it has been stored, whatever
\* fails or restarts in between.
DeletedIsSummarised ==
    \A d \in Dialogs : (1..count[d]) \ rows[d] \subseteq summarised[d]

\* A dialog is answered with one variant, also when its first messages are
\* answered at once, experiments change and requests fail: the conversion of
\* the dialog is counted for the prompt that was used.
OneVariant == \A d \in Dialogs : Cardinality(given[d]) <= 1

\* Two versions are active only after edits that overlapped, none only while an
\* edit is half-way or after one was lost there; the next edit ends either.
ActiveIsEdited ==
    /\ Cardinality(Active) > 1 => raced
    /\ Active = {} /\ prompts # << >> =>
          gap \/ \E e \in Editors : editor[e].pc \in HalfWay

\* "is_active only for one version per scope"
OnePromptActive == Cardinality(Active) <= 1

\* "Conversion dialog to lead by groups": a lead of a dialog that is answered
\* with a variant counts for it.
ConversionIsCounted == \A d \in Dialogs : given[d] # {} => lead[d] # "missed"
=============================================================================
