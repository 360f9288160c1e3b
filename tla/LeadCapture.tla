----------------------------- MODULE LeadCapture -----------------------------
(***************************************************************************)
(* From a visitor's message to a lead: the handler that the chat gateway   *)
(* starts for each message (AiOrchestratorService.streamResponse), the     *)
(* extraction of a lead in it, the link of a dialog to a lead the visitor, *)
(* or the phone number, has already, and the managers' merges.             *)
(*                                                                         *)
(* A handler is split at its awaits; handlers of one dialog overlap, since *)
(* a visitor may write again, or in another tab, before the answer.  A     *)
(* lead always has a phone number (every profile mode asks for one, and so *)
(* does a partial lead); names and e-mail addresses are left out.          *)
(***************************************************************************)
EXTENDS Naturals, Sequences, FiniteSets

CONSTANTS
    Visitors, Messages, Phones,
    NoPhone,
    MaxDialogs,     \* bound: dialogs that are opened
    MaxArchived,    \* bound: merges and archivings
    Faults, MaxFaults

FaultKinds == {"restart"}

ASSUME CaptureAssumption == NoPhone \notin Phones

ASSUME CaptureBounds ==
    /\ MaxDialogs \in Nat /\ MaxArchived \in Nat
    /\ Faults \subseteq FaultKinds /\ MaxFaults \in Nat

VARIABLES
    owner,     \* the visitor of each dialog, in the order they were created
    lead,      \* the lead of each dialog
    markers,   \* the messages __DEDUP_LINK__, in the order they were created:
               \* the dialog each is in, and the dialog it names
    where,     \* the dialog each message of a visitor is stored in
    reply,     \* the dialog its answer is stored in
    handler,   \* the handler of each message
    merging,   \* merges that have read their leads
    spent,     \* what is used up of each bound
    crossed    \* history: two messages of one session were handled at once

vars == <<owner, lead, markers, where, reply, handler, merging, spent, crossed>>

Dialogs == 1..MaxDialogs
None    == 0

NoLead == [phone |-> NoPhone, archived |-> FALSE, nth |-> 0, knew |-> {}]
HasLead(d) == lead[d].nth > 0

Busy      == {"sent", "resolved", "stored", "find", "visitor", "gather", "phone",
              "create", "linking", "link", "answer"}
HandlerPc == Busy \cup {"none", "done", "failed", "lost"}

NoHandler == [pc |-> "none", session |-> None, active |-> None, dialog |-> None,
              content |-> NoPhone, phone |-> NoPhone, target |-> None, reason |-> "none",
              knew |-> {}]

TypeOK ==
    /\ owner \in Seq(Visitors) /\ Len(owner) <= MaxDialogs
    /\ lead \in [Dialogs -> [phone : Phones \cup {NoPhone}, archived : BOOLEAN,
                             nth : Nat, knew : SUBSET Dialogs]]
    /\ \A d \in Dialogs : HasLead(d) => d <= Len(owner) /\ lead[d].phone # NoPhone
    /\ \A k \in 1..Len(markers) : markers[k].in \in Dialogs /\ markers[k].to \in Dialogs
    /\ where \in [Messages -> Dialogs \cup {None}]
    /\ reply \in [Messages -> Dialogs \cup {None}]
    /\ handler \in [Messages ->
          [pc : HandlerPc, session : Dialogs \cup {None}, active : Dialogs \cup {None},
           dialog : Dialogs \cup {None}, content : Phones \cup {NoPhone},
           phone : Phones \cup {NoPhone}, target : Dialogs \cup {None},
           reason : {"none", "visitor", "phone"}, knew : SUBSET Dialogs]]
    /\ merging \subseteq (Dialogs \X Dialogs)
    /\ spent \in [{"archived", "faults"} -> Nat]
    /\ crossed \in BOOLEAN

Init ==
    /\ owner = << >>
    /\ lead = [d \in Dialogs |-> NoLead]
    /\ markers = << >>
    /\ where = [m \in Messages |-> None]
    /\ reply = [m \in Messages |-> None]
    /\ handler = [m \in Messages |-> NoHandler]
    /\ merging = {}
    /\ spent = [b \in {"archived", "faults"} |-> 0]
    /\ crossed = FALSE

Spend(b, max) == spent[b] < max /\ spent' = [spent EXCEPT ![b] = @ + 1]

At(m, pc) == handler[m].pc = pc
Goto(m, pc) == handler' = [handler EXCEPT ![m].pc = pc]

\* resolveEffectiveDialog: the newest marker of the dialog, one hop
MarkersIn(d) == {k \in DOMAIN markers : markers[k].in = d}
Newest(K)    == CHOOSE k \in K : \A j \in K : j <= k
Effective(d) == IF MarkersIn(d) = {} THEN d ELSE markers[Newest(MarkersIn(d))].to

Leads == {d \in Dialogs : HasLead(d)}
Live  == {d \in Leads : ~lead[d].archived}

-----------------------------------------------------------------------------
(* chat.gateway.ts and ai-orchestrator.service.ts, before the extraction *)

\* handleMessage, up to getOrCreateDialog: in a dialog of the visitor, or a new one
Send(m, v, d, phone) ==
    /\ At(m, "none")
    /\ IF d <= Len(owner) THEN owner[d] = v /\ UNCHANGED owner
       ELSE d = Len(owner) + 1 /\ owner' = Append(owner, v)
    /\ handler' = [handler EXCEPT ![m] = [NoHandler EXCEPT !.pc = "sent", !.session = d,
                                                           !.content = phone]]
    /\ crossed' = (crossed \/ \E k \in Messages : handler[k].pc \in Busy /\ handler[k].session = d)
    /\ UNCHANGED <<lead, markers, where, reply, merging, spent>>

\* resolveEffectiveDialog in streamResponse
Resolve(m) ==
    /\ At(m, "sent")
    /\ handler' = [handler EXCEPT ![m].pc = "resolved", ![m].active = Effective(handler[m].session)]
    /\ UNCHANGED <<owner, lead, markers, where, reply, merging, spent, crossed>>

\* addMessage
Store(m) ==
    /\ At(m, "resolved")
    /\ where' = [where EXCEPT ![m] = handler[m].active]
    /\ Goto(m, "stored")
    /\ UNCHANGED <<owner, lead, markers, reply, merging, spent, crossed>>

-----------------------------------------------------------------------------
(* lead-extraction.service.ts and lead-dedup.service.ts *)

\* *Mutant:* the session's dialog is taken as it is
StayInSession(m) ==
    /\ At(m, "stored")
    /\ handler' = [handler EXCEPT ![m].pc = "find", ![m].dialog = handler[m].session]
    /\ UNCHANGED <<owner, lead, markers, where, reply, merging, spent, crossed>>

\* processMessage: resolveEffectiveDialog
ResolveAgain(m) ==
    /\ At(m, "stored")
    /\ handler' = [handler EXCEPT ![m].pc = "find", ![m].dialog = Effective(handler[m].session)]
    /\ UNCHANGED <<owner, lead, markers, where, reply, merging, spent, crossed>>

\* the lead of the dialog, which enrichLead completes
FindLead(m) ==
    /\ At(m, "find")
    /\ Goto(m, IF HasLead(handler[m].dialog) THEN "answer" ELSE "visitor")
    /\ UNCHANGED <<owner, lead, markers, where, reply, merging, spent, crossed>>

LinkTo(m, d, reason) ==
    handler' = [handler EXCEPT ![m].pc = "linking", ![m].target = d, ![m].reason = reason]

\* findByVisitor: the newest other dialog of the visitor with a lead
FindVisitorLead(m) ==
    LET s == handler[m].session
        others == {d \in Live \ {s} : owner[d] = owner[s]} IN
    /\ At(m, "visitor")
    /\ IF others = {} THEN Goto(m, "gather")
       ELSE \E d \in others : (\A e \in others : e <= d) /\ LinkTo(m, d, "visitor")
    /\ UNCHANGED <<owner, lead, markers, where, reply, merging, spent, crossed>>

\* *Mutant:* no number is needed
GatherNothing(m) ==
    /\ At(m, "gather")
    /\ handler' = [handler EXCEPT ![m].pc = "phone", ![m].phone = handler[m].content]
    /\ UNCHANGED <<owner, lead, markers, where, reply, merging, spent, crossed>>

\* extractEntities, accumulateFromHistory: without a number there is no lead,
\* not even a partial one
Gather(m) ==
    LET h == handler[m]
        told == {handler[k].content : k \in {k \in Messages : where[k] = h.dialog}} \ {NoPhone} IN
    /\ At(m, "gather")
    /\ \/ /\ h.content # NoPhone
          /\ handler' = [handler EXCEPT ![m].pc = "phone", ![m].phone = h.content]
       \/ /\ h.content = NoPhone
          /\ \E p \in told : handler' = [handler EXCEPT ![m].pc = "phone", ![m].phone = p]
       \/ h.content = NoPhone /\ told = {} /\ Goto(m, "answer")
    /\ UNCHANGED <<owner, lead, markers, where, reply, merging, spent, crossed>>

\* *Mutant:* a number of an earlier message is not looked for
FindOnlyToldNow(m) ==
    /\ At(m, "phone")
    /\ IF handler[m].content = NoPhone \/ \A d \in Live : lead[d].phone # handler[m].phone
       THEN handler' = [handler EXCEPT ![m].pc = "create", ![m].knew = Live]
       ELSE \E d \in {d \in Live : lead[d].phone = handler[m].phone} : LinkTo(m, d, "phone")
    /\ UNCHANGED <<owner, lead, markers, where, reply, merging, spent, crossed>>

\* findByPhone: the newest lead with the number, but that of the session
FindPhoneLead(m) ==
    LET same == {d \in Live \ {handler[m].session} : lead[d].phone = handler[m].phone} IN
    /\ At(m, "phone")
    /\ IF same = {} THEN handler' = [handler EXCEPT ![m].pc = "create", ![m].knew = Live]
       ELSE \E d \in same : (\A e \in same : lead[e].nth <= lead[d].nth) /\ LinkTo(m, d, "phone")
    /\ UNCHANGED <<owner, lead, markers, where, reply, merging, spent, crossed>>

\* lead.create: dialogId is unique, and a second creation finds the first
CreateLead(m) ==
    LET h == handler[m] IN
    /\ At(m, "create")
    /\ Goto(m, "answer")
    /\ lead' = IF HasLead(h.dialog) THEN lead
               ELSE [lead EXCEPT ![h.dialog] = [phone |-> h.phone, archived |-> FALSE,
                                                nth |-> Cardinality(Leads) + 1, knew |-> h.knew]]
    /\ UNCHANGED <<owner, markers, where, reply, merging, spent, crossed>>

\* *Mutant:* a lead that is not found is passed over
ReadTargetQuiet(m) ==
    LET d == handler[m].target IN
    /\ At(m, "linking")
    /\ Goto(m, IF lead[d].archived \/ d = handler[m].session THEN "answer" ELSE "link")
    /\ UNCHANGED <<owner, lead, markers, where, reply, merging, spent, crossed>>

\* linkDialogToLead up to the transaction: a lead that was archived meanwhile is
\* not found, and the handler throws
ReadTarget(m) ==
    LET d == handler[m].target IN
    /\ At(m, "linking")
    /\ Goto(m, IF lead[d].archived THEN "failed"
               ELSE IF d = handler[m].session THEN "answer" ELSE "link")
    /\ UNCHANGED <<owner, lead, markers, where, reply, merging, spent, crossed>>

\* message.updateMany: whatever is in dialog a is in dialog b then
MoveMessages(a, b) ==
    /\ where' = [m \in Messages |-> IF where[m] = a THEN b ELSE where[m]]
    /\ reply' = [m \in Messages |-> IF reply[m] = a THEN b ELSE reply[m]]

MoveMarkers(a, b) == [k \in DOMAIN markers |-> IF markers[k].in = a THEN [markers[k] EXCEPT !.in = b]
                                               ELSE markers[k]]

\* linkDialogToLead's $transaction
Link(m) ==
    LET s == handler[m].session  d == handler[m].target IN
    /\ At(m, "link")
    /\ MoveMessages(s, d)
    /\ markers' = Append(MoveMarkers(s, d), [in |-> s, to |-> d])
    /\ Goto(m, "answer")
    /\ UNCHANGED <<owner, lead, merging, spent, crossed>>

-----------------------------------------------------------------------------
(* ai-orchestrator.service.ts, after the extraction *)

Done(m) ==
    handler' = [handler EXCEPT ![m] = [NoHandler EXCEPT !.pc = "done", !.content = handler[m].content]]

\* blocked, from the cache, or from a provider: the answer goes where the
\* message was stored, and the providers see the messages that are there
Answer(m) ==
    /\ At(m, "answer")
    /\ reply' = [reply EXCEPT ![m] = handler[m].active]
    /\ Done(m)
    /\ UNCHANGED <<owner, lead, markers, where, merging, spent, crossed>>

\* every provider of the chain has failed
AnswerFails(m) ==
    /\ At(m, "answer")
    /\ Done(m)
    /\ UNCHANGED <<owner, lead, markers, where, reply, merging, spent, crossed>>

Restart ==
    /\ "restart" \in Faults /\ Spend("faults", MaxFaults)
    /\ handler' = [m \in Messages |-> IF handler[m].pc \in Busy
                                      THEN [NoHandler EXCEPT !.pc = "lost", !.content = handler[m].content]
                                      ELSE handler[m]]
    /\ merging' = {}
    /\ UNCHANGED <<owner, lead, markers, where, reply, crossed>>

-----------------------------------------------------------------------------
(* leads.service.ts *)

\* merge up to its transaction: the source must not be archived
ReadMerge(a, b) ==
    /\ a # b /\ a \in Live /\ b \in Leads
    /\ Spend("archived", MaxArchived)
    /\ merging' = merging \cup {<<a, b>>}
    /\ UNCHANGED <<owner, lead, markers, where, reply, handler, crossed>>

Merge(a, b) ==
    /\ <<a, b>> \in merging
    /\ merging' = merging \ {<<a, b>>}
    /\ MoveMessages(a, b)
    /\ markers' = MoveMarkers(a, b)
    /\ lead' = [lead EXCEPT ![a].archived = TRUE]
    /\ UNCHANGED <<owner, handler, spent, crossed>>

\* archiveMany
Archive(d) ==
    /\ d \in Live /\ Spend("archived", MaxArchived)
    /\ lead' = [lead EXCEPT ![d].archived = TRUE]
    /\ UNCHANGED <<owner, markers, where, reply, handler, merging, crossed>>

-----------------------------------------------------------------------------

Handle(m) ==
    \/ Resolve(m) \/ Store(m) \/ ResolveAgain(m) \/ FindLead(m) \/ FindVisitorLead(m)
    \/ Gather(m) \/ FindPhoneLead(m) \/ CreateLead(m) \/ ReadTarget(m) \/ Link(m)
    \/ Answer(m) \/ AnswerFails(m)

Next ==
    \/ \E m \in Messages, v \in Visitors, d \in Dialogs, p \in Phones \cup {NoPhone} : Send(m, v, d, p)
    \/ \E m \in Messages : Handle(m)
    \/ \E a, b \in Dialogs : ReadMerge(a, b) \/ Merge(a, b)
    \/ \E d \in Dialogs : Archive(d)
    \/ Restart

Spec == Init /\ [][Next]_vars

-----------------------------------------------------------------------------

\* UC-01, "the phone number is recognised, and a lead is created": once a message
\* with a number has been handled, the dialog it is in, or the one that dialog
\* was linked to, has a lead, of whatever number and whatever was linked or merged
\* meanwhile.
NumberHasLead ==
    \A m \in Messages :
       At(m, "done") /\ handler[m].content # NoPhone => HasLead(Effective(where[m]))

\* A dialog is linked because it has no lead, and gets none afterwards: its
\* messages belong to one lead.  Two messages of one session that are handled at
\* once may break this.
LinkedHasNoLead == crossed \/ \A d \in Leads : MarkersIn(d) = {}

\* Deduplication by phone: of two leads with one number, neither was there when
\* the other one's handler looked for the number.
SameNumberIsRace ==
    \A d, e \in Live :
       d # e /\ lead[d].phone = lead[e].phone => d \notin lead[e].knew /\ e \notin lead[d].knew

\* "If dialog was merged into another, route new messages there": an answer is in
\* the dialog of the message it answers.
AnswerIsRouted == \A m \in Messages : reply[m] # None => reply[m] = where[m]
=============================================================================
