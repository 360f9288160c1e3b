------------------------- MODULE LeadCaptureProofs -------------------------
(***************************************************************************)
(* Proofs about LeadCapture for any number of visitors, messages, dialogs, *)
(* numbers, merges and restarts.                                           *)
(***************************************************************************)
EXTENDS LeadCapture, FiniteSetTheorems, SequenceTheorems, WellFoundedInduction, TLAPS

HandlerRecord ==
    [pc : HandlerPc, session : Dialogs \cup {None}, active : Dialogs \cup {None},
     dialog : Dialogs \cup {None}, content : Phones \cup {NoPhone},
     phone : Phones \cup {NoPhone}, target : Dialogs \cup {None},
     reason : {"none", "visitor", "phone"}, knew : SUBSET Dialogs]

LeadRecord == [phone : Phones \cup {NoPhone}, archived : BOOLEAN, nth : Nat, knew : SUBSET Dialogs]

Marker == [in : Dialogs, to : Dialogs]
Opened == 1..Len(owner)

Shapes ==
    /\ owner \in Seq(Visitors) /\ Len(owner) <= MaxDialogs
    /\ lead \in [Dialogs -> LeadRecord]
    /\ markers \in Seq(Marker)
    /\ where \in [Messages -> Dialogs \cup {None}]
    /\ reply \in [Messages -> Dialogs \cup {None}]
    /\ handler \in [Messages -> HandlerRecord]
    /\ merging \subseteq Leads \X Leads
    /\ spent \in [{"archived", "faults"} -> Nat]
    /\ crossed \in BOOLEAN

\* A lead's dialog was opened, and whoever created it had a number that no lead
\* he knew of had.
LeadsReal ==
    \A d \in Leads :
       /\ d \in Opened /\ lead[d].phone # NoPhone
       /\ lead[d].knew \subseteq Leads
       /\ \A e \in lead[d].knew : lead[e].phone # lead[d].phone

\* A dialog is only ever linked to one with a lead.
MarkersLead == \A k \in DOMAIN markers : markers[k].to \in Leads

\* The dialog has a lead, or was linked to one that has.
Served(d) == d \in Dialogs /\ (HasLead(d) \/ MarkersIn(d) # {})

\* What a handler h, whose message is stored in dialog w, relies on at each of
\* its awaits.
ReliesOn(h, w) ==
    /\ h.pc \in Busy => h.session \in Opened
    /\ h.pc = "resolved" => h.active = h.session \/ h.active \in Leads
    /\ h.pc = "find" => h.dialog = h.session \/ (h.dialog \in Leads /\ Served(h.session))
    /\ h.pc \in {"visitor", "gather", "phone", "create"} => h.dialog = h.session
    /\ h.pc \in {"phone", "create"} => h.phone # NoPhone
    /\ h.pc = "create" =>
         /\ h.knew \subseteq Leads
         /\ \A d \in h.knew \ {h.session} : lead[d].phone # h.phone
    /\ h.pc \in {"linking", "link"} => h.target \in Leads
    /\ h.pc \in Busy \ {"sent", "resolved", "answer"} => w = h.session \/ Served(w)
    /\ h.pc \in {"answer", "done"} /\ h.content # NoPhone => Served(w)

Relies(m) == ReliesOn(handler[m], where[m])

CaptureInv ==
    Shapes /\ LeadsReal /\ MarkersLead /\ \A m \in Messages : Relies(m)

-----------------------------------------------------------------------------
(* The newest marker *)

LEMMA Greatest ==
    ASSUME NEW n \in Nat, NEW K \in SUBSET (1..n), K # {}
    PROVE  \E k \in K : \A j \in K : j <= k
<1> DEFINE D == {n - k : k \in K}
<1>1. D \subseteq Nat
  <2>1. \A k \in K : n - k \in Nat
    OBVIOUS
  <2> QED BY <2>1
<1>2. PICK k0 \in K : TRUE
  OBVIOUS
<1>3. n - k0 \in D
  OBVIOUS
<1>4. D # {}
  BY <1>3
<1>5. \E x \in D : \A y \in D : ~(<<y, x>> \in OpToRel(<, Nat))
  BY <1>1, <1>4, NatLessThanWellFounded, WFMin, Zenon
<1>6. PICK x \in D : \A y \in D : ~(y < x)
  BY <1>1, <1>5, Zenon DEF OpToRel
<1>7. PICK k \in K : x = n - k
  OBVIOUS
<1>8. ASSUME NEW j \in K PROVE j <= k
  <2>1. n - j \in D
    OBVIOUS
  <2>2. ~(n - j < n - k)
    BY <1>6, <1>7, <2>1
  <2>3. j \in Int /\ k \in Int /\ n \in Int
    OBVIOUS
  <2> HIDE DEF D
  <2> QED BY <2>2, <2>3
<1> QED BY <1>7, <1>8

LEMMA OpenedDialogs == ASSUME Shapes PROVE Opened \subseteq Dialogs
<1>1. Len(owner) \in Nat /\ Len(owner) <= MaxDialogs /\ MaxDialogs \in Nat
  BY LenProperties, CaptureBounds DEF Shapes
<1> QED BY <1>1 DEF Opened, Dialogs

\* resolveEffectiveDialog leads to the dialog itself, or to one with a lead.
LEMMA EffectiveServes ==
    ASSUME Shapes, MarkersLead, NEW d \in Dialogs
    PROVE  \/ Effective(d) = d /\ MarkersIn(d) = {}
           \/ Effective(d) \in Leads /\ Served(d)
<1>1. CASE MarkersIn(d) = {}
  BY <1>1 DEF Effective
<1>2. CASE MarkersIn(d) # {}
  <2>1. Len(markers) \in Nat /\ DOMAIN markers = 1..Len(markers)
    BY LenProperties DEF Shapes
  <2>2. MarkersIn(d) \in SUBSET (1..Len(markers))
    BY <2>1 DEF MarkersIn
  <2>3. \E k \in MarkersIn(d) : \A j \in MarkersIn(d) : j <= k
    BY <1>2, <2>1, <2>2, Greatest
  <2>4. Newest(MarkersIn(d)) \in MarkersIn(d)
    BY <2>3 DEF Newest
  <2>5. markers[Newest(MarkersIn(d))].to \in Leads
    BY <2>4 DEF MarkersIn, MarkersLead
  <2> QED BY <1>2, <2>5 DEF Effective, Served
<1> QED BY <1>1, <1>2

-----------------------------------------------------------------------------
(* What steps have in common *)

\* Dialogs stay open, leads keep their numbers, and a served dialog is served for good.
Grows ==
    /\ Opened \subseteq Opened'
    /\ \A d \in Leads : d \in Leads' /\ lead'[d].phone = lead[d].phone /\ lead'[d].knew = lead[d].knew
    /\ \A d \in Dialogs : Served(d) => Served(d)'

LEMMA Lasting ==
    ASSUME Grows, NEW h, NEW w, NEW v, ReliesOn(h, w), v = w \/ v \in Leads'
    PROVE  ReliesOn(h, v)'
<1>1. \A d : Served(d) => Served(d)'
  BY DEF Grows, Served
<1>2. Leads \subseteq Leads' /\ Opened \subseteq Opened'
  BY DEF Grows
<1>3. \A d \in Leads' : Served(d)'
  BY DEF Leads, Served
<1>4. h.pc = "create" =>
         /\ h.knew \subseteq Leads'
         /\ \A d \in h.knew \ {h.session} : lead'[d].phone # h.phone
  BY <1>2 DEF ReliesOn, Grows
<1> QED BY <1>1, <1>2, <1>3, <1>4 DEF ReliesOn

LEMMA OthersRely ==
    ASSUME CaptureInv, Grows, NEW k \in Messages, handler'[k] = handler[k],
           where'[k] = where[k] \/ where'[k] \in Leads'
    PROVE  Relies(k)'
<1>1. PICK h, w, v : h = handler[k] /\ w = where[k] /\ v = where'[k]
  OBVIOUS
<1>2. ReliesOn(h, w)
  BY <1>1 DEF CaptureInv, Relies
<1>3. ReliesOn(h, v)'
  BY <1>1, <1>2, Lasting
<1> QED BY <1>1, <1>3 DEF Relies

\* A step of one handler that touches no lead and no marker.
LEMMA HandlerStep ==
    ASSUME CaptureInv, NEW m \in Messages, UNCHANGED <<owner, lead, markers, merging, spent, crossed>>,
           handler' \in [Messages -> HandlerRecord],
           \A k \in Messages \ {m} : handler'[k] = handler[k] /\ where'[k] = where[k],
           where' \in [Messages -> Dialogs \cup {None}],
           reply' \in [Messages -> Dialogs \cup {None}],
           Relies(m)'
    PROVE  CaptureInv'
<1>1. Opened' = Opened /\ Leads' = Leads /\ \A d : HasLead(d)' = HasLead(d) /\ MarkersIn(d)' = MarkersIn(d)
  BY DEF Opened, Leads, HasLead, MarkersIn
<1>2. Grows
  BY <1>1 DEF Grows, Served
<1>3. Shapes'
  BY <1>1 DEF CaptureInv, Shapes
<1>4. LeadsReal' /\ MarkersLead'
  BY <1>1 DEF CaptureInv, LeadsReal, MarkersLead
<1>5. \A k \in Messages \ {m} : Relies(k)'
  BY <1>2, OthersRely
<1> QED BY <1>3, <1>4, <1>5 DEF CaptureInv

\* A handler goes on, and nothing else happens.
LEMMA GotoStep ==
    ASSUME CaptureInv, NEW m \in Messages, NEW h \in HandlerRecord,
           handler' = [handler EXCEPT ![m] = h],
           UNCHANGED <<owner, lead, markers, where, merging, spent, crossed>>,
           reply' \in [Messages -> Dialogs \cup {None}],
           ReliesOn(h, where[m])
    PROVE  CaptureInv'
<1>1. /\ handler' \in [Messages -> HandlerRecord] /\ handler'[m] = h
      /\ \A k \in Messages \ {m} : handler'[k] = handler[k]
  BY DEF CaptureInv, Shapes
<1>2. where' \in [Messages -> Dialogs \cup {None}]
  BY DEF CaptureInv, Shapes
<1>3. PICK w : w = where[m] /\ w = where'[m]
  OBVIOUS
<1>4. Opened' = Opened /\ Leads' = Leads /\ \A d : HasLead(d)' = HasLead(d) /\ MarkersIn(d)' = MarkersIn(d)
  BY DEF Opened, Leads, HasLead, MarkersIn
<1>5. ReliesOn(h, w)'
  BY <1>3, <1>4 DEF ReliesOn, Served
<1>6. Relies(m)'
  BY <1>1, <1>3, <1>5 DEF Relies
<1> QED BY <1>1, <1>2, <1>6, HandlerStep

-----------------------------------------------------------------------------
(* The steps of a handler that change nothing but itself *)

LEMMA ResolveStep == ASSUME CaptureInv, NEW m \in Messages, Resolve(m) PROVE CaptureInv'
<1> DEFINE g == handler[m]
           h == [g EXCEPT !.pc = "resolved", !.active = Effective(g.session)]
<1>1. g \in HandlerRecord /\ g.pc = "sent" /\ ReliesOn(g, where[m])
  BY DEF Resolve, At, CaptureInv, Shapes, Relies
<1>2. g.session \in Opened /\ g.session \in Dialogs
  BY <1>1, OpenedDialogs DEF ReliesOn, Busy, CaptureInv
<1>3. Effective(g.session) \in Dialogs /\ (Effective(g.session) = g.session \/ Effective(g.session) \in Leads)
  BY <1>2, EffectiveServes DEF CaptureInv, Leads
<1>4. h \in HandlerRecord
  BY <1>1, <1>3 DEF HandlerRecord, HandlerPc, Busy
<1>5. ReliesOn(h, where[m])
  BY <1>1, <1>2, <1>3 DEF ReliesOn, HandlerRecord
<1>6. handler' = [handler EXCEPT ![m] = h]
  BY DEF Resolve
<1>7. UNCHANGED <<owner, lead, markers, where, merging, spent, crossed>>
  BY DEF Resolve
<1>8. reply' \in [Messages -> Dialogs \cup {None}]
  BY DEF Resolve, CaptureInv, Shapes
<1> HIDE DEF h
<1> QED BY <1>4, <1>5, <1>6, <1>7, <1>8, GotoStep

LEMMA ResolveAgainStep == ASSUME CaptureInv, NEW m \in Messages, ResolveAgain(m) PROVE CaptureInv'
<1> DEFINE g == handler[m]
           h == [g EXCEPT !.pc = "find", !.dialog = Effective(g.session)]
<1>1. g \in HandlerRecord /\ g.pc = "stored" /\ ReliesOn(g, where[m])
  BY DEF ResolveAgain, At, CaptureInv, Shapes, Relies
<1>2. g.session \in Opened /\ g.session \in Dialogs
  BY <1>1, OpenedDialogs DEF ReliesOn, Busy, CaptureInv
<1>3. \/ Effective(g.session) = g.session
      \/ Effective(g.session) \in Leads /\ Served(g.session)
  BY <1>2, EffectiveServes DEF CaptureInv
<1>4. Effective(g.session) \in Dialogs
  BY <1>2, <1>3 DEF Leads
<1>5. h \in HandlerRecord
  BY <1>1, <1>4 DEF HandlerRecord, HandlerPc, Busy
<1>6. ReliesOn(h, where[m])
  <2>1. where[m] = g.session \/ Served(where[m])
    BY <1>1 DEF ReliesOn, Busy
  <2>2. h.pc = "find" /\ h.session = g.session /\ h.dialog = Effective(g.session)
    BY <1>1 DEF HandlerRecord
  <2> HIDE DEF h
  <2> QED BY <1>2, <1>3, <2>1, <2>2 DEF ReliesOn
<1>7. handler' = [handler EXCEPT ![m] = h]
  BY DEF ResolveAgain
<1>8. UNCHANGED <<owner, lead, markers, where, merging, spent, crossed>>
  BY DEF ResolveAgain
<1>9. reply' \in [Messages -> Dialogs \cup {None}]
  BY DEF ResolveAgain, CaptureInv, Shapes
<1> HIDE DEF h
<1> QED BY <1>5, <1>6, <1>7, <1>8, <1>9, GotoStep

LEMMA FindLeadStep == ASSUME CaptureInv, NEW m \in Messages, FindLead(m) PROVE CaptureInv'
<1> DEFINE g == handler[m]
           h == [g EXCEPT !.pc = IF HasLead(g.dialog) THEN "answer" ELSE "visitor"]
<1>1. g \in HandlerRecord /\ g.pc = "find" /\ ReliesOn(g, where[m])
  BY DEF FindLead, At, CaptureInv, Shapes, Relies
<1>2. g.session \in Opened /\ g.session \in Dialogs
  BY <1>1, OpenedDialogs DEF ReliesOn, Busy, CaptureInv
<1>3. \/ HasLead(g.dialog) /\ Served(g.session)
      \/ ~HasLead(g.dialog) /\ g.dialog = g.session
  BY <1>1, <1>2 DEF ReliesOn, Served, Leads
<1>4. h \in HandlerRecord
  BY <1>1 DEF HandlerRecord, HandlerPc, Busy
<1>5. where[m] = g.session \/ Served(where[m])
  BY <1>1 DEF ReliesOn, Busy
<1>6. ReliesOn(h, where[m])
  BY <1>1, <1>2, <1>3, <1>5 DEF ReliesOn, HandlerRecord, Busy
<1>7. handler' = [handler EXCEPT ![m] = h]
  BY DEF FindLead, Goto
<1>8. UNCHANGED <<owner, lead, markers, where, merging, spent, crossed>>
  BY DEF FindLead
<1>9. reply' \in [Messages -> Dialogs \cup {None}]
  BY DEF FindLead, CaptureInv, Shapes
<1> HIDE DEF h
<1> QED BY <1>4, <1>6, <1>7, <1>8, <1>9, GotoStep

LEMMA FindVisitorLeadStep ==
    ASSUME CaptureInv, NEW m \in Messages, FindVisitorLead(m) PROVE CaptureInv'
<1> DEFINE g == handler[m]
<1>1. g \in HandlerRecord /\ g.pc = "visitor" /\ ReliesOn(g, where[m])
  BY DEF FindVisitorLead, At, CaptureInv, Shapes, Relies
<1>2. /\ g.session \in Opened /\ g.dialog = g.session
      /\ where[m] = g.session \/ Served(where[m])
  BY <1>1 DEF ReliesOn, Busy
<1>3. UNCHANGED <<owner, lead, markers, where, merging, spent, crossed>>
  BY DEF FindVisitorLead
<1>4. reply' \in [Messages -> Dialogs \cup {None}]
  BY DEF FindVisitorLead, CaptureInv, Shapes
<1>5. CASE Goto(m, "gather")
  <2> DEFINE h == [g EXCEPT !.pc = "gather"]
  <2>1. h \in HandlerRecord /\ h.pc = "gather" /\ h.session = g.session /\ h.dialog = g.dialog
    BY <1>1 DEF HandlerRecord, HandlerPc, Busy
  <2>2. handler' = [handler EXCEPT ![m] = h]
    BY <1>5 DEF Goto
  <2> HIDE DEF h
  <2>3. ReliesOn(h, where[m])
    BY <1>2, <2>1 DEF ReliesOn
  <2> QED BY <1>3, <1>4, <2>1, <2>2, <2>3, GotoStep
<1>6. CASE \E d \in Live : LinkTo(m, d, "visitor")
  <2>1. PICK d \in Live : LinkTo(m, d, "visitor")
    BY <1>6
  <2> DEFINE h == [g EXCEPT !.pc = "linking", !.target = d, !.reason = "visitor"]
  <2>2. d \in Leads /\ d \in Dialogs
    BY DEF Live, Leads
  <2>3. h \in HandlerRecord /\ h.pc = "linking" /\ h.session = g.session /\ h.target = d
    BY <1>1, <2>2 DEF HandlerRecord, HandlerPc, Busy
  <2>4. handler' = [handler EXCEPT ![m] = h]
    BY <2>1 DEF LinkTo
  <2> HIDE DEF h
  <2>5. ReliesOn(h, where[m])
    BY <1>2, <2>2, <2>3 DEF ReliesOn
  <2> QED BY <1>3, <1>4, <2>3, <2>4, <2>5, GotoStep
<1> QED BY <1>5, <1>6 DEF FindVisitorLead

LEMMA GatherStep == ASSUME CaptureInv, NEW m \in Messages, Gather(m) PROVE CaptureInv'
<1> DEFINE g == handler[m]
<1>1. g \in HandlerRecord /\ g.pc = "gather" /\ ReliesOn(g, where[m])
  BY DEF Gather, At, CaptureInv, Shapes, Relies
<1>2. /\ g.session \in Opened /\ g.dialog = g.session
      /\ where[m] = g.session \/ Served(where[m])
  BY <1>1 DEF ReliesOn, Busy
<1>3. UNCHANGED <<owner, lead, markers, where, merging, spent, crossed>>
  BY DEF Gather
<1>4. reply' \in [Messages -> Dialogs \cup {None}]
  BY DEF Gather, CaptureInv, Shapes
<1>5. ASSUME NEW p \in Phones \cup {NoPhone}, p # NoPhone,
             handler' = [handler EXCEPT ![m].pc = "phone", ![m].phone = p]
      PROVE  CaptureInv'
  <2> DEFINE h == [g EXCEPT !.pc = "phone", !.phone = p]
  <2>1. /\ h \in HandlerRecord /\ h.pc = "phone" /\ h.session = g.session
        /\ h.dialog = g.dialog /\ h.phone = p
    BY <1>1 DEF HandlerRecord, HandlerPc, Busy
  <2>2. handler' = [handler EXCEPT ![m] = h]
    BY <1>5
  <2> HIDE DEF h
  <2>3. ReliesOn(h, where[m])
    BY <1>2, <1>5, <2>1 DEF ReliesOn
  <2> QED BY <1>3, <1>4, <2>1, <2>2, <2>3, GotoStep
<1>6. CASE g.content = NoPhone /\ Goto(m, "answer")
  <2> DEFINE h == [g EXCEPT !.pc = "answer"]
  <2>1. h \in HandlerRecord /\ h.pc = "answer" /\ h.session = g.session /\ h.content = g.content
    BY <1>1 DEF HandlerRecord, HandlerPc, Busy
  <2>2. handler' = [handler EXCEPT ![m] = h]
    BY <1>6 DEF Goto
  <2> HIDE DEF h
  <2>3. ReliesOn(h, where[m])
    BY <1>2, <1>6, <2>1 DEF ReliesOn
  <2> QED BY <1>3, <1>4, <2>1, <2>2, <2>3, GotoStep
<1>7. \A k \in Messages : handler[k].content \in Phones \cup {NoPhone}
  BY DEF CaptureInv, Shapes, HandlerRecord
<1>8. \/ g.content # NoPhone /\ handler' = [handler EXCEPT ![m].pc = "phone", ![m].phone = g.content]
      \/ \E k \in Messages : /\ handler[k].content # NoPhone
           /\ handler' = [handler EXCEPT ![m].pc = "phone", ![m].phone = handler[k].content]
      \/ g.content = NoPhone /\ Goto(m, "answer")
  BY DEF Gather
<1> QED BY <1>5, <1>6, <1>7, <1>8

LEMMA FindPhoneLeadStep ==
    ASSUME CaptureInv, NEW m \in Messages, FindPhoneLead(m) PROVE CaptureInv'
<1> DEFINE g == handler[m]
           same == {d \in Live \ {g.session} : lead[d].phone = g.phone}
<1>1. g \in HandlerRecord /\ g.pc = "phone" /\ ReliesOn(g, where[m])
  BY DEF FindPhoneLead, At, CaptureInv, Shapes, Relies
<1>2. /\ g.session \in Opened /\ g.dialog = g.session /\ g.phone # NoPhone
      /\ where[m] = g.session \/ Served(where[m])
  BY <1>1 DEF ReliesOn, Busy
<1>3. UNCHANGED <<owner, lead, markers, where, merging, spent, crossed>>
  BY DEF FindPhoneLead
<1>4. reply' \in [Messages -> Dialogs \cup {None}]
  BY DEF FindPhoneLead, CaptureInv, Shapes
<1>5. CASE same = {} /\ handler' = [handler EXCEPT ![m].pc = "create", ![m].knew = Live]
  <2> DEFINE h == [g EXCEPT !.pc = "create", !.knew = Live]
  <2>1. Live \subseteq Leads /\ Live \subseteq Dialogs
    BY DEF Live, Leads
  <2>2. /\ h \in HandlerRecord /\ h.pc = "create" /\ h.session = g.session
        /\ h.dialog = g.dialog /\ h.phone = g.phone /\ h.knew = Live
    BY <1>1, <2>1 DEF HandlerRecord, HandlerPc, Busy
  <2>3. handler' = [handler EXCEPT ![m] = h]
    BY <1>5
  <2>4. \A d \in Live \ {g.session} : lead[d].phone # g.phone
    BY <1>5
  <2> HIDE DEF h
  <2>5. ReliesOn(h, where[m])
    BY <1>2, <2>1, <2>2, <2>4 DEF ReliesOn
  <2> QED BY <1>3, <1>4, <2>2, <2>3, <2>5, GotoStep
<1>6. CASE \E d \in Live : LinkTo(m, d, "phone")
  <2>1. PICK d \in Live : LinkTo(m, d, "phone")
    BY <1>6
  <2> DEFINE h == [g EXCEPT !.pc = "linking", !.target = d, !.reason = "phone"]
  <2>2. d \in Leads /\ d \in Dialogs
    BY DEF Live, Leads
  <2>3. h \in HandlerRecord /\ h.pc = "linking" /\ h.session = g.session /\ h.target = d
    BY <1>1, <2>2 DEF HandlerRecord, HandlerPc, Busy
  <2>4. handler' = [handler EXCEPT ![m] = h]
    BY <2>1 DEF LinkTo
  <2> HIDE DEF h
  <2>5. ReliesOn(h, where[m])
    BY <1>2, <2>2, <2>3 DEF ReliesOn
  <2> QED BY <1>3, <1>4, <2>3, <2>4, <2>5, GotoStep
<1> QED BY <1>5, <1>6 DEF FindPhoneLead

LEMMA ReadTargetStep == ASSUME CaptureInv, NEW m \in Messages, ReadTarget(m) PROVE CaptureInv'
<1> DEFINE g == handler[m]
<1>1. g \in HandlerRecord /\ g.pc = "linking" /\ ReliesOn(g, where[m])
  BY DEF ReadTarget, At, CaptureInv, Shapes, Relies
<1>2. /\ g.session \in Opened /\ g.target \in Leads
      /\ where[m] = g.session \/ Served(where[m])
  BY <1>1 DEF ReliesOn, Busy
<1>3. UNCHANGED <<owner, lead, markers, where, merging, spent, crossed>>
  BY DEF ReadTarget
<1>4. reply' \in [Messages -> Dialogs \cup {None}]
  BY DEF ReadTarget, CaptureInv, Shapes
<1>5. ASSUME NEW pc \in {"failed", "answer", "link"}, Goto(m, pc),
             pc = "answer" => g.target = g.session
      PROVE  CaptureInv'
  <2> DEFINE h == [g EXCEPT !.pc = pc]
  <2>1. h \in HandlerRecord /\ h.pc = pc /\ h.session = g.session /\ h.target = g.target
    BY <1>1 DEF HandlerRecord, HandlerPc, Busy
  <2>2. handler' = [handler EXCEPT ![m] = h]
    BY <1>5 DEF Goto
  <2> HIDE DEF h
  <2>3. pc = "answer" => Served(where[m])
    BY <1>2, <1>5 DEF Served, Leads
  <2>4. ReliesOn(h, where[m])
    BY <1>2, <2>1, <2>3 DEF ReliesOn, Busy
  <2> QED BY <1>3, <1>4, <2>1, <2>2, <2>4, GotoStep
<1> QED BY <1>5 DEF ReadTarget

\* The answer is stored, or is not: the handler ends.
LEMMA DoneStep ==
    ASSUME CaptureInv, NEW m \in Messages, At(m, "answer"), Done(m),
           UNCHANGED <<owner, lead, markers, where, merging, spent, crossed>>,
           reply' \in [Messages -> Dialogs \cup {None}]
    PROVE  CaptureInv'
<1> DEFINE g == handler[m]
           h == [NoHandler EXCEPT !.pc = "done", !.content = g.content]
<1>1. g \in HandlerRecord /\ g.pc = "answer" /\ ReliesOn(g, where[m])
  BY DEF At, CaptureInv, Shapes, Relies
<1>2. g.content # NoPhone => Served(where[m])
  BY <1>1 DEF ReliesOn
<1>3. h \in HandlerRecord /\ h.pc = "done" /\ h.content = g.content
  BY <1>1 DEF HandlerRecord, HandlerPc, NoHandler
<1>4. handler' = [handler EXCEPT ![m] = h]
  BY DEF Done
<1> HIDE DEF h
<1>5. ReliesOn(h, where[m])
  BY <1>2, <1>3 DEF ReliesOn, Busy
<1> QED BY <1>3, <1>4, <1>5, GotoStep

LEMMA AnswerStep ==
    ASSUME CaptureInv, NEW m \in Messages, Answer(m) \/ AnswerFails(m) PROVE CaptureInv'
<1>1. reply' \in [Messages -> Dialogs \cup {None}]
  <2>1. handler[m].active \in Dialogs \cup {None}
    BY DEF CaptureInv, Shapes, HandlerRecord
  <2> QED BY <2>1 DEF Answer, AnswerFails, CaptureInv, Shapes
<1> QED BY <1>1, DoneStep DEF Answer, AnswerFails

-----------------------------------------------------------------------------
(* The steps that store, open, create and move *)

LEMMA StoreStep == ASSUME CaptureInv, NEW m \in Messages, Store(m) PROVE CaptureInv'
<1>1. PICK g, w : g = handler[m] /\ w = g.active
  OBVIOUS
<1>2. g \in HandlerRecord /\ g.pc = "resolved" /\ ReliesOn(g, where[m])
  BY <1>1 DEF Store, At, CaptureInv, Shapes, Relies
<1>3. PICK h : h = [g EXCEPT !.pc = "stored"]
  OBVIOUS
<1>4. h \in HandlerRecord /\ h.pc = "stored" /\ h.session = g.session
  BY <1>2, <1>3 DEF HandlerRecord, HandlerPc, Busy
<1>5. w \in Dialogs \cup {None}
  BY <1>1, <1>2 DEF HandlerRecord
<1>6. UNCHANGED <<owner, lead, markers, reply, merging, spent, crossed>>
  BY DEF Store
<1>7. /\ handler' \in [Messages -> HandlerRecord] /\ handler'[m] = h
      /\ \A k \in Messages \ {m} : handler'[k] = handler[k]
  BY <1>1, <1>3, <1>4 DEF Store, Goto, CaptureInv, Shapes
<1>8. /\ where' \in [Messages -> Dialogs \cup {None}] /\ where'[m] = w
      /\ \A k \in Messages \ {m} : where'[k] = where[k]
  BY <1>1, <1>5 DEF Store, CaptureInv, Shapes
<1>9. Leads' = Leads /\ Opened' = Opened
  BY <1>6 DEF Leads, HasLead, Opened
<1>10. g.session \in Opened' /\ (w = g.session \/ w \in Leads')
  BY <1>1, <1>2, <1>9 DEF ReliesOn, Busy
<1>11. w \in Leads' => Served(w)'
  BY DEF Leads, Served
<1>12. ReliesOn(h, w)'
  BY <1>4, <1>10, <1>11 DEF ReliesOn
<1>13. Relies(m)'
  BY <1>7, <1>8, <1>12 DEF Relies
<1>14. reply' \in [Messages -> Dialogs \cup {None}]
  BY <1>6 DEF CaptureInv, Shapes
<1> QED BY <1>6, <1>7, <1>8, <1>13, <1>14, HandlerStep

LEMMA SendStep ==
    ASSUME CaptureInv, NEW m \in Messages, NEW v \in Visitors, NEW d \in Dialogs,
           NEW p \in Phones \cup {NoPhone}, Send(m, v, d, p)
    PROVE  CaptureInv'
<1>1. Len(owner) \in Nat /\ MaxDialogs \in Nat
  BY LenProperties, CaptureBounds DEF CaptureInv, Shapes
<1>2. /\ owner' \in Seq(Visitors) /\ Len(owner') <= MaxDialogs
      /\ Len(owner) <= Len(owner') /\ d \in 1..Len(owner')
  <2>1. CASE d <= Len(owner) /\ UNCHANGED owner
    BY <1>1, <2>1 DEF CaptureInv, Shapes, Dialogs
  <2>2. CASE d = Len(owner) + 1 /\ owner' = Append(owner, v)
    <3>1. owner' \in Seq(Visitors) /\ Len(owner') = Len(owner) + 1
      BY <2>2, AppendProperties DEF CaptureInv, Shapes
    <3> QED BY <1>1, <2>2, <3>1 DEF Dialogs
  <2> QED BY <2>1, <2>2 DEF Send
<1>3. Opened \subseteq Opened' /\ d \in Opened'
  <2>1. Len(owner') \in Nat
    BY <1>2, LenProperties
  <2> QED BY <1>1, <1>2, <2>1 DEF Opened
<1>4. UNCHANGED <<lead, markers, where, reply, merging, spent>>
  BY DEF Send
<1>5. Leads' = Leads /\ (\A e : HasLead(e)' = HasLead(e) /\ MarkersIn(e)' = MarkersIn(e))
  BY <1>4 DEF Leads, HasLead, MarkersIn
<1>6. Grows
  BY <1>3, <1>4, <1>5 DEF Grows, Served
<1>7. PICK h : h = [NoHandler EXCEPT !.pc = "sent", !.session = d, !.content = p]
  OBVIOUS
<1>8. h \in HandlerRecord /\ h.pc = "sent" /\ h.session = d
  BY <1>7 DEF HandlerRecord, HandlerPc, Busy, NoHandler
<1>9. /\ handler' \in [Messages -> HandlerRecord] /\ handler'[m] = h
      /\ \A k \in Messages \ {m} : handler'[k] = handler[k]
  BY <1>7, <1>8 DEF Send, CaptureInv, Shapes
<1>10. crossed' \in BOOLEAN
  BY DEF Send, CaptureInv, Shapes
<1>11. Shapes'
  BY <1>2, <1>4, <1>5, <1>9, <1>10 DEF CaptureInv, Shapes
<1>12. LeadsReal' /\ MarkersLead'
  BY <1>3, <1>4, <1>5 DEF CaptureInv, LeadsReal, MarkersLead
<1>13. PICK w : w = where'[m]
  OBVIOUS
<1>14. ReliesOn(h, w)'
  BY <1>3, <1>8 DEF ReliesOn, Busy
<1>15. Relies(m)'
  BY <1>9, <1>13, <1>14 DEF Relies
<1>16. \A k \in Messages \ {m} : Relies(k)'
  BY <1>4, <1>6, <1>9, OthersRely
<1> QED BY <1>11, <1>12, <1>15, <1>16 DEF CaptureInv

LEMMA CreateLeadStep == ASSUME CaptureInv, NEW m \in Messages, CreateLead(m) PROVE CaptureInv'
<1>1. PICK g, h : g = handler[m] /\ h = [g EXCEPT !.pc = "answer"]
  OBVIOUS
<1>2. g \in HandlerRecord /\ g.pc = "create" /\ ReliesOn(g, where[m])
  BY <1>1 DEF CreateLead, At, CaptureInv, Shapes, Relies
<1>3. /\ g.session \in Opened /\ g.session \in Dialogs /\ g.dialog = g.session
      /\ g.phone \in Phones \cup {NoPhone} /\ g.phone # NoPhone /\ g.knew \subseteq Leads
      /\ \A d \in g.knew \ {g.session} : lead[d].phone # g.phone
      /\ where[m] = g.session \/ Served(where[m])
  BY <1>2, OpenedDialogs DEF ReliesOn, Busy, HandlerRecord, CaptureInv
<1>4. h \in HandlerRecord /\ h.pc = "answer" /\ h.session = g.session
  BY <1>1, <1>2 DEF HandlerRecord, HandlerPc, Busy
<1>5. /\ handler' \in [Messages -> HandlerRecord] /\ handler'[m] = h
      /\ \A k \in Messages \ {m} : handler'[k] = handler[k]
  BY <1>1, <1>4 DEF CreateLead, Goto, CaptureInv, Shapes
<1>6. UNCHANGED <<owner, markers, where, reply, merging, spent, crossed>>
  BY DEF CreateLead
<1>7. /\ lead' \in [Dialogs -> LeadRecord]
      /\ Leads \subseteq Leads' /\ g.session \in Leads' /\ Leads' \subseteq Leads \cup {g.session}
      /\ \A d \in Leads : lead'[d] = lead[d]
      /\ g.session \notin Leads => lead'[g.session].phone = g.phone /\ lead'[g.session].knew = g.knew
  <2>1. CASE HasLead(g.dialog)
    <3>1. lead' = lead
      BY <1>1, <2>1 DEF CreateLead
    <3> QED BY <1>3, <2>1, <3>1 DEF CaptureInv, Shapes, Leads, HasLead
  <2>2. CASE ~HasLead(g.dialog)
    <3>1. PICK n : n = Cardinality(Leads) + 1
      OBVIOUS
    <3>2. n \in Nat /\ n > 0
      <4>1. IsFiniteSet(Dialogs)
        BY FS_Interval, CaptureBounds DEF Dialogs
      <4>2. Leads \subseteq Dialogs
        BY DEF Leads
      <4>3. Cardinality(Leads) \in Nat
        BY <4>1, <4>2, FS_Subset, FS_CardinalityType
      <4> QED BY <3>1, <4>3
    <3>3. PICK r : r = [phone |-> g.phone, archived |-> FALSE, nth |-> n, knew |-> g.knew]
      OBVIOUS
    <3>4. r \in LeadRecord /\ r.nth > 0 /\ r.phone = g.phone /\ r.knew = g.knew
      BY <1>2, <1>3, <3>2, <3>3 DEF LeadRecord, HandlerRecord
    <3>5. lead' = [lead EXCEPT ![g.session] = r]
      BY <1>1, <1>3, <2>2, <3>1, <3>3 DEF CreateLead
    <3>6. /\ lead' \in [Dialogs -> LeadRecord] /\ lead'[g.session] = r
          /\ \A d \in Dialogs \ {g.session} : lead'[d] = lead[d]
      BY <1>3, <3>4, <3>5 DEF CaptureInv, Shapes
    <3>7. g.session \notin Leads
      BY <1>3, <2>2 DEF Leads
    <3>8. \A d \in Leads : lead'[d] = lead[d]
      BY <3>6, <3>7 DEF Leads
    <3>9. /\ Leads \subseteq Leads' /\ g.session \in Leads'
          /\ Leads' \subseteq Leads \cup {g.session}
      BY <1>3, <3>4, <3>6 DEF Leads, HasLead
    <3> QED BY <3>4, <3>6, <3>7, <3>8, <3>9
  <2> QED BY <2>1, <2>2
<1>8. \A d \in Dialogs : Served(d) => Served(d)'
  BY <1>6, <1>7 DEF Served, Leads, MarkersIn
<1>9. Opened' = Opened
  BY <1>6 DEF Opened
<1>10. Grows
  BY <1>7, <1>8, <1>9 DEF Grows
<1>11. merging' \subseteq Leads' \X Leads'
  BY <1>6, <1>7 DEF CaptureInv, Shapes
<1>12. Shapes'
  BY <1>5, <1>6, <1>7, <1>11 DEF CaptureInv, Shapes
<1>13. MarkersLead'
  BY <1>6, <1>7 DEF CaptureInv, MarkersLead
<1>14. LeadsReal'
  <2> SUFFICES ASSUME NEW d \in Leads'
               PROVE  /\ d \in Opened' /\ lead'[d].phone # NoPhone
                      /\ lead'[d].knew \subseteq Leads'
                      /\ \A e \in lead'[d].knew : lead'[e].phone # lead'[d].phone
    BY DEF LeadsReal
  <2>1. CASE d \in Leads
    BY <1>7, <1>9, <2>1 DEF CaptureInv, LeadsReal
  <2>2. CASE d \notin Leads
    <3>1. d = g.session /\ lead'[d].phone = g.phone /\ lead'[d].knew = g.knew
      BY <1>7, <2>2
    <3>2. \A e \in g.knew : e # g.session /\ lead'[e] = lead[e]
      BY <1>3, <1>7, <2>2, <3>1
    <3> QED BY <1>3, <1>7, <1>9, <3>1, <3>2
  <2> QED BY <2>1, <2>2
<1>15. Relies(m)'
  <2>1. PICK w : w = where[m] /\ w = where'[m]
    BY <1>6
  <2>2. Served(g.session)'
    BY <1>7 DEF Served, Leads
  <2>3. Served(w)'
    BY <1>3, <1>8, <2>1, <2>2 DEF Served
  <2>4. ReliesOn(h, w)'
    BY <1>3, <1>4, <1>9, <2>3 DEF ReliesOn
  <2> QED BY <1>5, <2>1, <2>4 DEF Relies
<1>16. \A k \in Messages \ {m} : Relies(k)'
  BY <1>5, <1>6, <1>10, OthersRely
<1> QED BY <1>12, <1>13, <1>14, <1>15, <1>16 DEF CaptureInv

LEMMA Archived ==
    ASSUME CaptureInv, NEW a \in Dialogs, lead' = [lead EXCEPT ![a].archived = TRUE]
    PROVE  /\ lead' \in [Dialogs -> LeadRecord] /\ Leads' = Leads
           /\ \A d \in Dialogs : /\ lead'[d].phone = lead[d].phone /\ lead'[d].knew = lead[d].knew
                                 /\ HasLead(d)' = HasLead(d)
<1>1. PICK r : r = [lead[a] EXCEPT !.archived = TRUE]
  OBVIOUS
<1>2. lead[a] \in LeadRecord
  BY DEF CaptureInv, Shapes
<1>3. r \in LeadRecord /\ r.phone = lead[a].phone /\ r.knew = lead[a].knew /\ r.nth = lead[a].nth
  BY <1>1, <1>2 DEF LeadRecord
<1>4. lead' = [lead EXCEPT ![a] = r]
  BY <1>1
<1>5. lead' \in [Dialogs -> LeadRecord] /\ lead'[a] = r /\ \A d \in Dialogs \ {a} : lead'[d] = lead[d]
  BY <1>3, <1>4 DEF CaptureInv, Shapes
<1>6. \A d \in Dialogs : HasLead(d)' = HasLead(d)
  BY <1>3, <1>5 DEF HasLead
<1>7. Leads' = Leads
  BY <1>6 DEF Leads
<1> QED BY <1>3, <1>5, <1>6, <1>7

LEMMA MovedMarkers ==
    ASSUME Shapes, NEW a \in Dialogs, NEW b \in Dialogs
    PROVE  /\ MoveMarkers(a, b) \in Seq(Marker)
           /\ Len(MoveMarkers(a, b)) = Len(markers)
           /\ DOMAIN MoveMarkers(a, b) = DOMAIN markers
           /\ \A k \in DOMAIN markers :
                /\ MoveMarkers(a, b)[k].to = markers[k].to
                /\ MoveMarkers(a, b)[k].in = IF markers[k].in = a THEN b ELSE markers[k].in
<1> DEFINE M == MoveMarkers(a, b)
<1>1. Len(markers) \in Nat /\ DOMAIN markers = 1..Len(markers)
  BY LenProperties DEF Shapes
<1>2. \A k \in DOMAIN markers : markers[k] \in Marker
  BY <1>1, ElementOfSeq DEF Shapes
<1>3. \A k \in DOMAIN markers :
        /\ M[k] \in Marker /\ M[k].to = markers[k].to
        /\ M[k].in = IF markers[k].in = a THEN b ELSE markers[k].in
  BY <1>2 DEF MoveMarkers, Marker
<1>4. M \in [1..Len(markers) -> Marker]
  BY <1>1, <1>3 DEF MoveMarkers
<1> HIDE DEF M
<1>5. M \in Seq(Marker)
  BY <1>1, <1>4, SeqDef
<1>6. Len(M) = Len(markers)
  BY <1>1, <1>4, <1>5, LenProperties
<1> QED BY <1>1, <1>3, <1>4, <1>5, <1>6 DEF M

LEMMA MovedMessages ==
    ASSUME CaptureInv, NEW a \in Dialogs, NEW b \in Dialogs, MoveMessages(a, b)
    PROVE  /\ where' \in [Messages -> Dialogs \cup {None}]
           /\ reply' \in [Messages -> Dialogs \cup {None}]
           /\ \A k \in Messages : where'[k] = IF where[k] = a THEN b ELSE where[k]
BY DEF MoveMessages, CaptureInv, Shapes

LEMMA MergeStep ==
    ASSUME CaptureInv, NEW a \in Dialogs, NEW b \in Dialogs, Merge(a, b) PROVE CaptureInv'
<1>1. a \in Leads /\ b \in Leads
  BY DEF Merge, CaptureInv, Shapes
<1>2. UNCHANGED <<owner, handler, spent, crossed>> /\ merging' \subseteq merging
  BY DEF Merge
<1>3. /\ lead' \in [Dialogs -> LeadRecord] /\ Leads' = Leads
      /\ \A d \in Dialogs : /\ lead'[d].phone = lead[d].phone /\ lead'[d].knew = lead[d].knew
                            /\ HasLead(d)' = HasLead(d)
  BY Archived DEF Merge
<1>4. /\ where' \in [Messages -> Dialogs \cup {None}]
      /\ reply' \in [Messages -> Dialogs \cup {None}]
      /\ \A k \in Messages : where'[k] = IF where[k] = a THEN b ELSE where[k]
  BY MovedMessages DEF Merge
<1>5. /\ markers' \in Seq(Marker) /\ DOMAIN markers' = DOMAIN markers
      /\ \A k \in DOMAIN markers : /\ markers'[k].to = markers[k].to
                                   /\ markers'[k].in = IF markers[k].in = a THEN b ELSE markers[k].in
  BY MovedMarkers DEF Merge, CaptureInv
<1>6. Opened' = Opened /\ Leads \subseteq Dialogs
  BY <1>2 DEF Opened, Leads
<1>7. \A d \in Dialogs : Served(d) => Served(d)'
  <2> SUFFICES ASSUME NEW d \in Dialogs, Served(d), ~HasLead(d) PROVE Served(d)'
    BY <1>3 DEF Served
  <2>1. PICK k \in DOMAIN markers : markers[k].in = d
    BY DEF Served, MarkersIn
  <2>2. d # a
    BY <1>1 DEF Leads
  <2>3. k \in DOMAIN markers' /\ markers'[k].in = d
    BY <1>5, <2>1, <2>2
  <2> QED BY <2>3 DEF Served, MarkersIn
<1>8. Grows
  BY <1>3, <1>6, <1>7 DEF Grows
<1>9. Shapes'
  BY <1>2, <1>3, <1>4, <1>5 DEF CaptureInv, Shapes
<1>10. LeadsReal'
  BY <1>3, <1>6 DEF CaptureInv, LeadsReal
<1>11. MarkersLead'
  BY <1>3, <1>5 DEF CaptureInv, MarkersLead
<1>12. \A k \in Messages : Relies(k)'
  BY <1>1, <1>2, <1>3, <1>4, <1>8, OthersRely
<1> QED BY <1>9, <1>10, <1>11, <1>12 DEF CaptureInv

LEMMA LinkStep == ASSUME CaptureInv, NEW m \in Messages, Link(m) PROVE CaptureInv'
<1>1. PICK g, h : g = handler[m] /\ h = [g EXCEPT !.pc = "answer"]
  OBVIOUS
<1>2. g \in HandlerRecord /\ g.pc = "link" /\ ReliesOn(g, where[m])
  BY <1>1 DEF Link, At, CaptureInv, Shapes, Relies
<1>3. PICK s, d : s = g.session /\ d = g.target
  OBVIOUS
<1>4. /\ s \in Opened /\ s \in Dialogs /\ d \in Leads /\ d \in Dialogs
      /\ where[m] = s \/ Served(where[m])
  BY <1>2, <1>3, OpenedDialogs DEF ReliesOn, Busy, CaptureInv, Leads
<1>5. h \in HandlerRecord /\ h.pc = "answer"
  BY <1>1, <1>2 DEF HandlerRecord, HandlerPc, Busy
<1>6. /\ handler' \in [Messages -> HandlerRecord] /\ handler'[m] = h
      /\ \A k \in Messages \ {m} : handler'[k] = handler[k]
  BY <1>1, <1>5 DEF Link, Goto, CaptureInv, Shapes
<1>7. UNCHANGED <<owner, lead, merging, spent, crossed>>
  BY DEF Link
<1>8. Leads' = Leads /\ Opened' = Opened /\ \A e : HasLead(e)' = HasLead(e)
  BY <1>7 DEF Leads, HasLead, Opened
<1>9. /\ where' \in [Messages -> Dialogs \cup {None}]
      /\ reply' \in [Messages -> Dialogs \cup {None}]
      /\ \A k \in Messages : where'[k] = IF where[k] = s THEN d ELSE where[k]
  BY <1>1, <1>3, <1>4, MovedMessages DEF Link
<1>10. PICK M : M = MoveMarkers(s, d)
  OBVIOUS
<1>11. /\ M \in Seq(Marker) /\ DOMAIN M = DOMAIN markers /\ Len(M) \in Nat /\ DOMAIN M = 1..Len(M)
       /\ \A k \in DOMAIN markers : /\ M[k].to = markers[k].to
                                    /\ M[k].in = IF markers[k].in = s THEN d ELSE markers[k].in
  BY <1>4, <1>10, MovedMarkers, LenProperties DEF CaptureInv
<1>12. PICK r : r = [in |-> s, to |-> d]
  OBVIOUS
<1>13. r \in Marker /\ r.in = s /\ r.to = d
  BY <1>4, <1>12 DEF Marker
<1>14. markers' = Append(M, r)
  BY <1>1, <1>3, <1>10, <1>12 DEF Link
<1>15. /\ markers' \in Seq(Marker) /\ Len(markers') = Len(M) + 1
       /\ \A k \in 1..Len(M) : markers'[k] = M[k]
       /\ markers'[Len(M) + 1] = r
  BY <1>11, <1>13, <1>14, AppendProperties
<1>16. DOMAIN markers' = 1..(Len(M) + 1)
  BY <1>15, LenProperties
<1>17. \A e \in Dialogs : Served(e) => Served(e)'
  <2> SUFFICES ASSUME NEW e \in Dialogs, Served(e), ~HasLead(e) PROVE Served(e)'
    BY <1>8 DEF Served
  <2>1. CASE e = s
    <3>1. Len(M) + 1 \in DOMAIN markers' /\ markers'[Len(M) + 1].in = e
      BY <1>11, <1>13, <1>15, <1>16, <2>1
    <3> QED BY <3>1 DEF Served, MarkersIn
  <2>2. CASE e # s
    <3>1. PICK k \in DOMAIN markers : markers[k].in = e
      BY DEF Served, MarkersIn
    <3>2. k \in DOMAIN markers' /\ markers'[k].in = e
      BY <1>11, <1>15, <1>16, <2>2, <3>1
    <3> QED BY <3>2 DEF Served, MarkersIn
  <2> QED BY <2>1, <2>2
<1>18. Grows
  BY <1>7, <1>8, <1>17 DEF Grows
<1>19. Shapes'
  BY <1>6, <1>7, <1>8, <1>9, <1>15 DEF CaptureInv, Shapes
<1>20. LeadsReal'
  BY <1>7, <1>8 DEF CaptureInv, LeadsReal
<1>21. MarkersLead'
  BY <1>4, <1>8, <1>11, <1>13, <1>15, <1>16 DEF CaptureInv, MarkersLead
<1>22. \A k \in Messages \ {m} : Relies(k)'
  BY <1>4, <1>6, <1>8, <1>9, <1>18, OthersRely
<1>23. Relies(m)'
  <2>1. PICK w, v : w = where[m] /\ v = where'[m]
    OBVIOUS
  <2>2. v \in Leads' \/ (v = w /\ Served(w))
    BY <1>4, <1>8, <1>9, <2>1
  <2>3. Served(v)'
    BY <1>17, <2>2 DEF Served, Leads
  <2>4. ReliesOn(h, v)'
    BY <1>4, <1>5, <1>8, <2>3, <1>2, <1>1, <1>3 DEF ReliesOn, HandlerRecord
  <2> QED BY <1>6, <2>1, <2>4 DEF Relies
<1> QED BY <1>19, <1>20, <1>21, <1>22, <1>23 DEF CaptureInv

LEMMA Spent ==
    ASSUME Shapes, NEW b \in {"archived", "faults"}, NEW max, Spend(b, max)
    PROVE  spent' \in [{"archived", "faults"} -> Nat]
<1>1. spent[b] \in Nat /\ spent[b] + 1 \in Nat
  BY DEF Shapes
<1> QED BY <1>1 DEF Shapes, Spend

LEMMA ArchiveStep == ASSUME CaptureInv, NEW d \in Dialogs, Archive(d) PROVE CaptureInv'
<1>1. UNCHANGED <<owner, markers, where, reply, handler, merging, crossed>>
  BY DEF Archive
<1>2. /\ lead' \in [Dialogs -> LeadRecord] /\ Leads' = Leads
      /\ \A e \in Dialogs : /\ lead'[e].phone = lead[e].phone /\ lead'[e].knew = lead[e].knew
                            /\ HasLead(e)' = HasLead(e)
  BY Archived DEF Archive
<1>3. spent' \in [{"archived", "faults"} -> Nat]
  BY Spent DEF Archive, CaptureInv
<1>4. Opened' = Opened /\ Leads \subseteq Dialogs /\ \A e : MarkersIn(e)' = MarkersIn(e)
  BY <1>1 DEF Opened, Leads, MarkersIn
<1>5. Grows
  BY <1>2, <1>4 DEF Grows, Served
<1>6. Shapes'
  BY <1>1, <1>2, <1>3 DEF CaptureInv, Shapes
<1>7. LeadsReal'
  BY <1>2, <1>4 DEF CaptureInv, LeadsReal
<1>8. MarkersLead'
  BY <1>1, <1>2 DEF CaptureInv, MarkersLead
<1>9. \A k \in Messages : Relies(k)'
  BY <1>1, <1>5, OthersRely
<1> QED BY <1>6, <1>7, <1>8, <1>9 DEF CaptureInv

\* Nothing that leads and dialogs are made of has changed.
LEMMA SameData ==
    ASSUME CaptureInv, UNCHANGED <<owner, lead, markers, where, reply, crossed>>,
           handler' \in [Messages -> HandlerRecord], merging' \subseteq Leads \X Leads,
           spent' \in [{"archived", "faults"} -> Nat],
           \A k \in Messages : \/ handler'[k] = handler[k]
                               \/ handler'[k].pc = "lost"
    PROVE  CaptureInv'
<1>1. Opened' = Opened /\ Leads' = Leads /\ \A d : HasLead(d)' = HasLead(d) /\ MarkersIn(d)' = MarkersIn(d)
  BY DEF Opened, Leads, HasLead, MarkersIn
<1>2. Grows
  BY <1>1 DEF Grows, Served
<1>3. Shapes'
  BY <1>1 DEF CaptureInv, Shapes
<1>4. LeadsReal' /\ MarkersLead'
  BY <1>1 DEF CaptureInv, LeadsReal, MarkersLead
<1>5. ASSUME NEW k \in Messages PROVE Relies(k)'
  <2>1. CASE handler'[k] = handler[k]
    BY <1>2, <2>1, OthersRely
  <2>2. CASE handler'[k].pc = "lost"
    BY <2>2 DEF Relies, ReliesOn, Busy
  <2> QED BY <2>1, <2>2
<1> QED BY <1>3, <1>4, <1>5 DEF CaptureInv

LEMMA RestartStep == ASSUME CaptureInv, Restart PROVE CaptureInv'
<1>1. handler' \in [Messages -> HandlerRecord]
  <2>1. \A k \in Messages : /\ handler[k] \in HandlerRecord
           /\ [NoHandler EXCEPT !.pc = "lost", !.content = handler[k].content] \in HandlerRecord
    BY DEF CaptureInv, Shapes, HandlerRecord, HandlerPc, NoHandler
  <2> QED BY <2>1 DEF Restart
<1>2. \A k \in Messages : handler'[k] = handler[k] \/ handler'[k].pc = "lost"
  BY DEF Restart, NoHandler
<1>3. spent' \in [{"archived", "faults"} -> Nat]
  BY Spent DEF Restart, CaptureInv
<1>4. merging' = {} /\ UNCHANGED <<owner, lead, markers, where, reply, crossed>>
  BY DEF Restart
<1> QED BY <1>1, <1>2, <1>3, <1>4, SameData

LEMMA ReadMergeStep ==
    ASSUME CaptureInv, NEW a \in Dialogs, NEW b \in Dialogs, ReadMerge(a, b) PROVE CaptureInv'
<1>1. a \in Leads /\ b \in Leads
  BY DEF ReadMerge, Live
<1>2. merging' \subseteq Leads \X Leads
  BY <1>1 DEF ReadMerge, CaptureInv, Shapes
<1>3. spent' \in [{"archived", "faults"} -> Nat]
  BY Spent DEF ReadMerge, CaptureInv
<1>4. UNCHANGED <<owner, lead, markers, where, reply, handler, crossed>>
  BY DEF ReadMerge
<1>5. handler' \in [Messages -> HandlerRecord]
  BY <1>4 DEF CaptureInv, Shapes
<1> QED BY <1>2, <1>3, <1>4, <1>5, SameData

-----------------------------------------------------------------------------

LEMMA CaptureStep == CaptureInv /\ [Next]_vars => CaptureInv'
<1> SUFFICES ASSUME CaptureInv, [Next]_vars PROVE CaptureInv'
  OBVIOUS
<1>1. ASSUME NEW m \in Messages, Handle(m) PROVE CaptureInv'
  BY <1>1, ResolveStep, StoreStep, ResolveAgainStep, FindLeadStep, FindVisitorLeadStep, GatherStep,
     FindPhoneLeadStep, CreateLeadStep, ReadTargetStep, LinkStep, AnswerStep DEF Handle
<1>2. CASE UNCHANGED vars
  <2>1. /\ handler' \in [Messages -> HandlerRecord] /\ merging' \subseteq Leads \X Leads
        /\ spent' \in [{"archived", "faults"} -> Nat]
    BY <1>2 DEF vars, CaptureInv, Shapes
  <2> QED BY <1>2, <2>1, SameData DEF vars
<1>3. ASSUME Next PROVE CaptureInv'
  BY <1>1, <1>3, SendStep, ReadMergeStep, MergeStep, ArchiveStep, RestartStep DEF Next
<1> QED BY <1>2, <1>3

LEMMA InitCapture == Init => CaptureInv
<1> SUFFICES ASSUME Init PROVE CaptureInv
  OBVIOUS
<1>1. Leads = {}
  BY DEF Init, Leads, HasLead, NoLead
<1>2. owner \in Seq(Visitors) /\ markers \in Seq(Marker) /\ Len(owner) = 0 /\ DOMAIN markers = {}
  BY EmptySeq DEF Init
<1>3. Shapes
  <2>1. NoLead \in LeadRecord /\ NoHandler \in HandlerRecord
    BY DEF LeadRecord, NoLead, HandlerRecord, HandlerPc, NoHandler
  <2>2. Len(owner) <= MaxDialogs
    BY <1>2, CaptureBounds
  <2>3. /\ lead \in [Dialogs -> LeadRecord] /\ handler \in [Messages -> HandlerRecord]
        /\ where \in [Messages -> Dialogs \cup {None}] /\ reply \in [Messages -> Dialogs \cup {None}]
    BY <2>1 DEF Init
  <2>4. merging \subseteq Leads \X Leads /\ spent \in [{"archived", "faults"} -> Nat] /\ crossed \in BOOLEAN
    BY DEF Init
  <2> QED BY <1>2, <2>2, <2>3, <2>4 DEF Shapes
<1>4. LeadsReal /\ MarkersLead
  BY <1>1, <1>2 DEF LeadsReal, MarkersLead
<1>5. \A m \in Messages : handler[m].pc = "none"
  BY DEF Init, NoHandler
<1>6. \A m \in Messages : Relies(m)
  BY <1>5 DEF Relies, ReliesOn, Busy
<1> QED BY <1>3, <1>4, <1>6 DEF CaptureInv

LEMMA CaptureSafe == Spec => []CaptureInv
BY InitCapture, CaptureStep, PTL DEF Spec

\* Type correctness: every dialog with a lead was opened, and every lead has a number.
THEOREM TypeCorrect == Spec => []TypeOK
<1>1. CaptureInv => TypeOK
  <2> SUFFICES ASSUME CaptureInv PROVE TypeOK
    OBVIOUS
  <2>1. \A d \in Dialogs : HasLead(d) => d <= Len(owner) /\ lead[d].phone # NoPhone
    BY DEF CaptureInv, LeadsReal, Leads, Opened
  <2>2. \A k \in 1..Len(markers) : markers[k].in \in Dialogs /\ markers[k].to \in Dialogs
    <3> SUFFICES ASSUME NEW k \in 1..Len(markers)
                 PROVE  markers[k].in \in Dialogs /\ markers[k].to \in Dialogs
      OBVIOUS
    <3>1. markers[k] \in Marker
      BY ElementOfSeq DEF CaptureInv, Shapes
    <3> QED BY <3>1 DEF Marker
  <2>3. merging \subseteq Dialogs \X Dialogs
    BY DEF CaptureInv, Shapes, Leads
  <2> QED BY <2>1, <2>2, <2>3 DEF CaptureInv, Shapes, TypeOK, LeadRecord, HandlerRecord
<1> QED BY <1>1, CaptureSafe, PTL

\* Once a message with a number was handled, its dialog, or the one it was
\* linked to, has a lead, whatever that lead's number.
THEOREM NumberTheorem == Spec => []NumberHasLead
<1>1. CaptureInv => NumberHasLead
  <2> SUFFICES ASSUME CaptureInv, NEW m \in Messages, At(m, "done"), handler[m].content # NoPhone
               PROVE  HasLead(Effective(where[m]))
    BY DEF NumberHasLead
  <2>1. Served(where[m])
    BY DEF CaptureInv, Relies, ReliesOn, At
  <2>2. where[m] \in Dialogs
    BY <2>1 DEF Served
  <2>3. CASE Effective(where[m]) = where[m] /\ MarkersIn(where[m]) = {}
    BY <2>1, <2>3 DEF Served
  <2>4. CASE Effective(where[m]) \in Leads
    BY <2>4 DEF Leads
  <2> QED BY <2>2, <2>3, <2>4, EffectiveServes DEF CaptureInv
<1> QED BY <1>1, CaptureSafe, PTL

\* Of two leads with one number, neither was there when the other's handler
\* looked for the number.
THEOREM RaceTheorem == Spec => []SameNumberIsRace
<1>1. CaptureInv => SameNumberIsRace
  BY DEF CaptureInv, LeadsReal, SameNumberIsRace, Live
<1> QED BY <1>1, CaptureSafe, PTL

-----------------------------------------------------------------------------
(* Links, while no two messages of a session are handled at once *)

Linking == {"visitor", "gather", "phone", "create", "linking", "link"}

\* The dialog has no lead and is not linked.
Clear(s) == s \notin Leads /\ MarkersIn(s) = {}

\* A handler that is about to link its session or to create its lead.
Bound(h) == h.pc \in Linking \/ (h.pc = "find" /\ h.dialog \notin Leads)

\* A handler that links a dialog is alone with it, and finds it clear.
Alone ==
    ~crossed =>
      /\ \A d \in Leads : MarkersIn(d) = {}
      /\ \A m, k \in Messages :
            m # k /\ handler[m].pc \in Busy /\ handler[k].pc \in Busy =>
              handler[m].session # handler[k].session
      /\ \A m \in Messages : Bound(handler[m]) => Clear(handler[m].session)

LEMMA QuietAlone ==
    ASSUME CaptureInv, Alone, crossed' = crossed, Leads' = Leads,
           ~crossed => \A d \in Dialogs : MarkersIn(d)' = MarkersIn(d),
           \A k \in Messages :
              \/ handler'[k] = handler[k]
              \/ handler'[k].pc \notin Busy
              \/ /\ handler[k].pc \in Busy /\ handler'[k].session = handler[k].session
                 /\ ~crossed /\ Bound(handler[k])' => Clear(handler[k].session)
    PROVE  Alone'
<1> SUFFICES ASSUME ~crossed' PROVE Alone'
  BY DEF Alone
<1>1. /\ ~crossed /\ \A d \in Dialogs : MarkersIn(d)' = MarkersIn(d)
      /\ \A d \in Leads : MarkersIn(d) = {}
      /\ \A m, k \in Messages :
            m # k /\ handler[m].pc \in Busy /\ handler[k].pc \in Busy =>
              handler[m].session # handler[k].session
      /\ \A m \in Messages : Bound(handler[m]) => Clear(handler[m].session)
  BY DEF Alone
<1>2. \A d \in Leads' : MarkersIn(d)' = {}
  BY <1>1 DEF Leads
<1>3. \A k \in Messages : handler'[k].pc \in Busy =>
                            handler[k].pc \in Busy /\ handler'[k].session = handler[k].session
  OBVIOUS
<1>4. \A m, k \in Messages :
          m # k /\ handler'[m].pc \in Busy /\ handler'[k].pc \in Busy =>
            handler'[m].session # handler'[k].session
  BY <1>1, <1>3
<1>5. ASSUME NEW m \in Messages, Bound(handler[m])' PROVE Clear(handler[m].session)'
  <2>1. PICK h, s : h = handler'[m] /\ s = h.session
    OBVIOUS
  <2>2. h.pc \in Busy
    BY <1>5, <2>1 DEF Bound, Linking, Busy
  <2>3. s = handler[m].session /\ handler[m].pc \in Busy
    BY <1>3, <2>1, <2>2
  <2>4. Clear(s)
    <3>1. CASE handler'[m] = handler[m]
      BY <1>1, <1>5, <2>3, <3>1 DEF Bound
    <3>2. CASE handler'[m] # handler[m]
      BY <1>1, <1>5, <2>1, <2>2, <2>3, <3>2
    <3> QED BY <3>1, <3>2
  <2>5. s \in Dialogs
    BY <2>3, OpenedDialogs DEF CaptureInv, Relies, ReliesOn
  <2>6. Clear(s)'
    BY <1>1, <2>4, <2>5 DEF Clear
  <2> QED BY <2>1, <2>6
<1> QED BY <1>2, <1>4, <1>5 DEF Alone

\* A handler's step that changes nothing but itself.
LEMMA TurnAlone ==
    ASSUME CaptureInv, Alone, NEW m \in Messages, NEW h,
           UNCHANGED <<lead, markers, crossed>>,
           handler' = [handler EXCEPT ![m] = h],
           h.pc \in Busy =>
             /\ handler[m].pc \in Busy /\ h.session = handler[m].session
             /\ ~crossed /\ Bound(h) => Clear(h.session)
    PROVE  Alone'
<1>1. /\ Leads' = Leads /\ crossed' = crossed
      /\ \A d \in Dialogs : MarkersIn(d)' = MarkersIn(d)
  BY DEF Leads, HasLead, MarkersIn
<1>2. handler'[m] = h /\ \A k \in Messages \ {m} : handler'[k] = handler[k]
  BY DEF CaptureInv, Shapes
<1>3. Bound(handler[m])' => Bound(h)
  BY <1>1, <1>2 DEF Bound
<1>4. h.pc \in Busy => /\ handler[m].pc \in Busy /\ handler'[m].session = handler[m].session
                       /\ ~crossed /\ Bound(handler[m])' => Clear(handler[m].session)
  BY <1>2, <1>3
<1> QED BY <1>1, <1>2, <1>4, QuietAlone

\* A handler that goes on from the search for a lead, to whatever end.
LEMMA OnwardAlone ==
    ASSUME CaptureInv, Alone, NEW m \in Messages, NEW h \in HandlerRecord,
           UNCHANGED <<lead, markers, crossed>>,
           handler' = [handler EXCEPT ![m] = h],
           handler[m].pc \in Linking, h.session = handler[m].session
    PROVE  Alone'
<1>1. handler[m].pc \in Busy /\ Bound(handler[m])
  BY DEF Linking, Busy, Bound
<1>2. ~crossed => Clear(h.session)
  BY <1>1 DEF Alone
<1> QED BY <1>1, <1>2, TurnAlone

LEMMA BeforeAlone ==
    ASSUME CaptureInv, Alone, NEW m \in Messages,
           Resolve(m) \/ Store(m) \/ ResolveAgain(m) \/ FindLead(m)
    PROVE  Alone'
<1> DEFINE g == handler[m]
<1>1. g \in HandlerRecord /\ ReliesOn(g, where[m])
  BY DEF CaptureInv, Shapes, Relies
<1>2. CASE Resolve(m) \/ Store(m)
  <2>1. PICK h : /\ h = [g EXCEPT !.pc = "resolved", !.active = Effective(g.session)]
                    \/ h = [g EXCEPT !.pc = "stored"]
                 /\ handler' = [handler EXCEPT ![m] = h]
    BY <1>2 DEF Resolve, Store, Goto
  <2>2. h.pc \in {"resolved", "stored"} /\ h.session = g.session
    BY <1>1, <2>1 DEF HandlerRecord
  <2>3. g.pc \in Busy /\ UNCHANGED <<lead, markers, crossed>>
    BY <1>2 DEF Resolve, Store, At, Busy
  <2>4. ~Bound(h)
    BY <2>2 DEF Bound, Linking
  <2> QED BY <2>1, <2>2, <2>3, <2>4, TurnAlone
<1>3. CASE ResolveAgain(m)
  <2>1. PICK h : /\ h = [g EXCEPT !.pc = "find", !.dialog = Effective(g.session)]
                 /\ handler' = [handler EXCEPT ![m] = h]
    BY <1>3 DEF ResolveAgain
  <2>2. h.pc = "find" /\ h.session = g.session /\ h.dialog = Effective(g.session)
    BY <1>1, <2>1 DEF HandlerRecord
  <2>3. g.pc = "stored" /\ UNCHANGED <<lead, markers, crossed>>
    BY <1>3 DEF ResolveAgain, At
  <2>4. g.session \in Dialogs /\ g.pc \in Busy
    BY <1>1, <2>3, OpenedDialogs DEF ReliesOn, Busy, CaptureInv
  <2>5. h.dialog \notin Leads => Clear(h.session)
    <3>1. (h.dialog = g.session /\ MarkersIn(g.session) = {}) \/ h.dialog \in Leads
      BY <2>2, <2>4, EffectiveServes DEF CaptureInv
    <3> QED BY <2>2, <3>1 DEF Clear
  <2>6. Bound(h) => Clear(h.session)
    BY <2>2, <2>5 DEF Bound, Linking
  <2> QED BY <2>1, <2>2, <2>3, <2>4, <2>6, TurnAlone
<1>4. CASE FindLead(m)
  <2>1. PICK h : /\ h = [g EXCEPT !.pc = IF HasLead(g.dialog) THEN "answer" ELSE "visitor"]
                 /\ handler' = [handler EXCEPT ![m] = h]
    BY <1>4 DEF FindLead, Goto
  <2>2. h.pc = (IF HasLead(g.dialog) THEN "answer" ELSE "visitor") /\ h.session = g.session
    BY <1>1, <2>1 DEF HandlerRecord
  <2>3. g.pc = "find" /\ g.pc \in Busy /\ UNCHANGED <<lead, markers, crossed>>
    BY <1>4 DEF FindLead, At, Busy
  <2>4. Bound(h) => g.dialog \notin Leads
    BY <2>2 DEF Bound, Linking, Leads
  <2>5. ~crossed /\ Bound(h) => Clear(h.session)
    BY <2>2, <2>3, <2>4 DEF Alone, Bound
  <2> QED BY <2>1, <2>2, <2>3, <2>5, TurnAlone
<1> QED BY <1>2, <1>3, <1>4

LEMMA SearchAlone ==
    ASSUME CaptureInv, Alone, NEW m \in Messages,
           FindVisitorLead(m) \/ Gather(m) \/ FindPhoneLead(m) \/ ReadTarget(m)
    PROVE  Alone'
<1> DEFINE g == handler[m]
<1>1. g \in HandlerRecord
  BY DEF CaptureInv, Shapes
<1>2. g.pc \in Linking /\ UNCHANGED <<lead, markers, crossed>>
  BY DEF FindVisitorLead, Gather, FindPhoneLead, ReadTarget, At, Linking
<1>3. Live \subseteq Dialogs /\ \A k \in Messages : handler[k].content \in Phones \cup {NoPhone}
  BY DEF Live, Leads, CaptureInv, Shapes, HandlerRecord
<1>4. ASSUME NEW pc \in HandlerPc, Goto(m, pc) PROVE Alone'
  <2>1. PICK h : h = [g EXCEPT !.pc = pc]
    OBVIOUS
  <2>2. h \in HandlerRecord /\ h.session = g.session
    BY <1>1, <2>1 DEF HandlerRecord
  <2>3. handler' = [handler EXCEPT ![m] = h]
    BY <1>4, <2>1 DEF Goto
  <2> QED BY <1>2, <2>2, <2>3, OnwardAlone
<1>5. ASSUME NEW d \in Dialogs, NEW reason \in {"visitor", "phone"}, LinkTo(m, d, reason) PROVE Alone'
  <2>1. PICK h : h = [g EXCEPT !.pc = "linking", !.target = d, !.reason = reason]
    OBVIOUS
  <2>2. h \in HandlerRecord /\ h.session = g.session
    BY <1>1, <2>1 DEF HandlerRecord, HandlerPc, Busy
  <2>3. handler' = [handler EXCEPT ![m] = h]
    BY <1>5, <2>1 DEF LinkTo
  <2> QED BY <1>2, <2>2, <2>3, OnwardAlone
<1>6. ASSUME NEW p \in Phones \cup {NoPhone},
             handler' = [handler EXCEPT ![m].pc = "phone", ![m].phone = p]
      PROVE  Alone'
  <2>1. PICK h : h = [g EXCEPT !.pc = "phone", !.phone = p]
    OBVIOUS
  <2>2. h \in HandlerRecord /\ h.session = g.session
    BY <1>1, <2>1 DEF HandlerRecord, HandlerPc, Busy
  <2>3. handler' = [handler EXCEPT ![m] = h]
    BY <1>6, <2>1
  <2> QED BY <1>2, <2>2, <2>3, OnwardAlone
<1>7. ASSUME handler' = [handler EXCEPT ![m].pc = "create", ![m].knew = Live] PROVE Alone'
  <2>1. PICK h : h = [g EXCEPT !.pc = "create", !.knew = Live]
    OBVIOUS
  <2>2. h \in HandlerRecord /\ h.session = g.session
    BY <1>1, <1>3, <2>1 DEF HandlerRecord, HandlerPc, Busy
  <2>3. handler' = [handler EXCEPT ![m] = h]
    BY <1>7, <2>1
  <2> QED BY <1>2, <2>2, <2>3, OnwardAlone
<1>8. {"gather", "answer", "failed", "link"} \subseteq HandlerPc
  BY DEF HandlerPc, Busy
<1>9. FindVisitorLead(m) => Goto(m, "gather") \/ \E d \in Live : LinkTo(m, d, "visitor")
  BY DEF FindVisitorLead
<1>10. Gather(m) => \/ Goto(m, "answer")
                    \/ \E p \in Phones \cup {NoPhone} :
                          handler' = [handler EXCEPT ![m].pc = "phone", ![m].phone = p]
  BY <1>3 DEF Gather
<1>11. FindPhoneLead(m) => \/ handler' = [handler EXCEPT ![m].pc = "create", ![m].knew = Live]
                           \/ \E d \in Live : LinkTo(m, d, "phone")
  BY DEF FindPhoneLead
<1>12. ReadTarget(m) => Goto(m, "failed") \/ Goto(m, "answer") \/ Goto(m, "link")
  BY DEF ReadTarget
<1> QED BY <1>3, <1>4, <1>5, <1>6, <1>7, <1>8, <1>9, <1>10, <1>11, <1>12

LEMMA AnswerAlone ==
    ASSUME CaptureInv, Alone, NEW m \in Messages, Answer(m) \/ AnswerFails(m) PROVE Alone'
<1>1. PICK h : h = [NoHandler EXCEPT !.pc = "done", !.content = handler[m].content]
  OBVIOUS
<1>2. h.pc \notin Busy
  BY <1>1 DEF NoHandler, Busy
<1>3. handler' = [handler EXCEPT ![m] = h] /\ UNCHANGED <<lead, markers, crossed>>
  BY <1>1 DEF Answer, AnswerFails, Done
<1> QED BY <1>2, <1>3, TurnAlone

LEMMA ElsewhereAlone ==
    ASSUME CaptureInv, Alone,
           \/ Restart \/ UNCHANGED vars
           \/ \E a, b \in Dialogs : ReadMerge(a, b) \/ Merge(a, b)
           \/ \E d \in Dialogs : Archive(d)
    PROVE  Alone'
<1>1. CASE Restart
  <2>1. \A k \in Messages : handler'[k] = handler[k] \/ handler'[k].pc \notin Busy
    BY <1>1 DEF Restart, NoHandler, Busy
  <2>2. Leads' = Leads /\ crossed' = crossed /\ \A d \in Dialogs : MarkersIn(d)' = MarkersIn(d)
    BY <1>1 DEF Restart, Leads, HasLead, MarkersIn
  <2> QED BY <2>1, <2>2, QuietAlone
<1>2. CASE UNCHANGED vars \/ \E a, b \in Dialogs : ReadMerge(a, b)
  <2>1. UNCHANGED <<lead, markers, handler, crossed>>
    BY <1>2 DEF vars, ReadMerge
  <2>2. Leads' = Leads /\ \A d \in Dialogs : MarkersIn(d)' = MarkersIn(d)
    BY <2>1 DEF Leads, HasLead, MarkersIn
  <2> QED BY <2>1, <2>2, QuietAlone
<1>3. ASSUME NEW a \in Dialogs, NEW b \in Dialogs, Merge(a, b) PROVE Alone'
  <2>1. Leads' = Leads
    BY <1>3, Archived DEF Merge
  <2>2. handler' = handler /\ crossed' = crossed
    BY <1>3 DEF Merge
  <2>3. a \in Leads
    BY <1>3 DEF Merge, CaptureInv, Shapes
  <2>4. ASSUME ~crossed, NEW d \in Dialogs PROVE MarkersIn(d)' = MarkersIn(d)
    <3>1. \A k \in DOMAIN markers : markers[k].in # a
      BY <2>3, <2>4 DEF Alone, MarkersIn
    <3>2. DOMAIN markers' = DOMAIN markers /\ \A k \in DOMAIN markers : markers'[k].in = markers[k].in
      BY <1>3, <3>1, MovedMarkers DEF Merge, CaptureInv
    <3> QED BY <3>2 DEF MarkersIn
  <2> QED BY <2>1, <2>2, <2>4, QuietAlone
<1>4. ASSUME NEW d \in Dialogs, Archive(d) PROVE Alone'
  <2>1. Leads' = Leads
    BY <1>4, Archived DEF Archive
  <2>2. handler' = handler /\ crossed' = crossed /\ \A e \in Dialogs : MarkersIn(e)' = MarkersIn(e)
    BY <1>4 DEF Archive, MarkersIn
  <2> QED BY <2>1, <2>2, QuietAlone
<1> QED BY <1>1, <1>2, <1>3, <1>4

LEMMA SendAlone ==
    ASSUME CaptureInv, Alone, NEW m \in Messages, NEW v \in Visitors, NEW d \in Dialogs,
           NEW p \in Phones \cup {NoPhone}, Send(m, v, d, p)
    PROVE  Alone'
<1> SUFFICES ASSUME ~crossed' PROVE Alone'
  BY DEF Alone
<1>1. ~crossed /\ \A k \in Messages : handler[k].pc \in Busy => handler[k].session # d
  BY DEF Send
<1>2. PICK h : h = [NoHandler EXCEPT !.pc = "sent", !.session = d, !.content = p]
  OBVIOUS
<1>3. h.pc = "sent" /\ h.session = d
  BY <1>2 DEF NoHandler
<1>4. handler'[m] = h /\ \A k \in Messages \ {m} : handler'[k] = handler[k]
  BY <1>2 DEF Send, CaptureInv, Shapes
<1>5. Leads' = Leads /\ \A e : MarkersIn(e)' = MarkersIn(e)
  BY DEF Send, Leads, HasLead, MarkersIn
<1>6. \A k \in Messages \ {m} : Bound(handler[k])' => Clear(handler[k].session)'
  <2> SUFFICES ASSUME NEW k \in Messages \ {m}, Bound(handler[k])' PROVE Clear(handler[k].session)'
    OBVIOUS
  <2>1. PICK s : s = handler[k].session /\ s = handler'[k].session
    BY <1>4
  <2>2. Clear(s)
    BY <1>1, <1>4, <1>5, <2>1 DEF Alone, Bound
  <2>3. Clear(s)'
    BY <1>5, <2>2 DEF Clear
  <2> QED BY <2>1, <2>3
<1>7. ~Bound(handler[m])'
  BY <1>3, <1>4 DEF Bound, Linking
<1>8. \A k, j \in Messages :
          k # j /\ handler'[k].pc \in Busy /\ handler'[j].pc \in Busy =>
            handler'[k].session # handler'[j].session
  BY <1>1, <1>3, <1>4 DEF Alone
<1>9. \A e \in Leads' : MarkersIn(e)' = {}
  BY <1>1, <1>5 DEF Alone
<1> QED BY <1>6, <1>7, <1>8, <1>9 DEF Alone

\* The two steps that end a search: the session gets a lead, or a marker.
LEMMA EndAlone ==
    ASSUME CaptureInv, Alone, ~crossed, NEW m \in Messages, NEW s, s = handler[m].session,
           handler[m].pc \in Linking,
           handler'[m].pc = "answer", handler'[m].session = s,
           \A k \in Messages \ {m} : handler'[k] = handler[k],
           \A d \in Dialogs \ {s} : /\ d \in Leads' <=> d \in Leads
                                    /\ MarkersIn(d)' = MarkersIn(d),
           s \in Leads' => MarkersIn(s)' = {}
    PROVE  Alone'
<1>1. /\ \A d \in Leads : MarkersIn(d) = {}
      /\ \A j, k \in Messages :
            j # k /\ handler[j].pc \in Busy /\ handler[k].pc \in Busy =>
              handler[j].session # handler[k].session
      /\ \A k \in Messages : Bound(handler[k]) => Clear(handler[k].session)
  BY DEF Alone
<1>2. handler[m].pc \in Busy
  BY DEF Linking, Busy
<1>3. \A d \in Leads' : MarkersIn(d)' = {}
  <2> SUFFICES ASSUME NEW d \in Leads', d # s PROVE MarkersIn(d)' = {}
    OBVIOUS
  <2>1. d \in Dialogs \ {s}
    BY DEF Leads
  <2> QED BY <1>1, <2>1
<1>4. \A j, k \in Messages :
          j # k /\ handler'[j].pc \in Busy /\ handler'[k].pc \in Busy =>
            handler'[j].session # handler'[k].session
  BY <1>1, <1>2
<1>5. ASSUME NEW k \in Messages, Bound(handler[k])' PROVE Clear(handler[k].session)'
  <2>1. k # m
    BY <1>5 DEF Bound, Linking
  <2>2. PICK h, t : h = handler[k] /\ h = handler'[k] /\ t = h.session
    BY <2>1
  <2>3. h.pc \in Busy
    BY <1>5, <2>2 DEF Bound, Linking, Busy
  <2>4. t \in Dialogs /\ t # s
    BY <1>1, <1>2, <2>1, <2>2, <2>3, OpenedDialogs DEF CaptureInv, Relies, ReliesOn
  <2>5. Bound(h)
    <3>1. CASE h.pc \in Linking
      BY <3>1 DEF Bound
    <3>2. CASE h.pc = "find" /\ h.dialog \notin Leads'
      <4>1. CASE h.dialog = s
        <5>1. s \notin Leads
          BY <1>1 DEF Bound, Clear
        <5> QED BY <3>2, <4>1, <5>1 DEF Bound
      <4>2. CASE h.dialog # s
        BY <3>2, <4>2 DEF Bound, Leads
      <4> QED BY <4>1, <4>2
    <3> QED BY <1>5, <2>2, <3>1, <3>2 DEF Bound
  <2>6. Clear(t)
    BY <1>1, <2>2, <2>5
  <2>7. Clear(t)'
    BY <2>4, <2>6 DEF Clear
  <2> QED BY <2>2, <2>7
<1> QED BY <1>3, <1>4, <1>5 DEF Alone

LEMMA CreateAlone ==
    ASSUME CaptureInv, Alone, NEW m \in Messages, CreateLead(m) PROVE Alone'
<1> SUFFICES ASSUME ~crossed' PROVE Alone'
  BY DEF Alone
<1>1. ~crossed
  BY DEF CreateLead
<1>2. PICK g, s : g = handler[m] /\ s = g.session
  OBVIOUS
<1>3. g \in HandlerRecord /\ g.pc = "create" /\ g.pc \in Linking /\ ReliesOn(g, where[m])
  BY <1>2 DEF CreateLead, At, CaptureInv, Shapes, Relies, Linking
<1>4. g.dialog = s /\ s \in Dialogs /\ Clear(s)
  BY <1>1, <1>2, <1>3, OpenedDialogs DEF ReliesOn, Busy, CaptureInv, Alone, Bound
<1>5. handler'[m] = [g EXCEPT !.pc = "answer"] /\ \A k \in Messages \ {m} : handler'[k] = handler[k]
  BY <1>2 DEF CreateLead, Goto, CaptureInv, Shapes
<1>6. handler'[m].pc = "answer" /\ handler'[m].session = s
  BY <1>2, <1>3, <1>5 DEF HandlerRecord
<1>7. \A d \in Dialogs \ {s} : lead'[d] = lead[d]
  BY <1>2, <1>4 DEF CreateLead, CaptureInv, Shapes
<1>8. \A d \in Dialogs \ {s} : d \in Leads' <=> d \in Leads
  BY <1>7 DEF Leads, HasLead
<1>9. \A d : MarkersIn(d)' = MarkersIn(d)
  BY DEF CreateLead, MarkersIn
<1>10. MarkersIn(s)' = {}
  BY <1>4, <1>9 DEF Clear
<1> QED BY <1>1, <1>2, <1>3, <1>5, <1>6, <1>8, <1>9, <1>10, EndAlone

LEMMA LinkAlone == ASSUME CaptureInv, Alone, NEW m \in Messages, Link(m) PROVE Alone'
<1> SUFFICES ASSUME ~crossed' PROVE Alone'
  BY DEF Alone
<1>1. ~crossed
  BY DEF Link
<1>2. PICK g, s, d : g = handler[m] /\ s = g.session /\ d = g.target
  OBVIOUS
<1>3. g \in HandlerRecord /\ g.pc = "link" /\ g.pc \in Linking /\ ReliesOn(g, where[m])
  BY <1>2 DEF Link, At, CaptureInv, Shapes, Relies, Linking
<1>4. s \in Dialogs /\ d \in Dialogs /\ Clear(s)
  BY <1>1, <1>2, <1>3, OpenedDialogs DEF ReliesOn, Busy, CaptureInv, Alone, Bound, Leads
<1>5. handler'[m] = [g EXCEPT !.pc = "answer"] /\ \A k \in Messages \ {m} : handler'[k] = handler[k]
  BY <1>2 DEF Link, Goto, CaptureInv, Shapes
<1>6. handler'[m].pc = "answer" /\ handler'[m].session = s
  BY <1>2, <1>3, <1>5 DEF HandlerRecord
<1>7. Leads' = Leads
  BY DEF Link, Leads, HasLead
<1>8. PICK M, r : M = MoveMarkers(s, d) /\ r = [in |-> s, to |-> d]
  OBVIOUS
<1>9. \A k \in DOMAIN markers : markers[k].in # s
  BY <1>4 DEF Clear, MarkersIn
<1>10. /\ M \in Seq(Marker) /\ Len(M) \in Nat /\ DOMAIN markers = 1..Len(M)
       /\ \A k \in DOMAIN markers : M[k].in = markers[k].in
  BY <1>4, <1>8, <1>9, MovedMarkers, LenProperties DEF CaptureInv
<1>11. r \in Marker /\ r.in = s
  BY <1>4, <1>8 DEF Marker
<1>12. markers' = Append(M, r)
  BY <1>2, <1>8 DEF Link
<1>13. /\ markers' \in Seq(Marker) /\ Len(markers') = Len(M) + 1
       /\ \A k \in 1..Len(M) : markers'[k] = M[k]
       /\ markers'[Len(M) + 1] = r
  BY <1>10, <1>11, <1>12, AppendProperties
<1>14. DOMAIN markers' = 1..(Len(M) + 1)
  BY <1>13, LenProperties
<1>15. ASSUME NEW e \in Dialogs \ {s} PROVE MarkersIn(e)' = MarkersIn(e)
  <2>1. \A k \in DOMAIN markers' : markers'[k].in = e => k \in DOMAIN markers /\ markers[k].in = e
    BY <1>10, <1>11, <1>13, <1>14
  <2>2. \A k \in DOMAIN markers : k \in DOMAIN markers' /\ markers'[k].in = markers[k].in
    BY <1>10, <1>13, <1>14
  <2> QED BY <2>1, <2>2 DEF MarkersIn
<1>16. s \notin Leads'
  BY <1>4, <1>7 DEF Clear
<1>17. \A e \in Dialogs \ {s} : (e \in Leads' <=> e \in Leads) /\ MarkersIn(e)' = MarkersIn(e)
  BY <1>7, <1>15
<1> QED BY <1>1, <1>2, <1>3, <1>5, <1>6, <1>16, <1>17, EndAlone

LEMMA AloneStep == CaptureInv /\ Alone /\ [Next]_vars => Alone'
<1> SUFFICES ASSUME CaptureInv, Alone, [Next]_vars PROVE Alone'
  OBVIOUS
<1>1. ASSUME NEW m \in Messages, Handle(m) PROVE Alone'
  BY <1>1, BeforeAlone, SearchAlone, CreateAlone, LinkAlone, AnswerAlone DEF Handle
<1> QED BY <1>1, SendAlone, ElsewhereAlone DEF Next

\* A dialog that has a lead was not linked to another, as long as no two
\* messages of one session were handled at once.
THEOREM LinkTheorem == Spec => []LinkedHasNoLead
<1>1. Init => Alone
  BY DEF Init, Alone, Leads, HasLead, NoLead, NoHandler, Busy, Bound, Linking
<1>2. Alone => LinkedHasNoLead
  BY DEF Alone, LinkedHasNoLead
<1> QED BY <1>1, <1>2, AloneStep, CaptureSafe, PTL DEF Spec
=============================================================================
