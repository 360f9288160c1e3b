------------------------- MODULE KnowledgeIndexProofs -------------------------
(***************************************************************************)
(* Proofs about KnowledgeIndex for any number of pages, files, texts,      *)
(* copies of a page, crawls, edits, parts, requests and restarts: when two *)
(* crawls may be at work together, what the chunks of a completed document *)
(* are, and who may end an exclusion.                                      *)
(***************************************************************************)
EXTENDS KnowledgeIndex, TLAPS

Slots    == Versions \X (1..Parts)
PageDocs == Pages \X (1..Copies)
NewPages == Pages \X {0}

CrawlPc == {"none", "checked", "created", "waiting", "fetch", "next", "touch", "take",
            "clear", "insert", "finish", "broken", "sweep", "erred", "ended", "done",
            "failed", "lost"}
FilePc  == {"none", "rowed", "created", "waiting", "start", "clear", "insert", "finish",
            "broken", "end", "erred", "threw", "ended", "done", "failed", "lost"}
EditPc  == {"none", "clear", "insert", "finish", "broken", "done", "lost"}

Statuses == {"none", "pending", "processing", "completed", "failed", "excluded"}
DocRow   == [status : Statuses, hash : {0} \cup Versions]
Indexer  == [pc : IndexPc, mode : {"full", "incremental"},
             found : [Pages -> {Gone} \cup Versions], todo : SUBSET Pages,
             doc : Docs \cup NewPages \cup {NoDoc}, ver : {0} \cup Versions,
             part : 1..Parts, good : BOOLEAN, orphans : SUBSET Docs,
             tries : 0..Attempts, stalls : 0..MaxStalled]

\* What an indexer works with at each of its steps.
CrawlFits(r) ==
    /\ r.pc \in CrawlPc
    /\ r.pc \in Indexing \cup {"touch"} => r.doc \in PageDocs
    /\ r.pc = "take" => r.doc \in PageDocs \cup NewPages
    /\ r.orphans # {} => r.pc = "sweep"
    /\ r.pc \in {"none", "checked", "created"} => r.stalls = 0

FileFits(f, r) ==
    /\ r.pc \in FilePc
    /\ r.pc \in Indexing => r.doc = <<f, 1>>
    /\ r.orphans = {}

EditFits(r) ==
    /\ r.pc \in EditPc
    /\ r.pc \in Indexing => r.doc \in Texts \X {1}
    /\ r.orphans = {}

Fits(i, r) ==
    /\ i \in Crawls => CrawlFits(r)
    /\ i \in Files => FileFits(i, r)
    /\ i \in Edits => EditFits(r)

IndexersFit == ix \in [Indexers -> Indexer] /\ \A i \in Indexers : Fits(i, ix[i])

Shapes ==
    /\ site \in [Pages -> {Gone} \cup Versions]
    /\ doc \in [Docs -> DocRow]
    /\ chunks \in [Docs -> [Slots -> Nat]]
    /\ row \in [Jobs -> {"none", "queued", "running", "completed", "failed"}]
    /\ IndexersFit
    /\ excluding \in Docs \cup {NoDoc}
    /\ spent \in [{"requests", "events"} -> Nat]
    /\ raced \in BOOLEAN /\ overlapped \in BOOLEAN
    /\ late \in [Docs -> SUBSET Indexers]

\* A file has a document only after its upload.
NoRowYet == \A f \in Files : At(f, "none") => ~HasRow(<<f, 1>>)

\* A crawl that has passed the check: no other passes it, for the row of its
\* job is queued or running.
AtCrawl == AtWork \ {"ended"}
Live    == {"checked", "created", "waiting"} \cup AtCrawl

Stalled == \E c \in Crawls : ix[c].stalls > 0

RowOfLive ==
    \A c \in Crawls : /\ ix[c].pc \in {"created", "waiting"} => row[c] = "queued"
                      /\ ix[c].pc \in AtCrawl => row[c] = "running"

OneLive == \A b, c \in Crawls : ix[b].pc \in Live /\ ix[c].pc \in Live => b = c

CrawlsApart == raced \/ Stalled \/ (RowOfLive /\ OneLive /\ ~overlapped)

\* Whoever works with an excluded document held it when it was excluded.
LateHold == \A d \in Docs : doc[d].status = "excluded" =>
                \A i \in Indexers : Holds(i, d) => i \in late[d]

\* What the chunks of a document are while it is indexed.
Indexes(i, d) == ix[i].pc \in Indexing /\ ix[i].doc = d

Written(v, n) == [x \in Slots |-> IF x[1] = v /\ x[2] < n THEN 1 ELSE 0]

Undisturbed(d) ==
    /\ \A i, k \in Indexers : Indexes(i, d) /\ Indexes(k, d) => i = k
    /\ \A i \in Indexers : Indexes(i, d) =>
          /\ doc[d].status # "completed"
          /\ ix[i].pc = "insert" => chunks[d] = Written(ix[i].ver, ix[i].part)
          /\ ix[i].pc = "finish" => chunks[d] = ChunksOf(ix[i].ver)
    /\ doc[d].status = "completed" => chunks[d] = ChunksOf(doc[d].hash)

ContentInv == \A d \in Docs : HasRow(d) /\ d \notin disturbed => Undisturbed(d)

\* A page has one document, while crawls do not overlap.
OneAtWork == \A b, c \in Crawls : ix[b].pc \in AtCrawl /\ ix[c].pc \in AtCrawl => b = c

OneRow == \A d, e \in Docs : Item(d) = Item(e) /\ HasRow(d) /\ HasRow(e) => d = e

NewIsNew ==
    \A c \in Crawls : \A p \in Pages :
        At(c, "take") /\ ix[c].doc = <<p, 0>> => CopiesOf(p) = {}

OneRowInv == overlapped \/ (OneAtWork /\ OneRow /\ NewIsNew)

-----------------------------------------------------------------------------
(* The types *)

LEMMA NewIndexerType == NewIndexer \in Indexer
<1>1. 1 \in Versions /\ 1 \in 1..Parts
  BY IndexBounds DEF Versions
<1>2. NewIndexer.found \in [Pages -> {Gone} \cup Versions]
  BY DEF NewIndexer
<1>3. 0 \in 0..Attempts /\ 0 \in 0..MaxStalled /\ "none" \in IndexPc
  BY IndexBounds DEF MaxStalled, IndexPc
<1> QED BY <1>1, <1>2, <1>3 DEF NewIndexer, Indexer

LEMMA DocKinds ==
    /\ \A d \in PageDocs : d \in Docs /\ Item(d) \in Pages /\ d[2] # 0
    /\ \A d \in NewPages : d \notin Docs /\ Item(d) \in Pages /\ d[2] = 0
    /\ \A t \in Texts : <<t, 1>> \in Docs /\ <<t, 1>> \notin PageDocs
    /\ \A f \in Files : <<f, 1>> \in Docs /\ <<f, 1>> \notin PageDocs
    /\ \A d \in Docs : Item(d) \in Pages => d \in PageDocs
    /\ NoDoc \notin Docs
<1> USE IndexSets, IndexBounds DEF PageDocs, NewPages, Docs, Item, NoDoc
<1>1. \A d \in PageDocs : d \in Docs /\ Item(d) \in Pages /\ d[2] # 0
  OBVIOUS
<1>2. \A d \in NewPages : d \notin Docs /\ Item(d) \in Pages /\ d[2] = 0
  OBVIOUS
<1>3. \A t \in Texts : <<t, 1>> \in Docs /\ <<t, 1>> \notin PageDocs
  OBVIOUS
<1>4. \A f \in Files : <<f, 1>> \in Docs /\ <<f, 1>> \notin PageDocs
  OBVIOUS
<1>5. \A d \in Docs : Item(d) \in Pages => d \in PageDocs
  OBVIOUS
<1>6. NoDoc \notin Docs
  OBVIOUS
<1> QED BY <1>1, <1>2, <1>3, <1>4, <1>5, <1>6

LEMMA KindOf ==
    /\ \A i \in Crawls : i \notin Files /\ i \notin Edits
    /\ \A i \in Files : i \notin Crawls /\ i \notin Edits
    /\ \A i \in Edits : i \notin Crawls /\ i \notin Files
BY IndexSets

\* What an indexing goes on with.
LEMMA AfterIndexing ==
    ASSUME IndexersFit, NEW i \in Indexers, ix[i].pc \in Indexing \cup {"touch"}, NEW ok \in BOOLEAN
    PROVE  /\ Indexed(i, ok) \in Indexer /\ Fits(i, Indexed(i, ok))
           /\ Indexed(i, ok).pc \in IF i \in Crawls THEN {"next"} ELSE {"end", "erred", "done"}
           /\ Indexed(i, ok).orphans = {}
           /\ Indexed(i, ok).stalls = ix[i].stalls
<1> USE DEF IndexersFit, Fits
<1>0. ix[i] \in Indexer
  OBVIOUS
<1>1. CASE i \in Crawls
  <2>1. Indexed(i, ok) = [ix[i] EXCEPT !.pc = "next", !.good = @ \/ ok]
    BY <1>1, KindOf DEF Indexed
  <2> QED BY <1>0, <1>1, <2>1, KindOf DEF Indexer, IndexPc, AtWork, CrawlFits, CrawlPc, Indexing
<1>2. CASE i \in Files
  <2>1. Indexed(i, ok) = [ix[i] EXCEPT !.pc = IF ok THEN "end" ELSE "erred"]
    BY <1>2, KindOf DEF Indexed
  <2> QED BY <1>0, <1>2, <2>1, KindOf DEF Indexer, IndexPc, AtWork, FileFits, FilePc, Indexing
<1>3. CASE i \in Edits
  <2>1. Indexed(i, ok) = [ix[i] EXCEPT !.pc = "done"]
    BY <1>3, KindOf DEF Indexed
  <2> QED BY <1>0, <1>3, <2>1, KindOf DEF Indexer, IndexPc, AtWork, EditFits, EditPc, Indexing
<1> QED BY <1>1, <1>2, <1>3 DEF Indexers

\* Each step of an indexer is a step of it alone, to a state that fits it.
Moves(i) == \E r \in Indexer : /\ Fits(i, r) /\ r.stalls = ix[i].stalls /\ r.pc # "none"
                               /\ ix' = [ix EXCEPT ![i] = r]

LEMMA IndexingMoves ==
    ASSUME IndexersFit, NEW i \in Indexers,
           Clear(i) \/ Insert(i) \/ WriteFails(i) \/ FinishDocument(i) \/ FailDocument(i)
    PROVE  Moves(i)
<1> USE DEF IndexersFit
<1>0. ix[i] \in Indexer /\ Fits(i, ix[i])
  OBVIOUS
<1>1. ASSUME NEW pc \in {"insert", "finish", "broken"}, ix[i].pc \in Indexing,
             NEW n \in 1..Parts
      PROVE  /\ [ix[i] EXCEPT !.pc = pc, !.part = n] \in Indexer
             /\ Fits(i, [ix[i] EXCEPT !.pc = pc, !.part = n])
             /\ [ix[i] EXCEPT !.pc = pc, !.part = n].stalls = ix[i].stalls
             /\ [ix[i] EXCEPT !.pc = pc, !.part = n].pc # "none"
  <2>1. [ix[i] EXCEPT !.pc = pc, !.part = n] \in Indexer
    BY <1>0 DEF Indexer, IndexPc, AtWork
  <2>2. PICK r \in Indexer : r = [ix[i] EXCEPT !.pc = pc, !.part = n]
    BY <2>1
  <2>3. r.pc = pc /\ r.doc = ix[i].doc /\ r.orphans = ix[i].orphans /\ r.stalls = ix[i].stalls
    BY <1>0, <2>2 DEF Indexer
  <2>4. Fits(i, r)
    BY <1>0, <1>1, <2>3 DEF Indexing, Fits, CrawlFits, FileFits, EditFits, CrawlPc, FilePc, EditPc
  <2> QED BY <2>2, <2>3, <2>4
<1>2. CASE Clear(i)
  <2>1. ix' = [ix EXCEPT ![i] = [ix[i] EXCEPT !.pc = "insert", !.part = 1]]
    BY <1>2 DEF Clear
  <2>2. 1 \in 1..Parts /\ ix[i].pc \in Indexing
    BY <1>2, IndexBounds DEF Clear, At, Indexing
  <2> QED BY <1>1, <2>1, <2>2 DEF Moves
<1>3. CASE Insert(i)
  <2>0. ix[i].part \in 1..Parts /\ ix[i].pc = "insert"
    BY <1>0, <1>3 DEF Indexer, Insert, At
  <2>1. \/ ix' = [ix EXCEPT ![i] = [ix[i] EXCEPT !.pc = "finish", !.part = ix[i].part]]
        \/ ix' = [ix EXCEPT ![i] = [ix[i] EXCEPT !.pc = "broken", !.part = ix[i].part]]
        \/ ix[i].part # Parts /\ ix' = [ix EXCEPT ![i] = [ix[i] EXCEPT !.pc = "insert", !.part = ix[i].part + 1]]
    <3>1. \/ Goto(i, "finish") \/ Goto(i, "broken")
          \/ ix[i].part # Parts /\ ix' = [ix EXCEPT ![i].part = @ + 1]
      BY <1>3, Zenon DEF Insert
    <3> QED BY <1>0, <2>0, <3>1 DEF Goto, Indexer
  <2>2. ix[i].part # Parts => ix[i].part + 1 \in 1..Parts
    BY <2>0, IndexBounds
  <2> QED BY <1>1, <2>0, <2>1, <2>2 DEF Moves, Indexing
<1>4. CASE WriteFails(i)
  <2>1. ix' = [ix EXCEPT ![i] = [ix[i] EXCEPT !.pc = "broken", !.part = ix[i].part]]
    BY <1>0, <1>4 DEF WriteFails, Goto, Indexer
  <2> QED BY <1>0, <1>1, <1>4, <2>1 DEF Moves, WriteFails, Indexing, Indexer
<1>5. CASE FinishDocument(i)
  <2>1. \/ ix' = [ix EXCEPT ![i] = Indexed(i, TRUE)]
        \/ ix' = [ix EXCEPT ![i] = [ix[i] EXCEPT !.pc = "broken", !.part = ix[i].part]]
    <3>1. Goto(i, "broken") \/ ix' = [ix EXCEPT ![i] = Indexed(i, TRUE)]
      BY <1>5, Zenon DEF FinishDocument
    <3> QED BY <1>0, <3>1 DEF Goto, Indexer
  <2>2. ix[i].pc \in Indexing /\ ix[i].part \in 1..Parts
    BY <1>0, <1>5 DEF FinishDocument, At, Indexing, Indexer
  <2> QED BY <1>0, <1>1, <2>1, <2>2, AfterIndexing DEF Moves
<1>6. CASE FailDocument(i)
  <2>1. ix[i].pc = "broken"
    BY <1>6 DEF FailDocument, At
  <2>2. CASE ix' = [ix EXCEPT ![i] = Indexed(i, FALSE)]
    BY <2>1, <2>2, AfterIndexing DEF Moves, Indexing
  <2>3. CASE Goto(i, IF i \in Crawls THEN "erred" ELSE IF i \in Files THEN "threw" ELSE "done")
    <3>1. PICK pc : /\ ix' = [ix EXCEPT ![i] = [ix[i] EXCEPT !.pc = pc]]
                    /\ pc = IF i \in Crawls THEN "erred" ELSE IF i \in Files THEN "threw" ELSE "done"
      BY <2>3 DEF Goto
    <3>2. /\ i \in Crawls => pc = "erred"
          /\ i \in Files => pc = "threw"
          /\ i \in Edits => pc = "done"
      BY <3>1, KindOf DEF Indexers
    <3> QED BY <1>0, <2>1, <3>1, <3>2 DEF Moves, Indexers, Indexer, IndexPc, AtWork, Indexing, Fits, CrawlFits,
          FileFits, EditFits, CrawlPc, FilePc, EditPc
  <2> QED BY <1>6, <2>2, <2>3, Zenon DEF FailDocument
<1> QED BY <1>2, <1>3, <1>4, <1>5, <1>6

\* The steps only a crawl, or only an ingest job, reaches.
LEMMA StepsOfCrawls ==
    ASSUME IndexersFit, NEW i \in Indexers,
           ix[i].pc \in {"checked", "fetch", "next", "touch", "take", "sweep"}
    PROVE  i \in Crawls /\ CrawlFits(ix[i])
BY DEF IndexersFit, Fits, FileFits, EditFits, FilePc, EditPc, Indexers

LEMMA StepsOfFiles ==
    ASSUME IndexersFit, NEW i \in Indexers, ix[i].pc \in {"rowed", "start", "end", "threw"}
    PROVE  i \in Files /\ FileFits(i, ix[i])
BY DEF IndexersFit, Fits, CrawlFits, EditFits, CrawlPc, EditPc, Indexers

LEMMA FitOfKind ==
    ASSUME NEW i \in Indexers, NEW r
    PROVE  /\ i \in Crawls /\ CrawlFits(r) => Fits(i, r)
           /\ i \in Files /\ FileFits(i, r) => Fits(i, r)
           /\ i \in Edits /\ EditFits(r) => Fits(i, r)
BY KindOf DEF Fits

\* What a crawl goes on with when it has looked the next page up.
LEMMA LookUpStep ==
    ASSUME Shapes, NEW i \in Indexers, LookUp(i)
    PROVE  /\ ix[i].pc = "next"
           /\ \E r \in Indexer, p \in Pages :
                /\ CrawlFits(r) /\ r.stalls = ix[i].stalls
                /\ r.pc \in {"next", "touch", "take"}
                /\ r.pc # "next" =>
                      \/ r.pc = "take" /\ r.doc = <<p, 0>> /\ CopiesOf(p) = {}
                      \/ r.doc \in CopiesOf(p) /\ doc[r.doc].status # "excluded"
                /\ ix' = [ix EXCEPT ![i] = r]
<1>1. ix[i].pc = "next"
  BY DEF LookUp, At
<1>2. ix[i] \in Indexer /\ CrawlFits(ix[i])
  BY <1>1, StepsOfCrawls DEF Shapes, IndexersFit
<1>3. PICK p \in ix[i].todo :
        LET next == [ix[i] EXCEPT !.todo = @ \ {p}, !.ver = ix[i].found[p]] IN
        \/ CopiesOf(p) = {} /\ ix' = [ix EXCEPT ![i] = [next EXCEPT !.pc = "take", !.doc = <<p, 0>>]]
        \/ \E d \in CopiesOf(p) :
              \/ ix' = [ix EXCEPT ![i] = [next EXCEPT !.good = TRUE]]
              \/ /\ doc[d].status # "excluded"
                 /\ \/ ix' = [ix EXCEPT ![i] = [next EXCEPT !.pc = "touch", !.doc = d]]
                    \/ ix' = [ix EXCEPT ![i] = [next EXCEPT !.pc = "take", !.doc = d]]
  BY Zenon DEF LookUp
<1>4. p \in Pages /\ ix[i].found[p] \in {0} \cup Versions
  BY <1>2 DEF Indexer, Gone
<1>5. <<p, 0>> \in NewPages /\ \A d \in CopiesOf(p) : d \in PageDocs /\ d \in Docs
  BY <1>4, DocKinds DEF NewPages, CopiesOf
<1>6. PICK next \in Indexer : /\ next = [ix[i] EXCEPT !.todo = @ \ {p}, !.ver = ix[i].found[p]]
                             /\ next.pc = "next" /\ next.orphans = {}
                             /\ next.stalls = ix[i].stalls
  <2>1. ix[i].todo \ {p} \in SUBSET Pages /\ ix[i].orphans = {}
    BY <1>1, <1>2 DEF Indexer, CrawlFits
  <2>2. PICK v \in {0} \cup Versions : v = ix[i].found[p]
    BY <1>4
  <2>3. [ix[i] EXCEPT !.todo = @ \ {p}, !.ver = v] \in Indexer
    BY <1>2, <2>1 DEF Indexer
  <2>4. /\ [ix[i] EXCEPT !.todo = @ \ {p}, !.ver = v].pc = "next"
        /\ [ix[i] EXCEPT !.todo = @ \ {p}, !.ver = v].orphans = {}
        /\ [ix[i] EXCEPT !.todo = @ \ {p}, !.ver = v].stalls = ix[i].stalls
    BY <1>1, <1>2, <2>1 DEF Indexer
  <2> QED BY <2>2, <2>3, <2>4
<1>7. \/ CopiesOf(p) = {} /\ ix' = [ix EXCEPT ![i] = [next EXCEPT !.pc = "take", !.doc = <<p, 0>>]]
      \/ \E d \in CopiesOf(p) :
            \/ ix' = [ix EXCEPT ![i] = [next EXCEPT !.good = TRUE]]
            \/ /\ doc[d].status # "excluded"
               /\ \/ ix' = [ix EXCEPT ![i] = [next EXCEPT !.pc = "touch", !.doc = d]]
                  \/ ix' = [ix EXCEPT ![i] = [next EXCEPT !.pc = "take", !.doc = d]]
  BY <1>3, <1>6, Zenon
<1> DEFINE Turns(d, pc) ==
             \E r \in Indexer : /\ r = [next EXCEPT !.pc = pc, !.doc = d]
                              /\ r.pc = pc /\ r.doc = d /\ r.stalls = ix[i].stalls /\ CrawlFits(r)
<1>8. ASSUME NEW d \in PageDocs \cup NewPages, NEW pc \in {"touch", "take"}, pc = "touch" => d \in PageDocs
      PROVE  Turns(d, pc)
  <2>1. d \in Docs \cup NewPages \cup {NoDoc}
    BY DocKinds
  <2>2. [next EXCEPT !.pc = pc, !.doc = d] \in Indexer
    BY <2>1 DEF Indexer, IndexPc, AtWork
  <2>3. /\ [next EXCEPT !.pc = pc, !.doc = d].stalls = next.stalls
        /\ [next EXCEPT !.pc = pc, !.doc = d].orphans = next.orphans
        /\ [next EXCEPT !.pc = pc, !.doc = d].pc = pc
        /\ [next EXCEPT !.pc = pc, !.doc = d].doc = d
    BY DEF Indexer
  <2>4. PICK r \in Indexer : r = [next EXCEPT !.pc = pc, !.doc = d]
    BY <2>2
  <2>5. r.pc = pc /\ r.doc = d /\ r.stalls = ix[i].stalls /\ r.orphans = {}
    BY <1>6, <2>3, <2>4
  <2>6. CrawlFits(r)
    BY <1>8, <2>5 DEF CrawlFits, CrawlPc, Indexing
  <2> QED BY <2>4, <2>5, <2>6
<1> HIDE DEF Turns
<1>9. \E r \in Indexer : /\ r = [next EXCEPT !.good = TRUE]
                       /\ r.pc = "next" /\ r.stalls = ix[i].stalls /\ CrawlFits(r)
  <2>1. [next EXCEPT !.good = TRUE] \in Indexer
    BY DEF Indexer
  <2>2. /\ [next EXCEPT !.good = TRUE].stalls = next.stalls
        /\ [next EXCEPT !.good = TRUE].orphans = next.orphans
        /\ [next EXCEPT !.good = TRUE].pc = next.pc
    BY DEF Indexer
  <2>3. PICK r \in Indexer : r = [next EXCEPT !.good = TRUE]
    BY <2>1
  <2>4. r.pc = "next" /\ r.stalls = ix[i].stalls /\ r.orphans = {}
    BY <1>6, <2>2, <2>3
  <2> QED BY <2>3, <2>4 DEF CrawlFits, CrawlPc, Indexing
<1>10. CASE CopiesOf(p) = {} /\ ix' = [ix EXCEPT ![i] = [next EXCEPT !.pc = "take", !.doc = <<p, 0>>]]
  <2>1. PICK r \in Indexer : /\ r = [next EXCEPT !.pc = "take", !.doc = <<p, 0>>]
                             /\ r.pc = "take" /\ r.doc = <<p, 0>> /\ r.stalls = ix[i].stalls
                             /\ CrawlFits(r)
    <3>1. Turns(<<p, 0>>, "take")
      BY <1>5, <1>8
    <3> QED BY <3>1 DEF Turns
  <2>2. CopiesOf(p) = {} /\ ix' = [ix EXCEPT ![i] = r]
    BY <1>10, <2>1
  <2> QED BY <1>1, <1>4, <2>1, <2>2, Zenon
<1>11. ASSUME NEW d \in CopiesOf(p), doc[d].status # "excluded", NEW pc \in {"touch", "take"},
              ix' = [ix EXCEPT ![i] = [next EXCEPT !.pc = pc, !.doc = d]]
       PROVE  \E r \in Indexer :
                /\ CrawlFits(r) /\ r.stalls = ix[i].stalls
                /\ r.pc \in {"touch", "take"} /\ r.doc \in CopiesOf(p)
                /\ doc[r.doc].status # "excluded"
                /\ ix' = [ix EXCEPT ![i] = r]
  <2>1. d \in PageDocs /\ d \in PageDocs \cup NewPages
    BY <1>5
  <2>2. PICK r \in Indexer : /\ r = [next EXCEPT !.pc = pc, !.doc = d]
                             /\ r.pc = pc /\ r.doc = d /\ r.stalls = ix[i].stalls /\ CrawlFits(r)
    <3>1. Turns(d, pc)
      BY <1>8, <2>1
    <3> QED BY <3>1 DEF Turns
  <2>3. ix' = [ix EXCEPT ![i] = r]
    BY <1>11, <2>2
  <2> QED BY <1>11, <2>2, <2>3
<1>12. CASE ix' = [ix EXCEPT ![i] = [next EXCEPT !.good = TRUE]]
  <2>1. PICK r \in Indexer : /\ r = [next EXCEPT !.good = TRUE]
                             /\ r.pc = "next" /\ r.stalls = ix[i].stalls /\ CrawlFits(r)
    BY <1>9
  <2>2. ix' = [ix EXCEPT ![i] = r]
    BY <1>12, <2>1
  <2> QED BY <1>1, <1>4, <2>1, <2>2
<1>13. ASSUME NEW d \in CopiesOf(p), doc[d].status # "excluded", NEW pc \in {"touch", "take"},
              ix' = [ix EXCEPT ![i] = [next EXCEPT !.pc = pc, !.doc = d]]
       PROVE  \E r \in Indexer, q \in Pages :
                /\ CrawlFits(r) /\ r.stalls = ix[i].stalls
                /\ r.pc \in {"next", "touch", "take"}
                /\ r.pc # "next" =>
                      \/ r.pc = "take" /\ r.doc = <<q, 0>> /\ CopiesOf(q) = {}
                      \/ r.doc \in CopiesOf(q) /\ doc[r.doc].status # "excluded"
                /\ ix' = [ix EXCEPT ![i] = r]
  BY <1>4, <1>11, <1>13, Zenon
<1> QED BY <1>1, <1>7, <1>10, <1>12, <1>13, Zenon

LEMMA CrawlMoves ==
    ASSUME Shapes, NEW i \in Indexers,
           \/ CreateJob(i) \/ BeginCrawl(i) \/ Fetch(i) \/ LookUp(i) \/ TouchPage(i)
           \/ TakePage(i) \/ FindOrphans(i) \/ DeleteOrphan(i) \/ CrawlTimesOut(i)
    PROVE  Moves(i)
<1> USE DEF IndexersFit, Shapes
<1>0. ix[i] \in Indexer /\ i \in Crawls /\ CrawlFits(ix[i])
  <2>1. i \in Crawls
    BY StepsOfCrawls, Zenon DEF CreateJob, BeginCrawl, Fetch, LookUp, TouchPage, TakePage, FindOrphans,
       DeleteOrphan, CrawlTimesOut, CrawlEnds, At
  <2> QED BY <2>1 DEF Fits
<1>1. \A r \in Indexer : CrawlFits(r) /\ r.stalls = ix[i].stalls /\ r.pc # "none"
       /\ ix' = [ix EXCEPT ![i] = r] => Moves(i)
  BY <1>0, FitOfKind DEF Moves
<1>2. CASE CreateJob(i)
  <2>1. ix' = [ix EXCEPT ![i] = [ix[i] EXCEPT !.pc = "created"]] /\ ix[i].pc = "checked"
    BY <1>2 DEF CreateJob, Goto, At
  <2> QED BY <1>0, <1>1, <2>1 DEF Indexer, IndexPc, AtWork, CrawlFits, CrawlPc, Indexing
<1>3. CASE BeginCrawl(i)
  <2>1. ix' = [ix EXCEPT ![i] = [ix[i] EXCEPT !.pc = "fetch", !.good = FALSE]] /\ ix[i].pc = "waiting"
    BY <1>3 DEF BeginCrawl, At
  <2> QED BY <1>0, <1>1, <2>1 DEF Indexer, IndexPc, AtWork, CrawlFits, CrawlPc, Indexing
<1>4. CASE Fetch(i)
  <2>1. PICK reached \in SUBSET {p \in Pages : site[p] # Gone}, pc \in {"erred", "next"} :
          ix' = [ix EXCEPT ![i] =
                   [ix[i] EXCEPT !.pc = pc, !.todo = reached,
                      !.found = [p \in Pages |-> IF p \in reached THEN site[p] ELSE Gone]]]
    <3>1. PICK reached \in SUBSET {p \in Pages : site[p] # Gone} :
            ix' = [ix EXCEPT ![i].pc = IF reached = {} THEN "erred" ELSE "next",
                     ![i].todo = reached,
                     ![i].found = [p \in Pages |-> IF p \in reached THEN site[p] ELSE Gone]]
      BY <1>4, Zenon DEF Fetch
    <3>2. PICK pc \in {"erred", "next"} : pc = IF reached = {} THEN "erred" ELSE "next"
      OBVIOUS
    <3> QED BY <3>1, <3>2, Zenon
  <2>2. [p \in Pages |-> IF p \in reached THEN site[p] ELSE Gone] \in [Pages -> {Gone} \cup Versions]
    OBVIOUS
  <2>3. ix[i].pc = "fetch" /\ reached \subseteq Pages
    BY <1>4 DEF Fetch, At
  <2> QED BY <1>0, <1>1, <2>1, <2>2, <2>3 DEF Indexer, IndexPc, AtWork, CrawlFits, CrawlPc, Indexing
<1>5. CASE LookUp(i)
  BY <1>1, <1>5, LookUpStep
<1>6. CASE TouchPage(i)
  <2>1. ix[i].pc = "touch"
    BY <1>6 DEF TouchPage, At
  <2>2. CASE ix' = [ix EXCEPT ![i] = Indexed(i, TRUE)]
    BY <2>1, <2>2, AfterIndexing DEF Moves
  <2>3. CASE Goto(i, "erred")
    <3>1. ix' = [ix EXCEPT ![i] = [ix[i] EXCEPT !.pc = "erred"]]
      BY <2>3 DEF Goto
    <3> QED BY <1>0, <1>1, <2>1, <3>1 DEF Indexer, IndexPc, AtWork, CrawlFits, CrawlPc, Indexing
  <2> QED BY <1>6, <2>2, <2>3, Zenon DEF TouchPage
<1>7. CASE TakePage(i)
  <2>1. ix[i].pc = "take" /\ ix[i].doc \in PageDocs \cup NewPages
    BY <1>0, <1>7 DEF TakePage, At, CrawlFits
  <2>2. \/ ix[i].doc[2] # 0 /\ Goto(i, "clear")
        \/ Goto(i, "erred")
        \/ \E new \in FreeCopies(Item(ix[i].doc)) :
              ix' = [ix EXCEPT ![i].pc = "clear", ![i].doc = new]
    BY <1>7, Zenon DEF TakePage
  <2>3. \E d \in PageDocs \cup NewPages, pc \in {"clear", "erred"} :
           /\ pc = "clear" => d \in PageDocs
           /\ ix' = [ix EXCEPT ![i] = [ix[i] EXCEPT !.pc = pc, !.doc = d]]
    <3>1. CASE ix[i].doc[2] # 0 /\ Goto(i, "clear")
      <4>1. ix[i].doc \in PageDocs
        BY <2>1, <3>1, DocKinds
      <4>2. ix' = [ix EXCEPT ![i] = [ix[i] EXCEPT !.pc = "clear", !.doc = ix[i].doc]]
        BY <1>0, <3>1 DEF Goto, Indexer
      <4> QED BY <4>1, <4>2
    <3>2. CASE Goto(i, "erred")
      <4>2. ix' = [ix EXCEPT ![i] = [ix[i] EXCEPT !.pc = "erred", !.doc = ix[i].doc]]
        BY <1>0, <3>2 DEF Goto, Indexer
      <4> QED BY <2>1, <4>2
    <3>3. ASSUME NEW new \in FreeCopies(Item(ix[i].doc)),
                 ix' = [ix EXCEPT ![i].pc = "clear", ![i].doc = new]
          PROVE  \E d \in PageDocs \cup NewPages, pc \in {"clear", "erred"} :
                    /\ pc = "clear" => d \in PageDocs
                    /\ ix' = [ix EXCEPT ![i] = [ix[i] EXCEPT !.pc = pc, !.doc = d]]
      <4>1. new \in PageDocs
        BY <2>1, <3>3, DocKinds DEF FreeCopies
      <4> QED BY <3>3, <4>1
    <3> QED BY <2>2, <3>1, <3>2, <3>3
  <2>4. PICK d \in PageDocs \cup NewPages, pc \in {"clear", "erred"} :
           /\ pc = "clear" => d \in PageDocs
           /\ ix' = [ix EXCEPT ![i] = [ix[i] EXCEPT !.pc = pc, !.doc = d]]
    BY <2>3
  <2>5. d \in Docs \cup NewPages \cup {NoDoc}
    BY DocKinds
  <2>6. /\ [ix[i] EXCEPT !.pc = pc, !.doc = d] \in Indexer
        /\ [ix[i] EXCEPT !.pc = pc, !.doc = d].stalls = ix[i].stalls
        /\ [ix[i] EXCEPT !.pc = pc, !.doc = d].pc # "none"
    BY <1>0, <2>5 DEF Indexer, IndexPc, AtWork
  <2>7. CrawlFits([ix[i] EXCEPT !.pc = pc, !.doc = d])
    BY <1>0, <2>1, <2>4 DEF Indexer, CrawlFits, CrawlPc, Indexing
  <2> QED BY <1>1, <2>4, <2>6, <2>7
<1>8. CASE FindOrphans(i)
  <2>1. PICK gone \in SUBSET Docs : ix' = [ix EXCEPT ![i] = [ix[i] EXCEPT !.pc = "sweep", !.orphans = gone]]
    BY <1>8 DEF FindOrphans
  <2> QED BY <1>0, <1>1, <2>1 DEF Indexer, IndexPc, AtWork, CrawlFits, CrawlPc, Indexing
<1>9. CASE DeleteOrphan(i)
  <2>1. \E gone \in SUBSET Docs : ix' = [ix EXCEPT ![i] = [ix[i] EXCEPT !.orphans = gone]]
                                \/ ix' = [ix EXCEPT ![i] = [ix[i] EXCEPT !.pc = "erred", !.orphans = {}]]
    <3>1. PICK d \in ix[i].orphans :
            \/ ix' = [ix EXCEPT ![i].orphans = @ \ {d}]
            \/ ix' = [ix EXCEPT ![i].pc = "erred", ![i].orphans = {}]
      BY <1>9, Zenon DEF DeleteOrphan
    <3>2. ix[i].orphans \ {d} \in SUBSET Docs
      BY <1>0 DEF Indexer
    <3> QED BY <3>1, <3>2
  <2>2. ix[i].pc = "sweep"
    BY <1>9 DEF DeleteOrphan, At
  <2> QED BY <1>0, <1>1, <2>1, <2>2 DEF Indexer, IndexPc, AtWork, CrawlFits, CrawlPc, Indexing
<1>10. CASE CrawlTimesOut(i)
  <2>1. ix' = [ix EXCEPT ![i] = [ix[i] EXCEPT !.pc = "erred"]] /\ ix[i].pc = "next"
    BY <1>10 DEF CrawlTimesOut, Goto, At
  <2> QED BY <1>0, <1>1, <2>1 DEF Indexer, IndexPc, AtWork, CrawlFits, CrawlPc, Indexing
<1> QED BY <1>2, <1>3, <1>4, <1>5, <1>6, <1>7, <1>8, <1>9, <1>10

LEMMA FileMoves ==
    ASSUME Shapes, NEW i \in Indexers,
           CreateDocument(i) \/ BeginIngest(i) \/ TakeFile(i) \/ Retry(i)
    PROVE  Moves(i)
<1> USE DEF IndexersFit, Shapes
<1>0. ix[i] \in Indexer /\ i \in Files /\ FileFits(i, ix[i])
  <2>1. i \in Files
    BY StepsOfFiles, Zenon DEF CreateDocument, BeginIngest, TakeFile, Retry, At
  <2> QED BY <2>1 DEF Fits
<1>1. \A r \in Indexer : FileFits(i, r) /\ r.stalls = ix[i].stalls /\ r.pc # "none"
       /\ ix' = [ix EXCEPT ![i] = r] => Moves(i)
  BY <1>0, FitOfKind DEF Moves
<1>2. ASSUME NEW pc \in FilePc, pc \notin Indexing, pc # "none",
             ix' = [ix EXCEPT ![i] = [ix[i] EXCEPT !.pc = pc]]
      PROVE  Moves(i)
  <2>1. /\ [ix[i] EXCEPT !.pc = pc] \in Indexer /\ [ix[i] EXCEPT !.pc = pc].stalls = ix[i].stalls
        /\ [ix[i] EXCEPT !.pc = pc].pc # "none"
    <3>1. pc \in IndexPc
      BY <1>2 DEF FilePc, IndexPc, AtWork
    <3>2. [ix[i] EXCEPT !.pc = pc] \in Indexer
      BY <1>0, <3>1 DEF Indexer
    <3>3. [ix[i] EXCEPT !.pc = pc].stalls = ix[i].stalls /\ [ix[i] EXCEPT !.pc = pc].pc = pc
      BY <1>0 DEF Indexer
    <3> QED BY <1>2, <3>2, <3>3
  <2>2. FileFits(i, [ix[i] EXCEPT !.pc = pc])
    BY <1>0, <1>2 DEF Indexer, FileFits
  <2> QED BY <1>1, <1>2, <2>1, <2>2
<1>3. CASE CreateDocument(i)
  BY <1>2, <1>3 DEF CreateDocument, Goto, FilePc, Indexing
<1>4. CASE BeginIngest(i)
  BY <1>2, <1>4 DEF BeginIngest, Goto, FilePc, Indexing
<1>5. CASE TakeFile(i)
  <2>1. CASE Goto(i, "threw")
    BY <1>2, <2>1 DEF Goto, FilePc, Indexing
  <2>2. CASE ix' = [ix EXCEPT ![i].pc = "clear", ![i].doc = <<i, 1>>]
    <3>1. ix' = [ix EXCEPT ![i] = [ix[i] EXCEPT !.pc = "clear", !.doc = <<i, 1>>]]
      BY <2>2
    <3>2. <<i, 1>> \in Docs
      BY <1>0, DocKinds
    <3>3. /\ [ix[i] EXCEPT !.pc = "clear", !.doc = <<i, 1>>] \in Indexer
          /\ [ix[i] EXCEPT !.pc = "clear", !.doc = <<i, 1>>].stalls = ix[i].stalls
          /\ [ix[i] EXCEPT !.pc = "clear", !.doc = <<i, 1>>].pc # "none"
      BY <1>0, <3>2 DEF Indexer, IndexPc, AtWork
    <3>4. FileFits(i, [ix[i] EXCEPT !.pc = "clear", !.doc = <<i, 1>>])
      BY <1>0 DEF Indexer, FileFits, FilePc
    <3> QED BY <1>1, <3>1, <3>3, <3>4
  <2> QED BY <1>5, <2>1, <2>2, Zenon DEF TakeFile
<1>6. CASE Retry(i)
  <2>1. CASE ix[i].tries + 1 < Attempts
    <3>1. ix' = [ix EXCEPT ![i] = [ix[i] EXCEPT !.pc = "waiting", !.tries = ix[i].tries + 1]]
      BY <1>6, <2>1 DEF Retry
    <3>2. ix[i].tries + 1 \in 0..Attempts
      BY <1>0, <2>1, IndexBounds DEF Indexer
    <3> QED BY <1>0, <1>1, <3>1, <3>2 DEF Indexer, IndexPc, AtWork, FileFits, FilePc, Indexing
  <2>2. CASE ~(ix[i].tries + 1 < Attempts)
    BY <1>2, <1>6, <2>2 DEF Retry, Goto, FilePc, Indexing
  <2> QED BY <2>1, <2>2
<1> QED BY <1>3, <1>4, <1>5, <1>6

LEMMA JobMoves ==
    ASSUME Shapes, NEW i \in Indexers,
           Enqueue(i) \/ CompleteRow(i) \/ FailRow(i) \/ FinishJob(i)
    PROVE  Moves(i)
<1> USE DEF IndexersFit, Shapes
<1>0. ix[i] \in Indexer /\ Fits(i, ix[i])
  OBVIOUS
<1>1. /\ i \in Jobs /\ ix[i].orphans = {}
      /\ \E pc \in {"waiting", "ended", "done"} \cup (IF i \in Files THEN {"threw"} ELSE {}) :
            ix' = [ix EXCEPT ![i] = [ix[i] EXCEPT !.pc = pc]]
  <2>1. CASE Enqueue(i)
    BY <1>0, <2>1 DEF Enqueue, Goto, At, Jobs, Fits, CrawlFits, FileFits
  <2>2. CASE CompleteRow(i)
    <3>1. Goto(i, "ended") /\ (ix[i].pc = "end" \/ (ix[i].pc = "sweep" /\ ix[i].orphans = {}))
      BY <2>2, Zenon DEF CompleteRow, CrawlEnds, At
    <3> QED BY <1>0, <3>1, StepsOfFiles, StepsOfCrawls DEF Goto, Jobs, FileFits
  <2>3. CASE FailRow(i)
    <3>1. /\ Goto(i, IF i \in Crawls THEN "ended" ELSE "threw")
          /\ ix[i].pc = "erred" \/ (ix[i].pc = "sweep" /\ ix[i].orphans = {})
      BY <2>3, Zenon DEF FailRow, CrawlEnds, At
    <3>2. i \in Jobs /\ ix[i].orphans = {}
      BY <1>0, <3>1 DEF Fits, CrawlFits, FileFits, EditFits, EditPc, Jobs, Indexers
    <3>3. PICK pc : pc = (IF i \in Crawls THEN "ended" ELSE "threw") /\ ix' = [ix EXCEPT ![i] = [ix[i] EXCEPT !.pc = pc]]
      BY <3>1 DEF Goto
    <3>4. pc \in {"waiting", "ended", "done"} \cup (IF i \in Files THEN {"threw"} ELSE {})
      BY <3>2, <3>3 DEF Jobs
    <3> QED BY <3>2, <3>3, <3>4
  <2>4. CASE FinishJob(i)
    BY <1>0, <2>4 DEF FinishJob, Goto, At, Jobs, Fits, CrawlFits, FileFits, EditFits, EditPc, Indexers
  <2> QED BY <2>1, <2>2, <2>3, <2>4
<1>2. PICK pc : /\ pc \in {"waiting", "ended", "done"} \cup (IF i \in Files THEN {"threw"} ELSE {})
                /\ ix' = [ix EXCEPT ![i] = [ix[i] EXCEPT !.pc = pc]]
  BY <1>1
<1>3. pc \in {"waiting", "ended", "done", "threw"} /\ (pc = "threw" => i \in Files)
  BY <1>2
<1>4. /\ [ix[i] EXCEPT !.pc = pc] \in Indexer /\ [ix[i] EXCEPT !.pc = pc].stalls = ix[i].stalls
      /\ [ix[i] EXCEPT !.pc = pc].pc # "none"
  BY <1>0, <1>3 DEF Indexer, IndexPc, AtWork
<1>5. Fits(i, [ix[i] EXCEPT !.pc = pc])
  BY <1>0, <1>1, <1>3, KindOf DEF Indexer, Jobs, Fits, CrawlFits, FileFits, CrawlPc, FilePc, Indexing
<1> QED BY <1>2, <1>4, <1>5 DEF Moves

LEMMA EachMoves ==
    ASSUME Shapes, NEW i \in Indexers, Work(i) \/ WriteFails(i) \/ CrawlTimesOut(i)
    PROVE  Moves(i)
BY IndexingMoves, CrawlMoves, FileMoves, JobMoves, Zenon DEF Work, Shapes

LEMMA RequestMoves ==
    ASSUME Shapes
    PROVE  /\ \A c \in Crawls, mode \in {"full", "incremental"} : StartCrawl(c, mode) => Moves(c)
           /\ \A f \in Files : Upload(f) => Moves(f)
           /\ \A e \in Edits, t \in Texts, v \in Versions : EditText(e, t, v) => Moves(e)
<1> USE DEF IndexersFit, Shapes, Indexers
<1>1. ASSUME NEW c \in Crawls, NEW mode \in {"full", "incremental"}, StartCrawl(c, mode) PROVE Moves(c)
  <2>1. ix' = [ix EXCEPT ![c] = [ix[c] EXCEPT !.pc = "checked", !.mode = mode]] /\ ix[c].pc = "none"
    BY <1>1 DEF StartCrawl, At
  <2>2. ix[c] \in Indexer /\ CrawlFits(ix[c])
    BY DEF Fits
  <2>3. /\ [ix[c] EXCEPT !.pc = "checked", !.mode = mode] \in Indexer
        /\ [ix[c] EXCEPT !.pc = "checked", !.mode = mode].stalls = ix[c].stalls
        /\ [ix[c] EXCEPT !.pc = "checked", !.mode = mode].pc # "none"
    BY <2>2 DEF Indexer, IndexPc
  <2>4. CrawlFits([ix[c] EXCEPT !.pc = "checked", !.mode = mode])
    BY <2>1, <2>2 DEF Indexer, CrawlFits, CrawlPc, Indexing
  <2> QED BY <2>1, <2>3, <2>4, FitOfKind DEF Moves
<1>2. ASSUME NEW f \in Files, Upload(f) PROVE Moves(f)
  <2>1. ix' = [ix EXCEPT ![f] = [ix[f] EXCEPT !.pc = "rowed"]] /\ ix[f].pc = "none"
    BY <1>2 DEF Upload, Goto, At
  <2>2. ix[f] \in Indexer /\ FileFits(f, ix[f])
    BY DEF Fits
  <2>3. /\ [ix[f] EXCEPT !.pc = "rowed"] \in Indexer
        /\ [ix[f] EXCEPT !.pc = "rowed"].stalls = ix[f].stalls
        /\ [ix[f] EXCEPT !.pc = "rowed"].pc # "none"
    BY <2>2 DEF Indexer, IndexPc
  <2>4. FileFits(f, [ix[f] EXCEPT !.pc = "rowed"])
    BY <2>1, <2>2 DEF Indexer, FileFits, FilePc, Indexing
  <2> QED BY <2>1, <2>3, <2>4, FitOfKind DEF Moves
<1>3. ASSUME NEW e \in Edits, NEW t \in Texts, NEW v \in Versions, EditText(e, t, v) PROVE Moves(e)
  <2>1. ix' = [ix EXCEPT ![e] = [ix[e] EXCEPT !.pc = "clear", !.doc = <<t, 1>>, !.ver = v]]
    BY <1>3, Zenon DEF EditText
  <2>2. ix[e] \in Indexer /\ EditFits(ix[e])
    BY DEF Fits
  <2>3. /\ [ix[e] EXCEPT !.pc = "clear", !.doc = <<t, 1>>, !.ver = v] \in Indexer
        /\ [ix[e] EXCEPT !.pc = "clear", !.doc = <<t, 1>>, !.ver = v].stalls = ix[e].stalls
        /\ [ix[e] EXCEPT !.pc = "clear", !.doc = <<t, 1>>, !.ver = v].pc # "none"
    BY <2>2, DocKinds DEF Indexer, IndexPc, AtWork
  <2>4. EditFits([ix[e] EXCEPT !.pc = "clear", !.doc = <<t, 1>>, !.ver = v])
    BY <2>2 DEF Indexer, EditFits, EditPc, Indexing
  <2> QED BY <2>1, <2>3, <2>4, FitOfKind DEF Moves
<1> QED BY <1>1, <1>2, <1>3

LEMMA RestartFits ==
    ASSUME Shapes, NEW i \in Indexers
    PROVE  /\ AfterRestart(i) \in Indexer /\ Fits(i, AfterRestart(i))
           /\ AfterRestart(i).orphans = {}
           /\ AfterRestart(i).pc \in {"none", "waiting", "done", "failed", "lost"}
<1> USE DEF IndexersFit, Shapes
<1>0. ix[i] \in Indexer /\ Fits(i, ix[i])
  OBVIOUS
<1>1. CASE ix[i].pc \in {"none", "waiting", "done", "failed", "lost"}
  <2>1. AfterRestart(i) = ix[i]
    BY <1>1 DEF AfterRestart, AtWork
  <2> QED BY <1>0, <1>1, <2>1 DEF Fits, CrawlFits, FileFits, EditFits, Indexers
<1>2. CASE ix[i].pc \notin {"none", "waiting", "done", "failed", "lost"}
  <2>0. ix[i].pc \in {"checked", "rowed", "created"} \cup AtWork
    BY <1>0, <1>2 DEF Indexer, IndexPc
  <2>1. NewIndexer \in Indexer /\ NewIndexer.orphans = {}
    BY NewIndexerType DEF NewIndexer
  <2>2. PICK new : new = NewIndexer
    OBVIOUS
  <2>3. /\ AfterRestart(i) \in Indexer /\ AfterRestart(i).orphans = {}
        /\ AfterRestart(i).pc \in IF i \in Edits THEN {"lost"} ELSE {"waiting", "failed", "lost"}
    <3>1. CASE ix[i].pc \in {"checked", "rowed", "created"} \/ i \in Edits
      <4>1. AfterRestart(i) = [new EXCEPT !.pc = "lost"]
        BY <2>0, <2>2, <3>1 DEF AfterRestart, AtWork
      <4> QED BY <2>1, <2>2, <4>1 DEF Indexer, IndexPc
    <3>2. CASE ix[i].pc \in AtWork /\ i \notin Edits /\ ix[i].stalls < MaxStalled
      <4>1. AfterRestart(i) = [new EXCEPT !.pc = "waiting", !.mode = ix[i].mode,
                                   !.tries = ix[i].tries, !.stalls = ix[i].stalls + 1]
        BY <2>2, <3>2 DEF AfterRestart, AtWork
      <4>2. /\ ix[i].stalls + 1 \in 0..MaxStalled /\ ix[i].mode \in {"full", "incremental"}
            /\ ix[i].tries \in 0..Attempts
        BY <1>0, <3>2 DEF Indexer, MaxStalled
      <4> QED BY <2>1, <2>2, <3>2, <4>1, <4>2 DEF Indexer, IndexPc
    <3>3. CASE ix[i].pc \in AtWork /\ i \notin Edits /\ ~(ix[i].stalls < MaxStalled)
      <4>1. AfterRestart(i) = [new EXCEPT !.pc = "failed", !.stalls = ix[i].stalls]
        BY <2>2, <3>3 DEF AfterRestart, AtWork
      <4>2. ix[i].stalls \in 0..MaxStalled
        BY <1>0 DEF Indexer
      <4> QED BY <2>1, <2>2, <3>3, <4>1, <4>2 DEF Indexer, IndexPc
    <3> QED BY <2>0, <3>1, <3>2, <3>3
  <2>4. Fits(i, AfterRestart(i))
    BY <2>3, KindOf DEF Fits, CrawlFits, FileFits, EditFits, CrawlPc, FilePc, EditPc, Indexing
  <2> QED BY <2>3, <2>4
<1> QED BY <1>1, <1>2

LEMMA StepIndexers == Shapes /\ [Next]_vars => IndexersFit'
<1> SUFFICES ASSUME Shapes, [Next]_vars PROVE IndexersFit'
  OBVIOUS
<1>1. ASSUME NEW i \in Indexers, Moves(i) PROVE IndexersFit'
  <2>1. PICK r \in Indexer : Fits(i, r) /\ ix' = [ix EXCEPT ![i] = r]
    BY <1>1 DEF Moves
  <2>2. ix \in [Indexers -> Indexer] /\ \A k \in Indexers : Fits(k, ix[k])
    BY DEF Shapes, IndexersFit
  <2>3. ix' \in [Indexers -> Indexer] /\ \A k \in Indexers : Fits(k, ix'[k])
    BY <2>1, <2>2
  <2> QED BY <2>3 DEF IndexersFit, Fits, CrawlFits, FileFits, EditFits
<1>2. CASE UNCHANGED ix
  BY <1>2 DEF Shapes, IndexersFit, Fits, CrawlFits, FileFits, EditFits
<1>3. CASE Restart
  <2>1. ix' = [i \in Indexers |-> AfterRestart(i)]
    BY <1>3 DEF Restart
  <2>2. \A i \in Indexers : AfterRestart(i) \in Indexer /\ Fits(i, AfterRestart(i))
    BY RestartFits
  <2>3. ix' \in [Indexers -> Indexer] /\ \A k \in Indexers : Fits(k, ix'[k])
    BY <2>1, <2>2
  <2> QED BY <2>3 DEF IndexersFit, Fits, CrawlFits, FileFits, EditFits
<1>4. CASE Ask
  <2>1. ASSUME NEW d \in Docs, DeleteDocument(d) \/ ClearExcluded(d) PROVE UNCHANGED ix
    BY <2>1 DEF DeleteDocument, ClearExcluded
  <2> QED BY <1>1, <1>2, <1>4, <2>1, RequestMoves, Zenon DEF Ask, Indexers
<1>5. CASE SetExcluded \/ (\E p \in Pages : SiteChanges(p)) \/ UNCHANGED vars
  <2>1. UNCHANGED ix
    BY <1>5, Zenon DEF SetExcluded, SiteChanges, vars
  <2> QED BY <1>2, <2>1
<1> QED BY <1>1, <1>3, <1>4, <1>5, EachMoves, Zenon DEF Next

\* What a step makes of the rows of documents and their chunks.
LEMMA DocChanges ==
    ASSUME [Next]_vars
    PROVE  \/ UNCHANGED doc
           \/ \E d : \E s \in {"pending", "processing", "failed"} : SetStatus(d, s)
           \/ \E d : Remove(d)
           \/ \E i \in Indexers : FinishDocument(i)
           \/ SetExcluded /\ SetStatus(excluding, "excluded")
<1>1. ASSUME NEW i \in Indexers, Work(i) \/ WriteFails(i) \/ CrawlTimesOut(i)
      PROVE  \/ UNCHANGED doc
             \/ \E d : \E s \in {"pending", "processing", "failed"} : SetStatus(d, s)
             \/ \E d : Remove(d)
             \/ FinishDocument(i)
  BY <1>1, Zenon DEF Work, CreateJob, Enqueue, Clear, Insert, BeginCrawl, Fetch, LookUp, TouchPage,
     FindOrphans, BeginIngest, CompleteRow, FailRow, FinishJob, Retry, WriteFails, CrawlTimesOut, tables,
     CreateDocument, FailDocument, TakePage, TakeFile, DeleteOrphan
<1>2. CASE Ask
  BY <1>2, Zenon DEF Ask, StartCrawl, Upload, DeleteDocument, ClearExcluded, EditText, tables
<1>3. CASE SetExcluded
  BY <1>3 DEF SetExcluded
<1>4. CASE Restart \/ (\E p \in Pages : SiteChanges(p)) \/ UNCHANGED vars
  BY <1>4, Zenon DEF Restart, SiteChanges, vars, tables
<1> QED BY <1>1, <1>2, <1>3, <1>4, Zenon DEF Next

LEMMA DocStep ==
    ASSUME Shapes, [Next]_vars
    PROVE  UNCHANGED doc \/ \E d \in Docs, r \in DocRow : doc' = [doc EXCEPT ![d] = r]
<1> DEFINE Goal == UNCHANGED doc \/ \E d \in Docs, r \in DocRow : doc' = [doc EXCEPT ![d] = r]
<1>0. doc \in [Docs -> DocRow] /\ NoRow \in DocRow
  BY DEF Shapes, NoRow, DocRow, Statuses
<1>1. ASSUME NEW d, NEW s \in Statuses, SetStatus(d, s) PROVE Goal
  <2>1. CASE d \in Docs
    <3>1. doc' = [doc EXCEPT ![d] = [doc[d] EXCEPT !.status = s]]
      BY <1>1 DEF SetStatus
    <3>2. [doc[d] EXCEPT !.status = s] \in DocRow
      BY <1>0, <2>1 DEF DocRow
    <3> QED BY <2>1, <3>1, <3>2
  <2>2. CASE d \notin Docs
    BY <1>0, <1>1, <2>2 DEF SetStatus
  <2> QED BY <2>1, <2>2
<1>2. ASSUME NEW d, Remove(d) PROVE Goal
  <2>1. doc' = [doc EXCEPT ![d] = NoRow]
    BY <1>2 DEF Remove
  <2> QED BY <1>0, <2>1
<1>3. ASSUME NEW i \in Indexers, FinishDocument(i) PROVE Goal
  <2>1. UNCHANGED doc \/ doc' = [doc EXCEPT ![ix[i].doc] = [status |-> "completed", hash |-> ix[i].ver]]
    BY <1>3, Zenon DEF FinishDocument
  <2>2. [status |-> "completed", hash |-> ix[i].ver] \in DocRow
    BY DEF Shapes, IndexersFit, Indexer, DocRow, Statuses
  <2> QED BY <1>0, <2>1, <2>2
<1> QED BY <1>1, <1>2, <1>3, DocChanges DEF Statuses

LEMMA ChunksStep ==
    ASSUME Shapes, [Next]_vars
    PROVE  \/ UNCHANGED chunks
           \/ \E d \in Docs : chunks' = [chunks EXCEPT ![d] = NoChunks]
           \/ \E i \in Indexers : Insert(i)
<1>0. chunks \in [Docs -> [Slots -> Nat]]
  BY DEF Shapes
<1>1. ASSUME NEW i \in Indexers, Work(i) \/ WriteFails(i) \/ CrawlTimesOut(i)
      PROVE  UNCHANGED chunks \/ (\E d : chunks' = [chunks EXCEPT ![d] = NoChunks]) \/ Insert(i)
  BY <1>1, Zenon DEF Work, CreateJob, Enqueue, Clear, BeginCrawl, Fetch, LookUp, TouchPage,
     FindOrphans, BeginIngest, CompleteRow, FailRow, FinishJob, Retry, WriteFails, CrawlTimesOut, tables,
     FinishDocument, CreateDocument, FailDocument, TakePage, TakeFile, DeleteOrphan, Remove
<1>2. CASE Ask \/ SetExcluded
  <2>1. UNCHANGED chunks \/ \E d : chunks' = [chunks EXCEPT ![d] = NoChunks]
    BY <1>2, Zenon DEF Ask, StartCrawl, Upload, DeleteDocument, ClearExcluded, EditText, SetExcluded, tables, Remove
  <2> QED BY <1>0, <2>1
<1>3. CASE Restart \/ (\E p \in Pages : SiteChanges(p)) \/ UNCHANGED vars
  BY <1>3, Zenon DEF Restart, SiteChanges, vars, tables
<1>4. (\E d : chunks' = [chunks EXCEPT ![d] = NoChunks])
        => UNCHANGED chunks \/ \E d \in Docs : chunks' = [chunks EXCEPT ![d] = NoChunks]
  BY <1>0
<1> QED BY <1>1, <1>2, <1>3, <1>4, Zenon DEF Next

LEMMA InsertStep ==
    ASSUME Shapes, NEW i \in Indexers, Insert(i)
    PROVE  /\ UNCHANGED <<doc, row, disturbed>>
           /\ \/ UNCHANGED chunks /\ Goto(i, "broken")
              \/ /\ HasRow(ix[i].doc)
                 /\ chunks' = [chunks EXCEPT ![ix[i].doc] =
                                 [chunks[ix[i].doc] EXCEPT ![<<ix[i].ver, ix[i].part>>] = @ + 1]]
                 /\ \/ ix[i].part = Parts /\ Goto(i, "finish")
                    \/ ix[i].part # Parts /\ ix' = [ix EXCEPT ![i].part = @ + 1]
BY DEF Insert, history

LEMMA OneMore ==
    ASSUME NEW f \in [Slots -> Nat], NEW x
    PROVE  /\ [f EXCEPT ![x] = @ + 1] \in [Slots -> Nat]
           /\ \A y \in Slots : [f EXCEPT ![x] = @ + 1][y] = IF y = x THEN f[y] + 1 ELSE f[y]
<1>1. ASSUME NEW y \in Slots
      PROVE  /\ [f EXCEPT ![x] = @ + 1][y] = IF y = x THEN f[y] + 1 ELSE f[y]
             /\ [f EXCEPT ![x] = @ + 1][y] \in Nat
  <2>1. f[y] \in Nat
    OBVIOUS
  <2> QED BY <2>1
<1>2. [f EXCEPT ![x] = @ + 1] = [y \in Slots |-> [f EXCEPT ![x] = @ + 1][y]]
  OBVIOUS
<1>3. [f EXCEPT ![x] = @ + 1] \in [Slots -> Nat]
  BY <1>1, <1>2
<1> QED BY <1>1, <1>3

\* Who changes what else.
LEMMA OtherChanges ==
    ASSUME [Next]_vars
    PROVE  /\ UNCHANGED row \/ \E j : \E s \in {"queued", "running", "completed", "failed"} : SetRow(j, s)
           /\ excluding' \in Docs \cup {NoDoc, excluding}
           /\ UNCHANGED spent \/ \E b, max : Spend(b, max)
           /\ UNCHANGED site \/ \E p : \E v \in {Gone} \cup Versions : site' = [site EXCEPT ![p] = v]
           /\ \/ UNCHANGED raced
              \/ \E c \in Crawls, mode \in {"full", "incremental"} : StartCrawl(c, mode)
              \/ \E f \in Files : Upload(f)
           /\ UNCHANGED overlapped \/ \E c \in Crawls : BeginCrawl(c)
           /\ UNCHANGED late \/ SetExcluded \/ Restart
<1> USE DEF Next, Ask, Work, StartCrawl, Upload, DeleteDocument, ClearExcluded, EditText,
      SetExcluded, CreateJob, CreateDocument, Enqueue, Clear, Insert, FinishDocument, FailDocument,
      BeginCrawl, Fetch, LookUp, TouchPage, TakePage, FindOrphans, DeleteOrphan, BeginIngest,
      TakeFile, CompleteRow, FailRow, FinishJob, Retry, WriteFails, CrawlTimesOut, Restart,
      SiteChanges, vars
<1>1. UNCHANGED row \/ \E j : \E s \in {"queued", "running", "completed", "failed"} : SetRow(j, s)
  BY Zenon DEF tables
<1>2. excluding' \in Docs \cup {NoDoc, excluding}
  BY Zenon
<1>3. UNCHANGED spent \/ \E b, max : Spend(b, max)
  BY Zenon DEF Request, Fault
<1>4. UNCHANGED site \/ \E p : \E v \in {Gone} \cup Versions : site' = [site EXCEPT ![p] = v]
  BY Zenon
<1>5. \/ UNCHANGED raced
      \/ \E c \in Crawls, mode \in {"full", "incremental"} : StartCrawl(c, mode)
      \/ \E f \in Files : Upload(f)
  BY Zenon DEF history
<1>6. UNCHANGED overlapped \/ \E c \in Crawls : BeginCrawl(c)
  BY Zenon DEF history
<1>7. UNCHANGED late \/ SetExcluded \/ Restart
  BY Zenon DEF history
<1> QED BY <1>1, <1>2, <1>3, <1>4, <1>5, <1>6, <1>7

LEMMA StepShapes == Shapes /\ [Next]_vars => Shapes'
<1> SUFFICES ASSUME Shapes, [Next]_vars PROVE Shapes'
  OBVIOUS
<1>1. IndexersFit'
  BY StepIndexers
<1>2. doc' \in [Docs -> DocRow]
  <2>1. doc \in [Docs -> DocRow]
    BY DEF Shapes
  <2> QED BY <2>1, DocStep
<1>3. chunks' \in [Docs -> [Slots -> Nat]]
  <2>1. chunks \in [Docs -> [Slots -> Nat]] /\ NoChunks \in [Slots -> Nat]
    BY DEF Shapes, NoChunks, Slots
  <2>2. ASSUME NEW i \in Indexers, Insert(i) PROVE chunks' \in [Docs -> [Slots -> Nat]]
    <3>1. PICK more : more = [chunks[ix[i].doc] EXCEPT ![<<ix[i].ver, ix[i].part>>] = @ + 1]
      OBVIOUS
    <3>2. UNCHANGED chunks \/ chunks' = [chunks EXCEPT ![ix[i].doc] = more]
      BY <2>2, <3>1, InsertStep
    <3>3. ix[i].doc \in Docs => more \in [Slots -> Nat]
      BY <2>1, <3>1, OneMore
    <3> QED BY <2>1, <3>2, <3>3
  <2> QED BY <2>1, <2>2, ChunksStep
<1>4. /\ row' \in [Jobs -> {"none", "queued", "running", "completed", "failed"}]
      /\ excluding' \in Docs \cup {NoDoc}
  BY OtherChanges DEF Shapes, SetRow
<1>5. spent' \in [{"requests", "events"} -> Nat]
  BY OtherChanges DEF Shapes, Spend
<1>6. site' \in [Pages -> {Gone} \cup Versions]
  BY OtherChanges DEF Shapes
<1>7. raced' \in BOOLEAN /\ overlapped' \in BOOLEAN
  BY OtherChanges DEF Shapes, StartCrawl, Upload, BeginCrawl
<1>8. late' \in [Docs -> SUBSET Indexers]
  BY OtherChanges DEF Shapes, SetExcluded, Restart
<1> QED BY <1>1, <1>2, <1>3, <1>4, <1>5, <1>6, <1>7, <1>8 DEF Shapes

LEMMA InitShapes == Init => Shapes
<1> SUFFICES ASSUME Init PROVE Shapes
  OBVIOUS
<1>1. 1 \in Versions
  BY IndexBounds DEF Versions
<1>2. ASSUME NEW i \in Indexers PROVE ix[i] \in Indexer /\ Fits(i, ix[i])
  <2>1. ix[i] = NewIndexer /\ NewIndexer \in Indexer
    BY NewIndexerType DEF Init
  <2>2. NewIndexer.pc = "none" /\ NewIndexer.orphans = {} /\ NewIndexer.stalls = 0
    BY DEF NewIndexer
  <2> QED BY <2>1, <2>2 DEF Fits, CrawlFits, FileFits, EditFits, CrawlPc, FilePc, EditPc, Indexing
<1>3. IndexersFit
  <2>1. ix = [i \in Indexers |-> NewIndexer]
    BY DEF Init
  <2> QED BY <1>2, <2>1 DEF IndexersFit
<1>4. doc \in [Docs -> DocRow]
  <2>1. /\ [status |-> "completed", hash |-> 1] \in DocRow
        /\ NoRow \in DocRow
    BY <1>1 DEF NoRow, DocRow, Statuses
  <2> QED BY <2>1 DEF Init
<1>5. chunks \in [Docs -> [Slots -> Nat]]
  <2>1. NoChunks \in [Slots -> Nat] /\ ChunksOf(1) \in [Slots -> Nat]
    BY DEF NoChunks, ChunksOf, Slots
  <2>2. chunks = [d \in Docs |-> IF HasRow(d) THEN ChunksOf(1) ELSE NoChunks]
    BY DEF Init
  <2> QED BY <2>1, <2>2
<1> QED BY <1>1, <1>3, <1>4, <1>5 DEF Init, Shapes

-----------------------------------------------------------------------------
(* When two crawls may be at work together *)

\* A crawl that has stalled stays one that has.
LEMMA StallsStay == Shapes /\ [Next]_vars => (Stalled => Stalled')
<1> SUFFICES ASSUME Shapes, [Next]_vars, NEW c \in Crawls, ix[c].stalls > 0 PROVE ix'[c].stalls > 0
  BY DEF Stalled
<1>0. ix \in [Indexers -> Indexer] /\ c \in Indexers /\ ix[c] \in Indexer /\ CrawlFits(ix[c])
  BY DEF Shapes, IndexersFit, Fits, Indexers
<1>1. ASSUME NEW i \in Indexers, Moves(i) PROVE ix'[c].stalls > 0
  BY <1>0, <1>1 DEF Moves
<1>2. CASE UNCHANGED ix
  BY <1>2
<1>3. CASE Restart
  <2>1. ix'[c] = AfterRestart(c)
    BY <1>0, <1>3 DEF Restart
  <2>2. ix[c].stalls = 1
    BY <1>0 DEF Indexer, MaxStalled
  <2>3. ix[c].pc \notin {"checked", "rowed", "created"}
    BY <1>0, <2>2 DEF CrawlFits, CrawlPc
  <2>4. CASE ix[c].pc \in {"none", "waiting", "done", "failed", "lost"}
    BY <2>1, <2>4 DEF AfterRestart, AtWork
  <2>5. CASE ix[c].pc \in AtWork
    <3>1. AfterRestart(c) = [NewIndexer EXCEPT !.pc = "failed", !.stalls = ix[c].stalls]
      BY <2>2, <2>5, KindOf DEF AfterRestart, AtWork, MaxStalled
    <3> QED BY <2>1, <2>2, <3>1 DEF NewIndexer
  <2> QED BY <1>0, <2>3, <2>4, <2>5 DEF Indexer, IndexPc
<1>4. CASE Ask
  <2>1. ASSUME NEW d \in Docs, DeleteDocument(d) \/ ClearExcluded(d) PROVE UNCHANGED ix
    BY <2>1 DEF DeleteDocument, ClearExcluded
  <2> QED BY <1>1, <1>2, <1>4, <2>1, RequestMoves, Zenon DEF Ask, Indexers
<1>5. CASE SetExcluded \/ (\E p \in Pages : SiteChanges(p)) \/ UNCHANGED vars
  <2>1. UNCHANGED ix
    BY <1>5, Zenon DEF SetExcluded, SiteChanges, vars
  <2> QED BY <1>2, <2>1
<1> QED BY <1>1, <1>3, <1>4, <1>5, EachMoves, Zenon DEF Next

\* The steps of a crawl at work leave it at work, and its row as it is.
LEMMA StaysAtWork ==
    ASSUME Shapes, NEW i \in Indexers,
           \/ Clear(i) \/ Insert(i) \/ FinishDocument(i) \/ FailDocument(i) \/ WriteFails(i)
           \/ Fetch(i) \/ LookUp(i) \/ TouchPage(i) \/ TakePage(i) \/ FindOrphans(i)
           \/ DeleteOrphan(i) \/ CrawlTimesOut(i) \/ CreateDocument(i) \/ BeginIngest(i)
           \/ TakeFile(i) \/ Retry(i) \/ FinishJob(i)
    PROVE  /\ \E r : ix' = [ix EXCEPT ![i] = r]
           /\ i \in Crawls => /\ UNCHANGED row
                             /\ \/ ix[i].pc \in AtCrawl /\ ix'[i].pc \in AtCrawl
                                \/ ix[i].pc = "ended" /\ ix'[i].pc = "done"
<1>0. ix \in [Indexers -> Indexer] /\ Fits(i, ix[i])
  BY DEF Shapes, IndexersFit
<1>1. \E r : ix' = [ix EXCEPT ![i] = r]
  <2>1. Moves(i)
    BY EachMoves, Zenon DEF Work
  <2> QED BY <2>1 DEF Moves
<1>2. SUFFICES ASSUME i \in Crawls
               PROVE  /\ UNCHANGED row
                      /\ \/ ix[i].pc \in AtCrawl /\ ix'[i].pc \in AtCrawl
                         \/ ix[i].pc = "ended" /\ ix'[i].pc = "done"
  BY <1>1
<1>3. ix[i].pc \notin {"rowed", "start", "threw"} /\ i \notin Files
  BY <1>0, <1>2, KindOf DEF Fits, CrawlFits, CrawlPc
<1>4. ~CreateDocument(i) /\ ~BeginIngest(i) /\ ~TakeFile(i) /\ ~Retry(i)
  BY <1>3 DEF CreateDocument, BeginIngest, TakeFile, Retry, At
<1>5. UNCHANGED row
  BY <1>4, Zenon DEF Clear, Insert, FinishDocument, FailDocument, WriteFails, Fetch, LookUp, TouchPage, TakePage,
     FindOrphans, DeleteOrphan, CrawlTimesOut, FinishJob, tables
<1>6. Indexed(i, TRUE).pc = "next" /\ Indexed(i, FALSE).pc = "next"
  BY <1>0, <1>2 DEF Indexed, Indexer
<1>7. \/ ix[i].pc \in AtCrawl /\ ix'[i].pc \in AtCrawl
      \/ ix[i].pc = "ended" /\ ix'[i].pc = "done"
  <2>1. CASE Clear(i) \/ WriteFails(i) \/ CrawlTimesOut(i)
    BY <1>0, <2>1 DEF Clear, WriteFails, CrawlTimesOut, Goto, At, AtCrawl, AtWork, Indexer
  <2>2. CASE Insert(i)
    <3>1. ix[i].pc = "insert"
      BY <2>2 DEF Insert, At
    <3>2. \/ Goto(i, "broken") \/ Goto(i, "finish")
          \/ ix' = [ix EXCEPT ![i].part = @ + 1]
      BY <2>2, InsertStep
    <3> QED BY <1>0, <3>1, <3>2 DEF Goto, AtCrawl, AtWork, Indexer
  <2>3. CASE FinishDocument(i) \/ FailDocument(i) \/ TouchPage(i)
    <3>1. ix[i].pc \in {"finish", "broken", "touch"}
      BY <2>3, Zenon DEF FinishDocument, FailDocument, TouchPage, At
    <3>2. \/ Goto(i, "broken") \/ Goto(i, "erred")
          \/ \E ok \in BOOLEAN : ix' = [ix EXCEPT ![i] = Indexed(i, ok)]
      <4>1. CASE FinishDocument(i)
        BY <4>1, Zenon DEF FinishDocument
      <4>2. CASE FailDocument(i)
        BY <1>2, <4>2 DEF FailDocument
      <4>3. CASE TouchPage(i)
        BY <4>3, Zenon DEF TouchPage
      <4> QED BY <2>3, <4>1, <4>2, <4>3
    <3>3. ix'[i].pc \in {"broken", "erred", "next"}
      BY <1>0, <1>6, <3>2 DEF Goto, Indexer
    <3> QED BY <3>1, <3>3 DEF AtCrawl, AtWork
  <2>4. CASE Fetch(i) \/ FindOrphans(i) \/ DeleteOrphan(i)
    <3>1. ix[i].pc \in {"fetch", "next", "sweep"}
      BY <2>4, Zenon DEF Fetch, FindOrphans, DeleteOrphan, At
    <3>2. ix'[i].pc \in {"erred", "next", "sweep"}
      <4>1. CASE Fetch(i)
        <5>1. PICK reached : ix' = [ix EXCEPT ![i].pc = IF reached = {} THEN "erred" ELSE "next",
                                              ![i].todo = reached,
                                              ![i].found = [p \in Pages |-> IF p \in reached THEN site[p] ELSE Gone]]
          BY <4>1, Zenon DEF Fetch
        <5> QED BY <1>0, <5>1 DEF Indexer
      <4>2. CASE FindOrphans(i)
        BY <1>0, <4>2 DEF FindOrphans, Indexer
      <4>3. CASE DeleteOrphan(i)
        BY <1>0, <4>3 DEF DeleteOrphan, At, Indexer
      <4> QED BY <2>4, <4>1, <4>2, <4>3
    <3> QED BY <3>1, <3>2 DEF AtCrawl, AtWork
  <2>5. CASE LookUp(i)
    BY <1>0, <2>5, LookUpStep DEF AtCrawl, AtWork
  <2>6. CASE TakePage(i)
    BY <1>0, <2>6 DEF TakePage, Goto, At, AtCrawl, AtWork, Indexer
  <2>7. CASE FinishJob(i)
    BY <1>0, <2>7 DEF FinishJob, Goto, At, Indexer
  <2> QED BY <1>4, <2>1, <2>2, <2>3, <2>4, <2>5, <2>6, <2>7
<1> QED BY <1>5, <1>7

LEMMA StepApart == Shapes /\ CrawlsApart /\ [Next]_vars => CrawlsApart'
<1> SUFFICES ASSUME Shapes, CrawlsApart, [Next]_vars, ~raced', ~Stalled'
             PROVE  (RowOfLive /\ OneLive /\ ~overlapped)'
  BY Zenon DEF CrawlsApart
<1>0. /\ RowOfLive /\ OneLive /\ ~overlapped
      /\ ix \in [Indexers -> Indexer] /\ \A c \in Crawls : c \in Indexers /\ CrawlFits(ix[c])
      /\ row \in [Jobs -> {"none", "queued", "running", "completed", "failed"}]
  <2>1. ~raced
    BY OtherChanges DEF StartCrawl, Upload
  <2> QED BY <2>1, StallsStay DEF CrawlsApart, Shapes, IndexersFit, Fits, Indexers
\* A step that leaves the rows of crawls, and moves at most one of them on.
<1>1. ASSUME UNCHANGED overlapped,
             \A c \in Crawls :
                /\ row'[c] = row[c]
                /\ \/ ix'[c].pc = ix[c].pc
                   \/ ix'[c].pc \notin Live
                   \/ ix[c].pc \in AtCrawl /\ ix'[c].pc \in AtCrawl
      PROVE  (RowOfLive /\ OneLive /\ ~overlapped)'
  BY <1>0, <1>1 DEF RowOfLive, OneLive, Live, AtCrawl, AtWork
<1>2. ASSUME NEW i \in Indexers,
             \/ Clear(i) \/ Insert(i) \/ FinishDocument(i) \/ FailDocument(i) \/ WriteFails(i)
             \/ Fetch(i) \/ LookUp(i) \/ TouchPage(i) \/ TakePage(i) \/ FindOrphans(i)
             \/ DeleteOrphan(i) \/ CrawlTimesOut(i) \/ CreateDocument(i) \/ BeginIngest(i)
             \/ TakeFile(i) \/ Retry(i) \/ FinishJob(i)
      PROVE  (RowOfLive /\ OneLive /\ ~overlapped)'
  <2>1. /\ \E r : ix' = [ix EXCEPT ![i] = r]
        /\ i \in Crawls => /\ UNCHANGED row
                          /\ \/ ix[i].pc \in AtCrawl /\ ix'[i].pc \in AtCrawl
                             \/ ix[i].pc = "ended" /\ ix'[i].pc = "done"
    BY <1>2, StaysAtWork
  <2>2. UNCHANGED row \/ \E x : SetRow(i, x)
    BY <1>2, Zenon DEF Clear, Insert, FinishDocument, FailDocument, WriteFails, Fetch, LookUp, TouchPage, TakePage,
       FindOrphans, DeleteOrphan, CrawlTimesOut, CreateDocument, BeginIngest, TakeFile, Retry, FinishJob, tables
  <2>3. UNCHANGED overlapped
    BY <1>2, Zenon DEF Clear, Insert, FinishDocument, FailDocument, WriteFails, Fetch, LookUp, TouchPage, TakePage,
       FindOrphans, DeleteOrphan, CrawlTimesOut, CreateDocument, BeginIngest, TakeFile, Retry, FinishJob, history
  <2>4. \A c \in Crawls : row'[c] = row[c]
    BY <1>0, <2>1, <2>2 DEF SetRow, Jobs
  <2>5. \A c \in Crawls : c # i => ix'[c] = ix[c]
    BY <1>0, <2>1
  <2> QED BY <1>1, <2>1, <2>3, <2>4, <2>5 DEF Live, AtCrawl, AtWork
<1>3. ASSUME NEW c \in Crawls, NEW mode, StartCrawl(c, mode)
      PROVE  (RowOfLive /\ OneLive /\ ~overlapped)'
  <2>1. /\ \A b \in Crawls : row[b] \notin {"queued", "running"} /\ ix[b].pc # "checked"
        /\ ix' = [ix EXCEPT ![c].pc = "checked", ![c].mode = mode]
        /\ UNCHANGED <<row, overlapped>>
    BY <1>3 DEF StartCrawl, NoRunningJob, At, Jobs, tables
  <2>2. \A b \in Crawls : ix[b].pc \notin Live
    BY <1>0, <2>1 DEF RowOfLive, Live
  <2>3. \A b \in Crawls : ix'[b].pc = (IF b = c THEN "checked" ELSE ix[b].pc)
    BY <1>0, <2>1 DEF Indexer
  <2> QED BY <1>0, <2>1, <2>2, <2>3 DEF RowOfLive, OneLive, Live, AtCrawl, AtWork
<1>4. ASSUME NEW f \in Files, Upload(f)
      PROVE  (RowOfLive /\ OneLive /\ ~overlapped)'
  <2>1. /\ \A c \in Crawls : ix'[c].pc = ix[c].pc /\ row'[c] = row[c]
        /\ UNCHANGED overlapped
    BY <1>0, <1>4, KindOf DEF Upload, Goto, SetRow
  <2> QED BY <1>0, <2>1 DEF RowOfLive, OneLive
<1>5. ASSUME NEW c \in Indexers, CreateJob(c) \/ Enqueue(c) \/ BeginCrawl(c)
      PROVE  (RowOfLive /\ OneLive /\ ~overlapped)'
  <2>0. c \notin Crawls => Enqueue(c)
    BY <1>5 DEF CreateJob, BeginCrawl
  <2>1. CASE c \notin Crawls
    <3>1. /\ \A b \in Crawls : ix'[b].pc = ix[b].pc
          /\ UNCHANGED <<row, overlapped>>
      BY <1>0, <2>0, <2>1 DEF Enqueue, Goto, tables, history
    <3> QED BY <1>1, <3>1
  <2>2. CASE c \in Crawls /\ CreateJob(c)
    <3>1. ix[c].pc = "checked" /\ \A b \in Crawls : ix'[b].pc = IF b = c THEN "created" ELSE ix[b].pc
      BY <1>0, <2>2 DEF CreateJob, Goto, At, Indexer
    <3>2. \A b \in Crawls : row'[b] = IF b = c THEN "queued" ELSE row[b]
      BY <1>0, <2>2 DEF CreateJob, SetRow, Jobs
    <3>3. UNCHANGED overlapped
      BY <2>2 DEF CreateJob, history
    <3> QED BY <1>0, <2>2, <3>1, <3>2, <3>3 DEF RowOfLive, OneLive, Live, AtCrawl, AtWork
  <2>3. CASE c \in Crawls /\ Enqueue(c)
    <3>1. ix[c].pc = "created" /\ \A b \in Crawls : ix'[b].pc = IF b = c THEN "waiting" ELSE ix[b].pc
      BY <1>0, <2>3 DEF Enqueue, Goto, At, Indexer
    <3>2. UNCHANGED <<row, overlapped>>
      BY <2>3 DEF Enqueue, tables, history
    <3> QED BY <1>0, <2>3, <3>1, <3>2 DEF RowOfLive, OneLive, Live, AtCrawl, AtWork
  <2>4. CASE c \in Crawls /\ BeginCrawl(c)
    <3>1. ix[c].pc = "waiting" /\ \A b \in Crawls : ix'[b].pc = IF b = c THEN "fetch" ELSE ix[b].pc
      BY <1>0, <2>4 DEF BeginCrawl, At, Indexer
    <3>2. \A b \in Crawls : row'[b] = IF b = c THEN "running" ELSE row[b]
      BY <1>0, <2>4 DEF BeginCrawl, SetRow, Jobs
    <3>3. \A b \in Crawls : b # c => ix[b].pc \notin Live
      BY <1>0, <2>4, <3>1 DEF OneLive, Live
    <3>4. overlapped' = (overlapped \/ \E b \in Crawls \ {c} : ix[b].pc \in AtCrawl)
      BY <2>4 DEF BeginCrawl, AtCrawl
    <3>5. ~overlapped'
      BY <1>0, <3>3, <3>4 DEF Live
    <3> QED BY <1>0, <2>4, <3>1, <3>2, <3>3, <3>5 DEF RowOfLive, OneLive, Live, AtCrawl, AtWork
  <2> QED BY <1>5, <2>0, <2>1, <2>2, <2>3, <2>4
<1>6. ASSUME NEW j \in Indexers, CompleteRow(j) \/ FailRow(j)
      PROVE  (RowOfLive /\ OneLive /\ ~overlapped)'
  <2>1. /\ UNCHANGED overlapped /\ \E x : SetRow(j, x)
        /\ Goto(j, "ended") \/ Goto(j, IF j \in Crawls THEN "ended" ELSE "threw")
    BY <1>6, Zenon DEF CompleteRow, FailRow, history
  <2>2. \A b \in Crawls : b # j => ix'[b] = ix[b] /\ row'[b] = row[b]
    BY <1>0, <2>1 DEF SetRow, Goto
  <2>3. j \in Crawls => ix'[j].pc = "ended"
    BY <1>0, <2>1 DEF Goto, Indexer
  <2> QED BY <1>0, <2>1, <2>2, <2>3 DEF RowOfLive, OneLive, Live, AtCrawl, AtWork
<1>7. CASE Restart
  <2>1. UNCHANGED <<row, overlapped>> /\ \A c \in Crawls : ix'[c] = AfterRestart(c)
    BY <1>0, <1>7 DEF Restart, tables
  <2>2. ASSUME NEW c \in Crawls PROVE ix'[c].pc = ix[c].pc \/ ix'[c].pc \notin Live
    <3>1. CASE ix[c].pc \in {"none", "waiting", "done", "failed", "lost"}
      BY <2>1, <3>1 DEF AfterRestart, AtWork
    <3>2. CASE ix[c].pc \in {"checked", "rowed", "created"}
      <4>1. AfterRestart(c) = [NewIndexer EXCEPT !.pc = "lost"]
        BY <3>2 DEF AfterRestart, AtWork
      <4>2. ix'[c].pc = "lost"
        BY <2>1, <4>1 DEF NewIndexer
      <4> QED BY <4>2 DEF Live, AtCrawl, AtWork
    <3>3. CASE ix[c].pc \in AtWork
      <4>1. AfterRestart(c).stalls > 0
        <5>1. ix[c].stalls \in {0, 1}
          BY <1>0 DEF Shapes, IndexersFit, Indexer, MaxStalled
        <5>2. CASE ix[c].stalls = 0
          BY <3>3, <5>2, KindOf DEF AfterRestart, AtWork, MaxStalled, NewIndexer
        <5>3. CASE ix[c].stalls = 1
          BY <3>3, <5>3, KindOf DEF AfterRestart, AtWork, MaxStalled, NewIndexer
        <5> QED BY <5>1, <5>2, <5>3
      <4> QED BY <2>1, <4>1 DEF Stalled
    <3> QED BY <1>0, <3>1, <3>2, <3>3 DEF Indexer, IndexPc
  <2> QED BY <1>1, <2>1, <2>2
<1>8. CASE Ask
  <2>1. ASSUME NEW d \in Docs, DeleteDocument(d) \/ ClearExcluded(d) PROVE UNCHANGED <<ix, row, overlapped>>
    BY <2>1 DEF DeleteDocument, ClearExcluded
  <2>2. ASSUME NEW e \in Edits, NEW t, NEW v, EditText(e, t, v)
        PROVE  UNCHANGED <<row, overlapped>> /\ \A c \in Crawls : ix'[c] = ix[c]
    BY <1>0, <2>2, KindOf DEF EditText
  <2> QED BY <1>1, <1>3, <1>4, <1>8, <2>1, <2>2 DEF Ask
<1>9. CASE SetExcluded \/ (\E p \in Pages : SiteChanges(p)) \/ UNCHANGED vars
  <2>1. UNCHANGED <<ix, row, overlapped>>
    BY <1>9, Zenon DEF SetExcluded, SiteChanges, vars, tables, history
  <2> QED BY <1>1, <2>1
<1> QED BY <1>2, <1>5, <1>6, <1>7, <1>8, <1>9, Zenon DEF Next, Work

\* Two crawls of the source are at work together only if two requests passed the
\* check of running jobs at once, or a restart has made the queue repeat a crawl.
THEOREM OneCrawlTheorem == Spec => []OneCrawlAtATime
<1>1. Init => Shapes /\ CrawlsApart
  <2>1. ASSUME Init PROVE CrawlsApart
    <3>1. ~overlapped /\ \A c \in Crawls : ix[c].pc = "none"
      BY <2>1 DEF Init, NewIndexer, Indexers
    <3> QED BY <3>1 DEF CrawlsApart, RowOfLive, OneLive, Live, AtCrawl, AtWork
  <2> QED BY <2>1, InitShapes
<1>2. Shapes /\ CrawlsApart /\ [Next]_vars => (Shapes /\ CrawlsApart)'
  BY StepShapes, StepApart
<1>3. Shapes /\ CrawlsApart => OneCrawlAtATime
  BY DEF CrawlsApart, OneCrawlAtATime, Stalled
<1> QED BY <1>1, <1>2, <1>3, PTL DEF Spec

-----------------------------------------------------------------------------
(* Who comes to a document, and when a document gets its row *)

LEMMA RowAppears ==
    ASSUME Shapes, [Next]_vars, NEW d \in Docs, ~HasRow(d), HasRow(d)'
    PROVE  \/ \E f \in Files : CreateDocument(f) /\ d = <<f, 1>>
           \/ \E e \in Edits, t \in Texts, v \in Versions :
                 EditText(e, t, v) /\ d = <<t, 1>> /\ Unused(d)
           \/ \E c \in Crawls : /\ TakePage(c) /\ ix[c].doc[2] = 0
                              /\ d \in FreeCopies(Item(ix[c].doc))
<1>0. doc \in [Docs -> DocRow] /\ doc[d].status = "none" /\ doc'[d].status # "none"
  BY DEF Shapes, HasRow
<1>1. doc'[d] # doc[d]
  BY <1>0
<1>2. ~\E k : Remove(k)
  <2>1. ASSUME NEW k, Remove(k) PROVE FALSE
    BY <1>0, <2>1 DEF Remove, NoRow
  <2> QED BY <2>1
<1>3. \A k, s : SetStatus(k, s) => k = d
  BY <1>0, <1>1 DEF SetStatus
<1>4. ASSUME NEW i \in Indexers, Work(i) \/ WriteFails(i) \/ CrawlTimesOut(i)
      PROVE  \/ i \in Files /\ CreateDocument(i) /\ d = <<i, 1>>
             \/ i \in Crawls /\ TakePage(i) /\ ix[i].doc[2] = 0 /\ d \in FreeCopies(Item(ix[i].doc))
  <2>1. CreateDocument(i) \/ FailDocument(i) \/ TakePage(i) \/ TakeFile(i) \/ FinishDocument(i)
    BY <1>1, <1>2, <1>4, Zenon DEF Work, CreateJob, Enqueue, Clear, Insert, BeginCrawl, Fetch, LookUp, TouchPage,
       FindOrphans, BeginIngest, CompleteRow, FailRow, FinishJob, Retry, WriteFails, CrawlTimesOut, tables,
       DeleteOrphan
  <2>2. CASE CreateDocument(i)
    BY <1>3, <2>2 DEF CreateDocument
  <2>3. CASE FailDocument(i)
    BY <1>0, <1>1, <1>3, <2>3 DEF FailDocument, HasRow
  <2>4. CASE TakePage(i)
    <3>1. i \in Crawls
      BY <2>4, StepsOfCrawls DEF TakePage, At, Shapes
    <3>2. \/ HasRow(ix[i].doc) /\ SetStatus(ix[i].doc, "processing")
          \/ UNCHANGED doc
          \/ /\ ix[i].doc[2] = 0
             /\ \E new \in FreeCopies(Item(ix[i].doc)) : SetStatus(new, "processing")
      BY <2>4, Zenon DEF TakePage
    <3> QED BY <1>0, <1>1, <1>3, <2>4, <3>1, <3>2 DEF HasRow
  <2>5. CASE TakeFile(i)
    BY <1>0, <1>1, <1>3, <2>5 DEF TakeFile, HasRow
  <2>6. CASE FinishDocument(i)
    <3>1. HasRow(ix[i].doc) /\ doc' = [doc EXCEPT ![ix[i].doc] = [status |-> "completed", hash |-> ix[i].ver]]
      BY <1>1, <2>6 DEF FinishDocument
    <3> QED BY <1>0, <3>1 DEF HasRow
  <2> QED BY <2>1, <2>2, <2>3, <2>4, <2>5, <2>6
<1>5. CASE Ask
  <2>1. PICK e \in Edits, t \in Texts, v \in Versions : EditText(e, t, v)
    BY <1>1, <1>2, <1>5, Zenon DEF Ask, StartCrawl, Upload, DeleteDocument, ClearExcluded, tables
  <2>2. d = <<t, 1>>
    BY <1>3, <2>1 DEF EditText
  <2>3. Unused(d)
    BY <1>0, <2>1, <2>2 DEF EditText, HasRow
  <2> QED BY <2>1, <2>2, <2>3
<1>6. CASE SetExcluded
  BY <1>0, <1>1, <1>3, <1>6 DEF SetExcluded, HasRow
<1>7. CASE Restart \/ (\E p \in Pages : SiteChanges(p)) \/ UNCHANGED vars
  BY <1>1, <1>7, Zenon DEF Restart, SiteChanges, vars, tables
<1> QED BY <1>4, <1>5, <1>6, <1>7, Zenon DEF Next

LEMMA NoneStays ==
    ASSUME Shapes, [Next]_vars, NEW i \in Indexers, ix'[i].pc = "none"
    PROVE  ix[i].pc = "none"
<1>0. ix \in [Indexers -> Indexer]
  BY DEF Shapes, IndexersFit
<1>1. ASSUME NEW k \in Indexers, Moves(k) PROVE ix[i].pc = "none"
  BY <1>0, <1>1 DEF Moves
<1>2. CASE UNCHANGED ix
  BY <1>2
<1>3. CASE Restart
  <2>1. AfterRestart(i).pc = "none"
    BY <1>3 DEF Restart
  <2>2. ix[i].pc \notin {"none", "waiting", "done", "failed", "lost"} =>
          AfterRestart(i).pc \in {"waiting", "failed", "lost"}
    BY <1>0 DEF AfterRestart, NewIndexer, Indexer, IndexPc, AtWork
  <2>3. ix[i].pc \in {"none", "waiting", "done", "failed", "lost"} => AfterRestart(i) = ix[i]
    BY DEF AfterRestart, AtWork
  <2> QED BY <2>1, <2>2, <2>3
<1>4. CASE Ask
  <2>1. ASSUME NEW d \in Docs, DeleteDocument(d) \/ ClearExcluded(d) PROVE UNCHANGED ix
    BY <2>1 DEF DeleteDocument, ClearExcluded
  <2> QED BY <1>1, <1>2, <1>4, <2>1, RequestMoves, Zenon DEF Ask, Indexers
<1>5. CASE SetExcluded \/ (\E p \in Pages : SiteChanges(p)) \/ UNCHANGED vars
  <2>1. UNCHANGED ix
    BY <1>5, Zenon DEF SetExcluded, SiteChanges, vars
  <2> QED BY <1>2, <2>1
<1> QED BY <1>1, <1>3, <1>4, <1>5, EachMoves, Zenon DEF Next

LEMMA InitNoRowYet == Init => NoRowYet
<1> SUFFICES ASSUME Init, NEW f \in Files PROVE ~HasRow(<<f, 1>>)
  BY DEF NoRowYet
<1>1. <<f, 1>> \in Docs /\ Item(<<f, 1>>) \in Files
  BY DocKinds DEF Item
<1> QED BY <1>1 DEF Init, NoRow, HasRow

LEMMA StepNoRowYet == Shapes /\ NoRowYet /\ [Next]_vars => NoRowYet'
<1> SUFFICES ASSUME Shapes, NoRowYet, [Next]_vars, NEW f \in Files, At(f, "none")', HasRow(<<f, 1>>)'
             PROVE  FALSE
  BY DEF NoRowYet
<1>1. f \in Indexers /\ <<f, 1>> \in Docs
  BY DocKinds DEF Indexers
<1>2. ~HasRow(<<f, 1>>) /\ At(f, "none")
  BY <1>1, NoneStays DEF NoRowYet, At
<1>3. \A t \in Texts : <<f, 1>> # <<t, 1>>
  BY IndexSets
<1>4. \A c \in Crawls : TakePage(c) => <<f, 1>> \notin FreeCopies(Item(ix[c].doc))
  <2>1. ASSUME NEW c \in Crawls, TakePage(c) PROVE Item(ix[c].doc) \in Pages
    BY <2>1, DocKinds DEF TakePage, At, Shapes, IndexersFit, Fits, CrawlFits, Indexers
  <2>2. Item(<<f, 1>>) \notin Pages
    BY IndexSets DEF Item
  <2> QED BY <2>1, <2>2 DEF FreeCopies
<1>5. CreateDocument(f)
  BY <1>1, <1>2, <1>3, <1>4, RowAppears
<1> QED BY <1>2, <1>5 DEF CreateDocument, At

-----------------------------------------------------------------------------
(* Who may end an exclusion *)

Idle  == {"none", "done", "failed", "lost"}
Reads == Indexing \cup {"touch", "take"}

\* A step by which an indexer comes to no document.
Keeps(i) ==
    /\ ix'[i].pc \in Reads => ix[i].pc \in Reads /\ ix'[i].doc = ix[i].doc
    /\ ix'[i].pc \in Indexing => ix[i].pc \in Indexing
    /\ ix'[i].pc # "take"
    /\ ix'[i].orphans \subseteq ix[i].orphans
    /\ i \in Files /\ ix'[i].pc \notin Idle => ix[i].pc \notin Idle

LEMMA KeepsHold ==
    ASSUME NEW i \in Indexers, Keeps(i), NEW d, Holds(i, d)'
    PROVE  Holds(i, d)
BY DEF Keeps, Holds, Reads, Idle

Keeping(i) ==
    \/ CreateJob(i) \/ CreateDocument(i) \/ Enqueue(i) \/ Clear(i) \/ Insert(i)
    \/ FinishDocument(i) \/ FailDocument(i) \/ WriteFails(i) \/ BeginCrawl(i) \/ Fetch(i)
    \/ TouchPage(i) \/ DeleteOrphan(i) \/ CrawlTimesOut(i) \/ BeginIngest(i)
    \/ CompleteRow(i) \/ FailRow(i) \/ FinishJob(i) \/ Retry(i)

LEMMA KeepingKeeps ==
    ASSUME Shapes, NEW i \in Indexers, Keeping(i)
    PROVE  Keeps(i) /\ \A k \in Indexers : k # i => ix'[k] = ix[k]
<1>0. ix \in [Indexers -> Indexer] /\ ix[i] \in Indexer /\ Fits(i, ix[i])
  BY DEF Shapes, IndexersFit
<1>1. \A k \in Indexers : k # i => ix'[k] = ix[k]
  <2>1. Moves(i)
    BY EachMoves, Zenon DEF Keeping, Work
  <2> QED BY <1>0, <2>1 DEF Moves
<1> SUFFICES Keeps(i)
  BY <1>1
\* to a step without a document
<1>2. /\ ix'[i].pc \notin Reads /\ ix'[i].orphans \subseteq ix[i].orphans
      /\ ix[i].pc \notin Idle \/ i \notin Files \/ ix'[i].pc \in Idle
      => Keeps(i)
  BY DEF Keeps, Reads
\* on with the same document
<1>3. /\ ix'[i].pc \in Indexing /\ ix[i].pc \in Indexing /\ ix'[i].doc = ix[i].doc
      /\ ix'[i].orphans = ix[i].orphans
      => Keeps(i)
  BY DEF Keeps, Reads, Indexing, Idle
<1>4. \A pc : pc \notin Reads /\ Goto(i, pc) /\ ix[i].pc \notin Idle => Keeps(i)
  <2> SUFFICES ASSUME NEW pc, pc \notin Reads, Goto(i, pc), ix[i].pc \notin Idle PROVE Keeps(i)
    OBVIOUS
  <2>1. ix'[i].pc = pc /\ ix'[i].orphans = ix[i].orphans
    BY <1>0 DEF Goto, Indexer
  <2> QED BY <1>2, <2>1
<1>5. CASE CreateJob(i) \/ CreateDocument(i) \/ Enqueue(i) \/ CrawlTimesOut(i) \/ BeginIngest(i) \/ FinishJob(i)
  <2>1. /\ ix[i].pc \in {"checked", "rowed", "created", "next", "waiting", "ended"}
        /\ \E pc \in {"created", "waiting", "erred", "start", "done"} : Goto(i, pc)
    BY <1>5, Zenon DEF CreateJob, CreateDocument, Enqueue, CrawlTimesOut, BeginIngest, FinishJob, At
  <2> QED BY <1>4, <2>1 DEF Idle, Reads, Indexing
<1>6. CASE CompleteRow(i) \/ FailRow(i)
  <2>1. /\ ix[i].pc \in {"end", "sweep", "erred"}
        /\ \E pc \in {"ended", "threw"} : Goto(i, pc)
    BY <1>6 DEF CompleteRow, FailRow, CrawlEnds, At
  <2> QED BY <1>4, <2>1 DEF Idle, Reads, Indexing
<1>7. CASE Clear(i)
  BY <1>0, <1>3, <1>7 DEF Clear, At, Indexing, Indexer
<1>8. CASE Insert(i)
  <2>1. ix[i].pc = "insert"
    BY <1>8 DEF Insert, At
  <2>2. Goto(i, "broken") \/ Goto(i, "finish") \/ ix' = [ix EXCEPT ![i].part = @ + 1]
    BY <1>8, InsertStep
  <2>3. ix'[i].pc \in {"broken", "finish", "insert"} /\ ix'[i].doc = ix[i].doc /\ ix'[i].orphans = ix[i].orphans
    BY <1>0, <2>1, <2>2 DEF Goto, Indexer
  <2> QED BY <1>3, <2>1, <2>3 DEF Indexing
<1>9. CASE WriteFails(i)
  BY <1>0, <1>3, <1>9 DEF WriteFails, Goto, Indexing, Indexer
<1>10. CASE FinishDocument(i) \/ FailDocument(i) \/ TouchPage(i)
  <2>1. ix[i].pc \in {"finish", "broken", "touch"}
    BY <1>10, Zenon DEF FinishDocument, FailDocument, TouchPage, At
  <2>2. \/ Goto(i, "broken") /\ ix[i].pc = "finish"
        \/ \E pc \in {"erred", "threw", "done"} : Goto(i, pc)
        \/ \E ok \in BOOLEAN : ix' = [ix EXCEPT ![i] = Indexed(i, ok)]
    <3>1. CASE FinishDocument(i)
      BY <3>1, Zenon DEF FinishDocument, At
    <3>2. CASE FailDocument(i)
      BY <3>2 DEF FailDocument
    <3>3. CASE TouchPage(i)
      BY <3>3, Zenon DEF TouchPage
    <3> QED BY <1>10, <3>1, <3>2, <3>3
  <2>3. CASE Goto(i, "broken") /\ ix[i].pc = "finish"
    BY <1>0, <1>3, <2>3 DEF Goto, Indexing, Indexer
  <2>4. CASE \E pc \in {"erred", "threw", "done"} : Goto(i, pc)
    BY <1>4, <2>1, <2>4 DEF Idle, Reads, Indexing
  <2>5. ASSUME NEW ok \in BOOLEAN, ix' = [ix EXCEPT ![i] = Indexed(i, ok)] PROVE Keeps(i)
    <3>1. Indexed(i, ok).pc \in {"next", "end", "erred", "done"} /\ Indexed(i, ok).orphans = {}
      BY <2>1, AfterIndexing DEF Shapes, Indexing
    <3> QED BY <1>0, <1>2, <2>1, <2>5, <3>1 DEF Idle, Reads, Indexing
  <2> QED BY <2>2, <2>3, <2>4, <2>5
<1>11. CASE BeginCrawl(i)
  BY <1>0, <1>2, <1>11, KindOf DEF BeginCrawl, At, Reads, Indexing, Indexer
<1>12. CASE Fetch(i)
  <2>1. ix[i].pc = "fetch"
    BY <1>12 DEF Fetch, At
  <2>2. PICK reached, found : ix' = [ix EXCEPT ![i].pc = IF reached = {} THEN "erred" ELSE "next",
                                               ![i].todo = reached, ![i].found = found]
    BY <1>12, Zenon DEF Fetch
  <2>3. ix'[i].pc \in {"erred", "next"} /\ ix'[i].orphans = ix[i].orphans
    BY <1>0, <2>2 DEF Indexer
  <2> QED BY <1>2, <2>1, <2>3 DEF Reads, Indexing, Idle
<1>13. CASE DeleteOrphan(i)
  <2>1. ix[i].pc = "sweep"
    BY <1>13 DEF DeleteOrphan, At
  <2>2. \/ \E d : ix' = [ix EXCEPT ![i].orphans = @ \ {d}]
        \/ ix' = [ix EXCEPT ![i].pc = "erred", ![i].orphans = {}]
    BY <1>13, Zenon DEF DeleteOrphan
  <2>3. ix'[i].pc \in {"erred", "sweep"} /\ ix'[i].orphans \subseteq ix[i].orphans
    BY <1>0, <2>1, <2>2 DEF Indexer
  <2> QED BY <1>2, <2>1, <2>3 DEF Reads, Indexing, Idle
<1>14. CASE Retry(i)
  <2>1. ix[i].pc = "threw"
    BY <1>14 DEF Retry, At
  <2>2. ix'[i].pc \in {"waiting", "failed"} /\ ix'[i].orphans = ix[i].orphans
    BY <1>0, <1>14 DEF Retry, Goto, Indexer
  <2> QED BY <1>2, <2>1, <2>2 DEF Reads, Indexing, Idle
<1> QED BY <1>1, <1>5, <1>6, <1>7, <1>8, <1>9, <1>10, <1>11, <1>12, <1>13, <1>14 DEF Keeping

LEMMA StatusSet ==
    ASSUME Shapes, NEW d \in Docs, NEW k, NEW s, SetStatus(k, s)
    PROVE  doc'[d].status = IF d = k THEN s ELSE doc[d].status
BY DEF Shapes, SetStatus, DocRow

LEMMA BecomesExcluded ==
    ASSUME Shapes, [Next]_vars, NEW d \in Docs,
           doc'[d].status = "excluded", doc[d].status # "excluded"
    PROVE  SetExcluded /\ d = excluding /\ HasRow(d)
<1>0. doc \in [Docs -> DocRow]
  BY DEF Shapes
<1>1. ~\E k : \E s \in {"pending", "processing", "failed"} : SetStatus(k, s)
  <2>1. ASSUME NEW k, NEW s \in {"pending", "processing", "failed"}, SetStatus(k, s) PROVE FALSE
    BY <2>1, StatusSet
  <2> QED BY <2>1
<1>2. ~\E k : Remove(k)
  <2>1. ASSUME NEW k, Remove(k) PROVE FALSE
    BY <1>0, <2>1 DEF Remove, NoRow
  <2> QED BY <2>1
<1>3. ~\E i \in Indexers : FinishDocument(i)
  <2>1. ASSUME NEW i \in Indexers, FinishDocument(i) PROVE FALSE
    <3>1. UNCHANGED doc \/ doc' = [doc EXCEPT ![ix[i].doc] = [status |-> "completed", hash |-> ix[i].ver]]
      BY <2>1, Zenon DEF FinishDocument
    <3> QED BY <1>0, <3>1
  <2> QED BY <2>1
<1>4. SetExcluded /\ SetStatus(excluding, "excluded")
  BY <1>1, <1>2, <1>3, DocChanges
<1>5. d = excluding
  BY <1>4, StatusSet
<1> QED BY <1>4, <1>5 DEF SetExcluded

\* Nobody comes to an excluded document.
LEMMA NewHolder ==
    ASSUME Shapes, NoRowYet, [Next]_vars, NEW i \in Indexers, NEW d \in Docs,
           Holds(i, d)', ~Holds(i, d)
    PROVE  doc'[d].status # "excluded"
<1>0. /\ ix \in [Indexers -> Indexer] /\ ix[i] \in Indexer /\ Fits(i, ix[i])
      /\ doc \in [Docs -> DocRow]
  BY DEF Shapes, IndexersFit
<1>1. ix'[i] # ix[i]
  BY DEF Holds
<1>2. ~Keeps(i)
  BY KeepsHold
<1>3. ASSUME NEW k \in Indexers, Work(k) \/ WriteFails(k) \/ CrawlTimesOut(k)
      PROVE  doc'[d].status # "excluded"
  <2>1. k = i
    BY <1>0, <1>1, <1>3, EachMoves DEF Moves
  <2>2. LookUp(i) \/ FindOrphans(i) \/ TakePage(i) \/ TakeFile(i)
    <3>1. ~Keeping(i)
      BY <1>2, KeepingKeeps
    <3> QED BY <1>3, <2>1, <3>1, Zenon DEF Work, Keeping
  <2>3. CASE LookUp(i)
    <3>1. PICK r \in Indexer, p \in Pages :
                /\ CrawlFits(r) /\ r.pc \in {"next", "touch", "take"}
                /\ r.pc # "next" =>
                      \/ r.pc = "take" /\ r.doc = <<p, 0>>
                      \/ r.doc \in CopiesOf(p) /\ doc[r.doc].status # "excluded"
                /\ ix' = [ix EXCEPT ![i] = r]
      BY <2>3, LookUpStep
    <3>2. UNCHANGED doc
      BY <2>3 DEF LookUp, tables
    <3>3. i \notin Files
      BY <2>3, LookUpStep, StepsOfCrawls, KindOf DEF Shapes
    <3>4. r.orphans = {} /\ ix'[i] = r
      BY <1>0, <3>1 DEF CrawlFits
    <3>5. r.pc # "next" /\ r.doc = d
      BY <3>3, <3>4, <3>1 DEF Holds, Indexing
    <3>6. d # <<p, 0>>
      BY DocKinds DEF NewPages
    <3> QED BY <3>1, <3>2, <3>5, <3>6
  <2>4. CASE FindOrphans(i)
    <3>1. UNCHANGED doc /\ ix[i].pc = "next"
      BY <2>4 DEF FindOrphans, At, tables
    <3>2. i \notin Files
      BY <3>1, StepsOfCrawls, KindOf DEF Shapes
    <3>3. ix'[i].pc = "sweep" /\ \A x \in ix'[i].orphans : doc[x].status # "excluded"
      BY <1>0, <2>4 DEF FindOrphans, Indexer
    <3> QED BY <3>1, <3>2, <3>3 DEF Holds, Indexing
  <2>5. CASE TakePage(i)
    <3>1. ix[i].pc = "take" /\ i \notin Files /\ ix[i].orphans = {}
      <4>1. ix[i].pc = "take"
        BY <2>5 DEF TakePage, At
      <4> QED BY <4>1, StepsOfCrawls, KindOf DEF Shapes, CrawlFits
    <3>2. \/ Goto(i, "clear") \/ Goto(i, "erred")
          \/ \E new \in FreeCopies(Item(ix[i].doc)) :
                SetStatus(new, "processing") /\ ix' = [ix EXCEPT ![i].pc = "clear", ![i].doc = new]
      BY <2>5, Zenon DEF TakePage
    <3>3. ~Goto(i, "clear") /\ ~Goto(i, "erred")
      <4>1. ASSUME Goto(i, "clear") PROVE FALSE
        <5>1. ix'[i].pc = "clear" /\ ix'[i].doc = ix[i].doc /\ ix'[i].orphans = {}
          BY <1>0, <3>1, <4>1 DEF Goto, Indexer
        <5> QED BY <3>1, <5>1 DEF Holds
      <4>2. ASSUME Goto(i, "erred") PROVE FALSE
        <5>1. ix'[i].pc = "erred" /\ ix'[i].orphans = {}
          BY <1>0, <3>1, <4>2 DEF Goto, Indexer
        <5> QED BY <3>1, <5>1 DEF Holds, Indexing
      <4> QED BY <4>1, <4>2
    <3>4. PICK new \in FreeCopies(Item(ix[i].doc)) :
                SetStatus(new, "processing") /\ ix' = [ix EXCEPT ![i].pc = "clear", ![i].doc = new]
      BY <3>2, <3>3
    <3>5. ix'[i].pc = "clear" /\ ix'[i].doc = new /\ ix'[i].orphans = {}
      BY <1>0, <3>1, <3>4 DEF Indexer
    <3>6. new = d
      BY <3>1, <3>5 DEF Holds
    <3> QED BY <3>4, <3>6, StatusSet
  <2>6. CASE TakeFile(i)
    <3>1. ix[i].pc = "start"
      BY <2>6 DEF TakeFile, At
    <3>2. i \in Files /\ ix[i].orphans = {}
      BY <3>1, StepsOfFiles DEF Shapes, FileFits
    <3>3. Item(d) # i
      BY <3>1, <3>2 DEF Holds
    <3>4. ix'[i].orphans = {} /\ (ix'[i].pc = "threw" \/ ix'[i].doc = <<i, 1>>)
      BY <1>0, <2>6, <3>2 DEF TakeFile, Goto, Indexer
    <3>5. ix'[i].doc # d \/ ix'[i].pc = "threw"
      BY <3>3, <3>4 DEF Item
    <3> QED BY <3>3, <3>4, <3>5 DEF Holds, Indexing
  <2> QED BY <2>2, <2>3, <2>4, <2>5, <2>6
<1>4. CASE Ask
  <2>1. ASSUME NEW c \in Crawls, NEW mode, StartCrawl(c, mode) PROVE doc'[d].status # "excluded"
    <3>1. /\ ix[c].pc = "none" /\ ix' = [ix EXCEPT ![c].pc = "checked", ![c].mode = mode]
      BY <2>1 DEF StartCrawl, At
    <3>2. c = i /\ i \notin Files
      BY <1>0, <1>1, <2>1, <3>1, KindOf
    <3>3. ix'[i].pc = "checked" /\ ix'[i].orphans = ix[i].orphans
      BY <1>0, <3>1, <3>2 DEF Indexer
    <3> QED BY <3>2, <3>3 DEF Holds, Indexing
  <2>2. ASSUME NEW f \in Files, Upload(f) PROVE doc'[d].status # "excluded"
    <3>1. ix[f].pc = "none" /\ ix' = [ix EXCEPT ![f].pc = "rowed"] /\ UNCHANGED doc
      BY <2>2 DEF Upload, At, Goto
    <3>2. f = i
      BY <1>0, <1>1, <3>1
    <3>3. ix'[i].pc = "rowed" /\ ix'[i].orphans = ix[i].orphans
      BY <1>0, <3>1, <3>2 DEF Indexer
    <3>4. Item(d) = i
      BY <3>3 DEF Holds, Indexing
    <3>5. d = <<i, 1>>
      BY <2>2, <3>2, <3>4, IndexSets DEF Docs, Item
    <3> QED BY <2>2, <3>1, <3>2, <3>5 DEF NoRowYet, At, HasRow
  <2>3. ASSUME NEW e \in Edits, NEW t \in Texts, NEW v \in Versions, EditText(e, t, v)
        PROVE  doc'[d].status # "excluded"
    <3>1. /\ SetStatus(<<t, 1>>, "processing")
          /\ ix' = [ix EXCEPT ![e].pc = "clear", ![e].doc = <<t, 1>>, ![e].ver = v]
      BY <2>3 DEF EditText
    <3>2. e = i /\ i \notin Files
      BY <1>0, <1>1, <2>3, <3>1, KindOf
    <3>3. ix'[i].pc = "clear" /\ ix'[i].doc = <<t, 1>> /\ ix'[i].orphans = ix[i].orphans
      BY <1>0, <3>1, <3>2 DEF Indexer
    <3>4. d = <<t, 1>>
      BY <3>2, <3>3 DEF Holds
    <3> QED BY <3>1, <3>4, StatusSet
  <2>4. ASSUME NEW k \in Docs, DeleteDocument(k) \/ ClearExcluded(k) PROVE FALSE
    BY <1>1, <2>4 DEF DeleteDocument, ClearExcluded
  <2> QED BY <1>4, <2>1, <2>2, <2>3, <2>4 DEF Ask
<1>5. CASE Restart
  <2>1. ix'[i] = AfterRestart(i)
    BY <1>5 DEF Restart
  <2>2. /\ ix'[i].orphans = {} /\ ix'[i].pc \in {"none", "waiting", "done", "failed", "lost"}
    BY <2>1, RestartFits
  <2>3. i \in Files /\ i = Item(d) /\ ix'[i].pc = "waiting" /\ ix[i].pc \in {"none", "done", "failed", "lost"}
    BY <2>2 DEF Holds, Indexing
  <2> QED BY <2>1, <2>3 DEF AfterRestart, AtWork
<1>6. CASE SetExcluded \/ (\E p \in Pages : SiteChanges(p)) \/ UNCHANGED vars
  BY <1>1, <1>6, Zenon DEF SetExcluded, SiteChanges, vars
<1> QED BY <1>3, <1>4, <1>5, <1>6, Zenon DEF Next

LEMMA StepLate == Shapes /\ NoRowYet /\ LateHold /\ [Next]_vars => LateHold'
<1> SUFFICES ASSUME Shapes, NoRowYet, LateHold, [Next]_vars, NEW d \in Docs, NEW i \in Indexers,
                    doc'[d].status = "excluded", Holds(i, d)'
             PROVE  i \in late'[d]
  BY DEF LateHold
<1>0. late \in [Docs -> SUBSET Indexers]
  BY DEF Shapes
<1>1. Holds(i, d)
  BY NewHolder
<1>2. CASE doc[d].status # "excluded"
  <2>1. SetExcluded /\ d = excluding /\ HasRow(d)
    BY <1>2, BecomesExcluded
  <2>2. late' = [late EXCEPT ![excluding] = {k \in Indexers : Holds(k, excluding)}]
    BY <2>1 DEF SetExcluded
  <2> QED BY <1>0, <1>1, <2>1, <2>2
<1>3. CASE doc[d].status = "excluded"
  <2>1. i \in late[d]
    BY <1>1, <1>3 DEF LateHold
  <2>2. CASE UNCHANGED late
    BY <2>1, <2>2
  <2>3. CASE SetExcluded
    BY <1>0, <1>1, <2>1, <2>3 DEF SetExcluded
  <2>4. CASE Restart
    <3>1. ix'[i] = AfterRestart(i) /\ late'[d] = late[d] \cap Files
      BY <2>4 DEF Restart
    <3>2. i \in Files
      BY <3>1, RestartFits DEF Holds, Indexing
    <3> QED BY <2>1, <3>1, <3>2
  <2> QED BY <2>2, <2>3, <2>4, OtherChanges
<1> QED BY <1>2, <1>3

\* An exclusion ends by a request, or by a step of one who held the document.
LEMMA ExclusionEnds ==
    ASSUME Shapes, [Next]_vars, NEW d \in Docs,
           doc[d].status = "excluded", doc'[d].status # "excluded"
    PROVE  \/ spent'["requests"] # spent["requests"]
           \/ \E i \in Indexers : Holds(i, d) /\ ix'[i] # ix[i]
<1>0. /\ doc \in [Docs -> DocRow] /\ doc'[d] # doc[d] /\ HasRow(d)
      /\ ix \in [Indexers -> Indexer] /\ spent \in [{"requests", "events"} -> Nat]
  BY DEF Shapes, HasRow, IndexersFit
<1>1. \A k, s : SetStatus(k, s) => k = d
  BY <1>0 DEF SetStatus
<1>2. \A k : Remove(k) => k = d
  BY <1>0 DEF Remove
<1>3. ASSUME NEW i \in Indexers, Work(i) \/ WriteFails(i) \/ CrawlTimesOut(i)
      PROVE  Holds(i, d) /\ ix'[i] # ix[i]
  <2>0. ix[i] \in Indexer /\ Fits(i, ix[i])
    BY DEF Shapes, IndexersFit
  <2>1. CreateDocument(i) \/ FailDocument(i) \/ TakePage(i) \/ TakeFile(i) \/ FinishDocument(i) \/ DeleteOrphan(i)
    BY <1>0, <1>3, Zenon DEF Work, CreateJob, Enqueue, Clear, Insert, BeginCrawl, Fetch, LookUp, TouchPage,
       FindOrphans, BeginIngest, CompleteRow, FailRow, FinishJob, Retry, WriteFails, CrawlTimesOut, tables
  <2>2. CASE CreateDocument(i)
    <3>1. i \in Files /\ ix[i].pc = "rowed" /\ d = <<i, 1>> /\ Goto(i, "created")
      BY <1>1, <2>2 DEF CreateDocument, At
    <3>2. ix'[i].pc = "created"
      BY <1>0, <2>0, <3>1 DEF Goto, Indexer
    <3> QED BY <3>1, <3>2 DEF Holds, Item
  <2>3. CASE FailDocument(i)
    <3>1. ix[i].pc = "broken" /\ HasRow(ix[i].doc) /\ SetStatus(ix[i].doc, "failed") /\ ix' = [ix EXCEPT ![i] = Indexed(i, FALSE)]
      BY <1>0, <2>3 DEF FailDocument, At
    <3>2. ix'[i].pc # "broken"
      BY <1>0, <3>1, AfterIndexing DEF Shapes, Indexing
    <3> QED BY <1>1, <3>1, <3>2 DEF Holds, Indexing
  <2>4. CASE FinishDocument(i)
    <3>1. /\ ix[i].pc = "finish" /\ ix' = [ix EXCEPT ![i] = Indexed(i, TRUE)]
          /\ doc' = [doc EXCEPT ![ix[i].doc] = [status |-> "completed", hash |-> ix[i].ver]]
      BY <1>0, <2>4 DEF FinishDocument, At
    <3>2. ix'[i].pc # "finish"
      BY <1>0, <3>1, AfterIndexing DEF Shapes, Indexing
    <3>3. ix[i].doc = d
      BY <1>0, <3>1
    <3> QED BY <3>1, <3>2, <3>3 DEF Holds, Indexing
  <2>5. CASE TakePage(i)
    <3>1. ix[i].pc = "take"
      BY <2>5 DEF TakePage, At
    <3>2. SetStatus(ix[i].doc, "processing") \/ \E new \in FreeCopies(Item(ix[i].doc)) : SetStatus(new, "processing")
      BY <1>0, <2>5, Zenon DEF TakePage
    <3>3. \A new \in FreeCopies(Item(ix[i].doc)) : new # d
      BY <1>0 DEF FreeCopies, Unused
    <3>4. ix[i].doc = d
      BY <1>1, <3>2, <3>3
    <3>5. ix'[i].pc \in {"clear", "erred"}
      <4>1. Goto(i, "clear") \/ Goto(i, "erred") \/ \E new : ix' = [ix EXCEPT ![i].pc = "clear", ![i].doc = new]
        BY <2>5, Zenon DEF TakePage
      <4> QED BY <1>0, <2>0, <4>1 DEF Goto, Indexer
    <3> QED BY <3>1, <3>4, <3>5 DEF Holds
  <2>6. CASE TakeFile(i)
    <3>1. /\ ix[i].pc = "start" /\ SetStatus(<<i, 1>>, "processing")
          /\ ix' = [ix EXCEPT ![i].pc = "clear", ![i].doc = <<i, 1>>]
      BY <1>0, <2>6 DEF TakeFile, At
    <3>2. i \in Files /\ d = <<i, 1>>
      BY <1>1, <3>1, StepsOfFiles DEF Shapes
    <3>3. ix'[i].pc = "clear"
      BY <1>0, <2>0, <3>1 DEF Indexer
    <3> QED BY <3>1, <3>2, <3>3 DEF Holds, Item
  <2>7. CASE DeleteOrphan(i)
    <3>1. PICK k \in ix[i].orphans : Remove(k) /\ ix' = [ix EXCEPT ![i].orphans = @ \ {k}]
      BY <1>0, <2>7 DEF DeleteOrphan
    <3>2. k = d
      BY <1>2, <3>1
    <3>3. d \notin ix'[i].orphans
      BY <1>0, <2>0, <3>1, <3>2 DEF Indexer
    <3> QED BY <3>1, <3>2, <3>3 DEF Holds
  <2> QED BY <2>1, <2>2, <2>3, <2>4, <2>5, <2>6, <2>7
<1>4. CASE Ask
  <2>1. Request
    BY <1>0, <1>4, Zenon DEF Ask, StartCrawl, Upload, DeleteDocument, ClearExcluded, EditText
  <2> QED BY <1>0, <2>1 DEF Request, Spend
<1>5. CASE SetExcluded
  <2>1. SetStatus(excluding, "excluded")
    BY <1>0, <1>5 DEF SetExcluded
  <2> QED BY <2>1, StatusSet
<1>6. CASE Restart \/ (\E p \in Pages : SiteChanges(p)) \/ UNCHANGED vars
  BY <1>0, <1>6, Zenon DEF Restart, SiteChanges, vars, tables
<1> QED BY <1>3, <1>4, <1>5, <1>6, Zenon DEF Next

\* An exclusion ends only by a request of the owner, or by a job that had begun
\* with the document when it was excluded.
THEOREM ExclusionTheorem == Spec => ExclusionStays
<1> DEFINE Inv == Shapes /\ NoRowYet /\ LateHold
<1>1. Init => Inv
  <2>1. Init => LateHold
    BY DEF Init, NoRow, LateHold
  <2> QED BY <2>1, InitShapes, InitNoRowYet
<1>2. Inv /\ [Next]_vars => Inv'
  BY StepShapes, StepNoRowYet, StepLate
<1>3. Inv /\ [Next]_vars =>
        \A d \in Docs :
          doc[d].status = "excluded" /\ doc'[d].status # "excluded" =>
             \/ spent'["requests"] # spent["requests"]
             \/ \E i \in late[d] : ix'[i] # ix[i]
  <2> SUFFICES ASSUME Inv, [Next]_vars, NEW d \in Docs,
                      doc[d].status = "excluded", doc'[d].status # "excluded"
               PROVE  \/ spent'["requests"] # spent["requests"]
                      \/ \E i \in late[d] : ix'[i] # ix[i]
    OBVIOUS
  <2>1. \/ spent'["requests"] # spent["requests"]
        \/ \E i \in Indexers : Holds(i, d) /\ ix'[i] # ix[i]
    BY ExclusionEnds
  <2> QED BY <2>1 DEF LateHold
<1>4. Spec => []Inv
  BY <1>1, <1>2, PTL DEF Spec
<1> QED BY <1>3, <1>4, PTL DEF Spec, ExclusionStays

-----------------------------------------------------------------------------
(* What the chunks of a completed document are *)

LEMMA ChunkNumbers ==
    ASSUME NEW v
    PROVE  /\ Written(v, 1) = NoChunks
           /\ Written(v, Parts + 1) = ChunksOf(v)
           /\ \A n \in 1..Parts : [Written(v, n) EXCEPT ![<<v, n>>] = @ + 1] = Written(v, n + 1)
<1>1. Written(v, 1) = NoChunks
  BY IndexBounds DEF Written, NoChunks, Slots
<1>2. Written(v, Parts + 1) = ChunksOf(v)
  BY IndexBounds DEF Written, ChunksOf, Slots
<1>3. ASSUME NEW n \in 1..Parts
      PROVE  [Written(v, n) EXCEPT ![<<v, n>>] = @ + 1] = Written(v, n + 1)
  <2>1. Written(v, n) \in [Slots -> Nat] /\ Written(v, n + 1) \in [Slots -> Nat]
    BY DEF Written
  <2>2. ASSUME NEW y \in Slots
        PROVE  [Written(v, n) EXCEPT ![<<v, n>>] = @ + 1][y] = Written(v, n + 1)[y]
    <3>1. [Written(v, n) EXCEPT ![<<v, n>>] = @ + 1][y]
            = IF y = <<v, n>> THEN Written(v, n)[y] + 1 ELSE Written(v, n)[y]
      BY <2>1, OneMore
    <3>2. PICK w \in Versions, m \in 1..Parts : y = <<w, m>>
      BY DEF Slots
    <3>3. /\ Written(v, n)[y] = IF w = v /\ m < n THEN 1 ELSE 0
          /\ Written(v, n + 1)[y] = IF w = v /\ m < n + 1 THEN 1 ELSE 0
      BY <3>2 DEF Written
    <3>4. y = <<v, n>> <=> w = v /\ m = n
      BY <3>2
    <3>5. m \in Nat /\ n \in Nat
      BY IndexBounds
    <3> QED BY <3>1, <3>3, <3>4, <3>5
  <2>3. [Written(v, n) EXCEPT ![<<v, n>>] = @ + 1] \in [Slots -> Nat]
    BY <2>1, OneMore
  <2> QED BY <2>1, <2>2, <2>3
<1> QED BY <1>1, <1>2, <1>3

\* A document that nobody comes to, and whose chunks stay.
LEMMA ContentKept ==
    ASSUME NEW d \in Docs, Undisturbed(d), chunks'[d] = chunks[d],
           doc'[d] = doc[d] \/ doc'[d].status # "completed",
           \A i \in Indexers : Indexes(i, d)' =>
               Indexes(i, d) /\ (ix'[i] = ix[i] \/ ix'[i].pc = "broken")
    PROVE  Undisturbed(d)'
BY DEF Undisturbed

\* A document whose indexing has just begun, by this one alone.
LEMMA ContentBegun ==
    ASSUME NEW d \in Docs, NEW e, doc'[d].status # "completed",
           \A i \in Indexers : Indexes(i, d)' => i = e /\ ix'[i].pc = "clear"
    PROVE  Undisturbed(d)'
BY DEF Undisturbed

LEMMA IndexingStep ==
    ASSUME Shapes, NEW i \in Indexers, Keeping(i), NEW d, Indexes(i, d)'
    PROVE  Indexes(i, d) /\ (Clear(i) \/ Insert(i) \/ ix'[i].pc = "broken")
<1>0. ix \in [Indexers -> Indexer] /\ ix[i] \in Indexer
  BY DEF Shapes, IndexersFit
<1>1. Indexes(i, d) /\ ix[i].pc \in Indexing
  BY KeepingKeeps DEF Keeps, Indexes, Reads
<1>2. Clear(i) \/ Insert(i) \/ WriteFails(i) \/ FinishDocument(i) \/ FailDocument(i)
  <2>1. ix[i].pc \notin {"checked", "rowed", "created", "waiting", "fetch", "touch", "sweep", "next", "end",
                       "erred", "ended", "threw"}
    BY <1>1 DEF Indexing
  <2> QED BY <2>1 DEF Keeping, CreateJob, CreateDocument, Enqueue, BeginCrawl, Fetch, TouchPage,
        DeleteOrphan, CrawlTimesOut, BeginIngest, CompleteRow, FailRow, CrawlEnds, FinishJob, Retry, At
<1>3. CASE WriteFails(i)
  BY <1>0, <1>1, <1>3 DEF WriteFails, Goto, Indexer
<1>4. CASE FinishDocument(i)
  <2>1. Goto(i, "broken") \/ ix' = [ix EXCEPT ![i] = Indexed(i, TRUE)]
    BY <1>4, Zenon DEF FinishDocument
  <2>2. Indexed(i, TRUE).pc \notin Indexing
    BY <1>1, AfterIndexing DEF Shapes, Indexing
  <2>3. Goto(i, "broken")
    BY <1>0, <2>1, <2>2 DEF Indexes
  <2> QED BY <1>0, <1>1, <2>3 DEF Goto, Indexer
<1>5. CASE FailDocument(i)
  <2>1. (\E pc \in {"erred", "threw", "done"} : Goto(i, pc)) \/ ix' = [ix EXCEPT ![i] = Indexed(i, FALSE)]
    BY <1>5 DEF FailDocument
  <2>2. Indexed(i, FALSE).pc \notin Indexing
    BY <1>1, AfterIndexing DEF Shapes, Indexing
  <2>3. ix'[i].pc \notin Indexing
    BY <1>0, <2>1, <2>2 DEF Goto, Indexer, Indexing
  <2> QED BY <2>3 DEF Indexes
<1> QED BY <1>1, <1>2, <1>3, <1>4, <1>5

\* What a step of an indexer that comes to no document does to a document.
LEMMA KeepingTouches ==
    ASSUME Shapes, NEW i \in Indexers, Keeping(i), NEW d \in Docs, HasRow(d)', d \notin disturbed'
    PROVE  /\ d \notin disturbed
           /\ chunks'[d] = chunks[d] \/ (ix[i].doc = d /\ (Clear(i) \/ Insert(i)))
           /\ \/ doc'[d] = doc[d] \/ doc'[d].status # "completed"
              \/ FinishDocument(i) /\ ix[i].doc = d
<1>0. chunks \in [Docs -> [Slots -> Nat]] /\ doc \in [Docs -> DocRow]
  BY DEF Shapes
<1>1. CASE DeleteOrphan(i)
  <2>1. UNCHANGED <<doc, chunks, disturbed>> \/ \E k : Remove(k)
    BY <1>1, Zenon DEF DeleteOrphan
  <2>2. ASSUME NEW k, Remove(k) PROVE chunks'[d] = chunks[d] /\ doc'[d] = doc[d] /\ d \notin disturbed
    <3>1. k # d
      BY <1>0, <2>2 DEF Remove, NoRow, HasRow
    <3> QED BY <1>0, <2>2, <3>1 DEF Remove
  <2> QED BY <2>1, <2>2
<1>2. CASE Clear(i) \/ Insert(i)
  <2>1. UNCHANGED <<doc, disturbed>>
    BY <1>2, InsertStep DEF Clear, history
  <2>2. chunks' = chunks \/ \E f : chunks' = [chunks EXCEPT ![ix[i].doc] = f]
    BY <1>2, InsertStep DEF Clear
  <2> QED BY <1>0, <1>2, <2>1, <2>2
<1>3. CASE ~DeleteOrphan(i) /\ ~Clear(i) /\ ~Insert(i)
  <2>1. UNCHANGED <<chunks, disturbed>>
    BY <1>3, Zenon DEF Keeping, CreateJob, CreateDocument, Enqueue, FinishDocument, FailDocument,
       WriteFails, BeginCrawl, Fetch, TouchPage, CrawlTimesOut, BeginIngest, CompleteRow, FailRow,
       FinishJob, Retry, tables, history
  <2>2. UNCHANGED doc \/ (\E k : \E x \in {"pending", "failed"} : SetStatus(k, x)) \/ FinishDocument(i)
    BY <1>3, Zenon DEF Keeping, CreateJob, CreateDocument, Enqueue, FailDocument,
       WriteFails, BeginCrawl, Fetch, TouchPage, CrawlTimesOut, BeginIngest, CompleteRow, FailRow,
       FinishJob, Retry, tables
  <2>3. ASSUME NEW k, NEW x \in {"pending", "failed"}, SetStatus(k, x)
        PROVE  doc'[d] = doc[d] \/ doc'[d].status # "completed"
    BY <1>0, <2>3 DEF SetStatus, DocRow
  <2>4. FinishDocument(i) => doc'[d] = doc[d] \/ ix[i].doc = d
    BY <1>0 DEF FinishDocument
  <2> QED BY <2>1, <2>2, <2>3, <2>4
<1> QED BY <1>1, <1>2, <1>3

LEMMA KeepingContent ==
    ASSUME Shapes, NEW i \in Indexers, Keeping(i), NEW d \in Docs, HasRow(d), HasRow(d)',
           d \notin disturbed', Undisturbed(d)
    PROVE  Undisturbed(d)'
<1>0. /\ ix \in [Indexers -> Indexer] /\ ix[i] \in Indexer
      /\ chunks \in [Docs -> [Slots -> Nat]] /\ doc \in [Docs -> DocRow]
  BY DEF Shapes, IndexersFit
<1>1. \A k \in Indexers : k # i => ix'[k] = ix[k]
  BY KeepingKeeps
<1>2. ASSUME ix[i].pc \in Indexing, ix[i].doc = d
      PROVE  \A k \in Indexers : Indexes(k, d)' => k = i
  BY <1>1, <1>2 DEF Undisturbed, Indexes
<1>3. CASE Clear(i) /\ ix[i].doc = d
  <2>1. /\ ix[i].pc = "clear" /\ chunks'[d] = NoChunks /\ UNCHANGED doc
        /\ ix' = [ix EXCEPT ![i].pc = "insert", ![i].part = 1]
    BY <1>0, <1>3 DEF Clear, At
  <2>2. ix'[i].pc = "insert" /\ ix'[i].part = 1 /\ ix'[i].ver = ix[i].ver
    BY <1>0, <2>1 DEF Indexer
  <2>3. \A k \in Indexers : Indexes(k, d)' => k = i
    BY <1>2, <1>3, <2>1 DEF Indexing
  <2>4. doc[d].status # "completed"
    BY <1>3, <2>1 DEF Undisturbed, Indexes, Indexing
  <2>5. chunks'[d] = Written(ix'[i].ver, ix'[i].part)
    BY <2>1, <2>2, ChunkNumbers
  <2> QED BY <2>1, <2>2, <2>3, <2>4, <2>5 DEF Undisturbed
<1>4. CASE Insert(i) /\ ix[i].doc = d
  <2>1. ix[i].pc = "insert" /\ ix[i].part \in 1..Parts
    BY <1>0, <1>4 DEF Insert, At, Indexer
  <2>2. /\ UNCHANGED doc
        /\ chunks' = [chunks EXCEPT ![d] = [chunks[d] EXCEPT ![<<ix[i].ver, ix[i].part>>] = @ + 1]]
        /\ \/ ix[i].part = Parts /\ Goto(i, "finish")
           \/ ix[i].part # Parts /\ ix' = [ix EXCEPT ![i].part = @ + 1]
    BY <1>4 DEF Insert
  <2>3. chunks[d] = Written(ix[i].ver, ix[i].part) /\ doc[d].status # "completed"
    BY <1>4, <2>1 DEF Undisturbed, Indexes, Indexing
  <2>4. chunks'[d] = [chunks[d] EXCEPT ![<<ix[i].ver, ix[i].part>>] = @ + 1]
    BY <1>0, <2>2
  <2>5. chunks'[d] = Written(ix[i].ver, ix[i].part + 1)
    <3>1. PICK v, n : v = ix[i].ver /\ n = ix[i].part
      OBVIOUS
    <3>2. n \in 1..Parts /\ [Written(v, n) EXCEPT ![<<v, n>>] = @ + 1] = Written(v, n + 1)
      BY <2>1, <3>1, ChunkNumbers
    <3> QED BY <2>3, <2>4, <3>1, <3>2
  <2>6. /\ ix'[i].ver = ix[i].ver
        /\ \/ ix[i].part = Parts /\ ix'[i].pc = "finish"
           \/ ix'[i].pc = "insert" /\ ix'[i].part = ix[i].part + 1
    BY <1>0, <2>1, <2>2 DEF Goto, Indexer
  <2>7. \A k \in Indexers : Indexes(k, d)' => k = i
    BY <1>2, <1>4, <2>1 DEF Indexing
  <2>8. ix'[i].pc = "finish" => chunks'[d] = ChunksOf(ix'[i].ver)
    BY <2>5, <2>6, ChunkNumbers
  <2> QED BY <2>2, <2>3, <2>5, <2>6, <2>7, <2>8 DEF Undisturbed
<1>5. CASE FinishDocument(i) /\ ix[i].doc = d
  <2>1. /\ ix[i].pc = "finish" /\ UNCHANGED chunks
        /\ doc' = [doc EXCEPT ![d] = [status |-> "completed", hash |-> ix[i].ver]]
        /\ ix' = [ix EXCEPT ![i] = Indexed(i, TRUE)]
    BY <1>5 DEF FinishDocument, At
  <2>2. ix'[i].pc \notin Indexing
    BY <1>0, <2>1, AfterIndexing DEF Shapes, Indexing
  <2>3. \A k \in Indexers : ~Indexes(k, d)'
    BY <1>2, <1>5, <2>1, <2>2 DEF Indexing, Indexes
  <2>4. chunks[d] = ChunksOf(ix[i].ver)
    BY <1>5, <2>1 DEF Undisturbed, Indexes, Indexing
  <2>5. doc'[d].hash = ix[i].ver
    BY <1>0, <2>1
  <2> QED BY <2>1, <2>3, <2>4, <2>5 DEF Undisturbed
<1>6. CASE ~((Clear(i) \/ Insert(i) \/ FinishDocument(i)) /\ ix[i].doc = d)
  <2>1. chunks'[d] = chunks[d] /\ (doc'[d] = doc[d] \/ doc'[d].status # "completed")
    BY <1>6, KeepingTouches
  <2>2. ASSUME NEW k \in Indexers, Indexes(k, d)'
        PROVE  Indexes(k, d) /\ (ix'[k] = ix[k] \/ ix'[k].pc = "broken")
    <3>1. CASE k # i
      BY <1>1, <2>2, <3>1 DEF Indexes
    <3>2. CASE k = i
      BY <1>6, <2>2, <3>2, IndexingStep DEF Indexes
    <3> QED BY <3>1, <3>2
  <2> QED BY <2>1, <2>2, ContentKept
<1> QED BY <1>3, <1>4, <1>5, <1>6

\* A document of which an indexing begins: it is disturbed, or it has no other.
LEMMA BeginsAlone ==
    ASSUME NEW e \in Indexers, NEW d, Begins(e, d), d \notin disturbed'
    PROVE  \A k \in Indexers : Indexes(k, d) => k = e
BY DEF Begins, Indexes

LEMMA BeginContent ==
    ASSUME Shapes, NEW e \in Indexers, NEW d \in Docs, NEW k \in Docs,
           SetStatus(k, "processing"), ix'[e].pc = "clear", ix'[e].doc = k,
           \A i \in Indexers : i # e => ix'[i] = ix[i],
           d = k => \A i \in Indexers : Indexes(i, k) => i = e,
           d # k => Undisturbed(d) /\ UNCHANGED chunks
    PROVE  Undisturbed(d)'
<1>1. CASE d = k
  <2>1. doc'[d].status # "completed"
    BY <1>1, StatusSet
  <2>2. \A i \in Indexers : Indexes(i, d)' => i = e /\ ix'[i].pc = "clear"
    BY <1>1 DEF Indexes
  <2> QED BY <2>1, <2>2, ContentBegun
<1>2. CASE d # k
  <2>1. doc'[d] = doc[d]
    BY <1>2 DEF Shapes, SetStatus
  <2>2. \A i \in Indexers : Indexes(i, d)' => Indexes(i, d) /\ ix'[i] = ix[i]
    BY <1>2 DEF Indexes
  <2> QED BY <1>2, <2>1, <2>2, ContentKept
<1> QED BY <1>1, <1>2

LEMMA StepContent == Shapes /\ NoRowYet /\ ContentInv /\ [Next]_vars => ContentInv'
<1> SUFFICES ASSUME Shapes, NoRowYet, ContentInv, [Next]_vars, NEW d \in Docs, HasRow(d)', d \notin disturbed'
             PROVE  Undisturbed(d)'
  BY DEF ContentInv
<1>0. /\ ix \in [Indexers -> Indexer] /\ \A i \in Indexers : ix[i] \in Indexer /\ Fits(i, ix[i])
      /\ doc \in [Docs -> DocRow] /\ chunks \in [Docs -> [Slots -> Nat]]
  BY DEF Shapes, IndexersFit
<1>1. HasRow(d) /\ d \notin disturbed => Undisturbed(d)
  BY DEF ContentInv
\* Nothing comes to the document, and nothing touches it.
<1>2. /\ chunks'[d] = chunks[d] /\ (doc'[d] = doc[d] \/ doc'[d].status # "completed")
      /\ HasRow(d) /\ d \notin disturbed
      /\ \A i \in Indexers : Indexes(i, d)' => Indexes(i, d) /\ ix'[i] = ix[i]
      => Undisturbed(d)'
  BY <1>1, ContentKept
<1>3. CASE ~HasRow(d)
  <2>1. ASSUME NEW f \in Files, CreateDocument(f), d = <<f, 1>> PROVE Undisturbed(d)'
    <3>1. f \in Indexers /\ Keeping(f)
      BY <2>1 DEF Keeping, Indexers
    <3>2. ASSUME NEW k \in Indexers, Indexes(k, d)' PROVE FALSE
      <4>1. ix'[f].pc = "created"
        BY <1>0, <2>1, <3>1 DEF CreateDocument, Goto, Indexer
      <4>2. k # f
        BY <3>2, <4>1 DEF Indexes, Indexing
      <4>3. ix[k].pc \in Indexing /\ ix[k].doc = <<f, 1>>
        BY <2>1, <3>1, <3>2, <4>2, KeepingKeeps DEF Indexes
      <4>4. CASE k \in Crawls
        BY <1>0, <4>3, <4>4, DocKinds DEF Fits, CrawlFits
      <4>5. CASE k \in Files
        BY <1>0, <4>2, <4>3, <4>5 DEF Fits, FileFits
      <4>6. CASE k \in Edits
        <5>1. ix[k].doc \in Texts \X {1}
          BY <1>0, <4>3, <4>6 DEF Fits, EditFits
        <5> QED BY <2>1, <4>3, <5>1, IndexSets
      <4> QED BY <4>4, <4>5, <4>6 DEF Indexers
    <3>3. doc'[d].status # "completed"
      BY <2>1, StatusSet DEF CreateDocument
    <3> QED BY <3>1, <3>2, <3>3, ContentBegun
  <2>2. ASSUME NEW e \in Edits, NEW t \in Texts, NEW v \in Versions, EditText(e, t, v),
               d = <<t, 1>>, Unused(d)
        PROVE  Undisturbed(d)'
    <3>1. /\ SetStatus(d, "processing")
          /\ ix' = [ix EXCEPT ![e].pc = "clear", ![e].doc = d, ![e].ver = v]
      BY <2>2 DEF EditText
    <3>2. e \in Indexers /\ ix'[e].pc = "clear" /\ ix'[e].doc = d
      BY <1>0, <3>1 DEF Indexers, Indexer
    <3>3. \A i \in Indexers : i # e => ix'[i] = ix[i]
      BY <1>0, <3>1
    <3>4. \A i \in Indexers : ~Indexes(i, d)
      BY <2>2 DEF Unused, Holds, Indexes
    <3> QED BY <3>1, <3>2, <3>3, <3>4, BeginContent
  <2>3. ASSUME NEW c \in Crawls, TakePage(c), ix[c].doc[2] = 0, d \in FreeCopies(Item(ix[c].doc))
        PROVE  Undisturbed(d)'
    <3>1. doc'[d] # doc[d]
      BY <1>3 DEF HasRow
    <3>2. PICK new \in FreeCopies(Item(ix[c].doc)) :
            SetStatus(new, "processing") /\ ix' = [ix EXCEPT ![c].pc = "clear", ![c].doc = new]
      BY <2>3, <3>1, Zenon DEF TakePage
    <3>3. new = d
      BY <1>0, <3>1, <3>2 DEF SetStatus
    <3>4. c \in Indexers /\ ix'[c].pc = "clear" /\ ix'[c].doc = d
      BY <1>0, <3>2, <3>3 DEF Indexers, Indexer
    <3>5. \A i \in Indexers : i # c => ix'[i] = ix[i]
      BY <1>0, <3>2
    <3>6. \A i \in Indexers : ~Indexes(i, d)
      BY <2>3 DEF FreeCopies, Unused, Holds, Indexes
    <3> QED BY <3>2, <3>3, <3>4, <3>5, <3>6, BeginContent
  <2> QED BY <1>3, <2>1, <2>2, <2>3, RowAppears
<1>4. ASSUME HasRow(d), NEW i \in Indexers, Keeping(i) PROVE Undisturbed(d)'
  BY <1>1, <1>4, KeepingContent, KeepingTouches
\* An indexing of the document k begins.
<1>5. ASSUME HasRow(d), NEW e \in Indexers, NEW k \in Docs, SetStatus(k, "processing"), Begins(e, k),
             UNCHANGED chunks, ix'[e].pc = "clear", ix'[e].doc = k,
             \A i \in Indexers : i # e => ix'[i] = ix[i]
      PROVE  Undisturbed(d)'
  <2>1. d = k => \A i \in Indexers : Indexes(i, k) => i = e
    BY <1>5, BeginsAlone
  <2>2. d # k => d \notin disturbed
    BY <1>5 DEF Begins
  <2>3. d # k => Undisturbed(d)
    BY <1>1, <1>5, <2>2
  <2> QED BY <1>5, <2>1, <2>3, BeginContent
<1>6. ASSUME HasRow(d), NEW i \in Indexers, LookUp(i) \/ FindOrphans(i) PROVE Undisturbed(d)'
  <2>1. UNCHANGED <<doc, chunks, disturbed>>
    BY <1>6, Zenon DEF LookUp, FindOrphans, tables, history
  <2>2. (\E r : ix' = [ix EXCEPT ![i] = r]) /\ ix'[i].pc \notin Indexing
    <3>1. CASE LookUp(i)
      BY <1>0, <3>1, LookUpStep DEF Indexing
    <3>2. CASE FindOrphans(i)
      BY <1>0, <3>2 DEF FindOrphans, Indexer, Indexing
    <3> QED BY <1>6, <3>1, <3>2
  <2>3. \A k \in Indexers : Indexes(k, d)' => Indexes(k, d) /\ ix'[k] = ix[k]
    BY <1>0, <2>2 DEF Indexes
  <2> QED BY <1>2, <1>6, <2>1, <2>3
<1>7. ASSUME HasRow(d), NEW i \in Indexers, Goto(i, "erred") \/ Goto(i, "threw"), UNCHANGED <<doc, chunks, disturbed>>
      PROVE  Undisturbed(d)'
  <2>1. (\E r : ix' = [ix EXCEPT ![i] = r]) /\ ix'[i].pc \notin Indexing
    BY <1>0, <1>7 DEF Goto, Indexer, Indexing
  <2>2. \A k \in Indexers : Indexes(k, d)' => Indexes(k, d) /\ ix'[k] = ix[k]
    BY <1>0, <2>1 DEF Indexes
  <2> QED BY <1>2, <1>7, <2>2
<1>8. ASSUME HasRow(d), NEW i \in Indexers, TakePage(i) PROVE Undisturbed(d)'
  <2>0. UNCHANGED chunks
    BY <1>8 DEF TakePage
  <2>1. CASE Goto(i, "erred") /\ UNCHANGED <<doc, disturbed>>
    BY <1>7, <1>8, <2>0, <2>1
  <2>2. CASE HasRow(ix[i].doc) /\ ix[i].doc[2] # 0 /\ SetStatus(ix[i].doc, "processing")
             /\ Goto(i, "clear") /\ Begins(i, ix[i].doc)
    <3>1. ix[i].doc \in Docs
      BY <1>0, <1>8, <2>2, StepsOfCrawls, DocKinds DEF TakePage, At, Shapes, CrawlFits
    <3>2. ix'[i].pc = "clear" /\ ix'[i].doc = ix[i].doc /\ \A k \in Indexers : k # i => ix'[k] = ix[k]
      BY <1>0, <2>2 DEF Goto, Indexer
    <3> QED BY <1>5, <1>8, <2>0, <2>2, <3>1, <3>2
  <2>3. ASSUME NEW new \in FreeCopies(Item(ix[i].doc)), SetStatus(new, "processing"),
               ix' = [ix EXCEPT ![i].pc = "clear", ![i].doc = new], UNCHANGED disturbed
        PROVE  Undisturbed(d)'
    <3>1. new # d /\ new \in Docs
      BY <1>8 DEF FreeCopies, Unused
    <3>2. ix'[i].pc = "clear" /\ ix'[i].doc = new /\ \A k \in Indexers : k # i => ix'[k] = ix[k]
      BY <1>0, <2>3 DEF Indexer
    <3>3. Undisturbed(d)
      BY <1>1, <1>8, <2>3
    <3> QED BY <2>0, <2>3, <3>1, <3>2, <3>3, BeginContent
  <2> QED BY <1>8, <2>1, <2>2, <2>3, Zenon DEF TakePage
<1>9. ASSUME HasRow(d), NEW i \in Indexers, TakeFile(i) PROVE Undisturbed(d)'
  <2>0. UNCHANGED chunks /\ <<i, 1>> \in Docs
    BY <1>9, StepsOfFiles, DocKinds DEF TakeFile, At, Shapes
  <2>1. CASE Goto(i, "threw") /\ UNCHANGED <<doc, disturbed>>
    BY <1>7, <1>9, <2>0, <2>1
  <2>2. CASE SetStatus(<<i, 1>>, "processing") /\ Begins(i, <<i, 1>>)
             /\ ix' = [ix EXCEPT ![i].pc = "clear", ![i].doc = <<i, 1>>]
    <3>1. ix'[i].pc = "clear" /\ ix'[i].doc = <<i, 1>> /\ \A k \in Indexers : k # i => ix'[k] = ix[k]
      BY <1>0, <2>2 DEF Indexer
    <3> QED BY <1>5, <1>9, <2>0, <2>2, <3>1
  <2> QED BY <1>9, <2>1, <2>2, Zenon DEF TakeFile
<1>10. ASSUME HasRow(d), Ask PROVE Undisturbed(d)'
  <2>1. ASSUME NEW c \in Crawls, NEW mode, StartCrawl(c, mode) PROVE Undisturbed(d)'
    <3>1. UNCHANGED <<doc, chunks, disturbed>> /\ ix' = [ix EXCEPT ![c].pc = "checked", ![c].mode = mode]
      BY <2>1 DEF StartCrawl, tables
    <3>2. \A k \in Indexers : Indexes(k, d)' => Indexes(k, d) /\ ix'[k] = ix[k]
      BY <1>0, <3>1 DEF Indexes, Indexing, Indexers, Indexer
    <3> QED BY <1>2, <1>10, <3>1, <3>2
  <2>2. ASSUME NEW f \in Files, Upload(f) PROVE Undisturbed(d)'
    <3>1. UNCHANGED <<doc, chunks, disturbed>> /\ ix' = [ix EXCEPT ![f].pc = "rowed"]
      BY <2>2 DEF Upload, Goto
    <3>2. \A k \in Indexers : Indexes(k, d)' => Indexes(k, d) /\ ix'[k] = ix[k]
      BY <1>0, <3>1 DEF Indexes, Indexing, Indexers, Indexer
    <3> QED BY <1>2, <1>10, <3>1, <3>2
  <2>3. ASSUME NEW k \in Docs, DeleteDocument(k) PROVE Undisturbed(d)'
    <3>1. Remove(k) /\ UNCHANGED ix
      BY <2>3 DEF DeleteDocument
    <3>2. k # d
      BY <1>0, <3>1 DEF Remove, NoRow, HasRow
    <3>3. chunks'[d] = chunks[d] /\ doc'[d] = doc[d] /\ d \notin disturbed
      BY <1>0, <3>1, <3>2 DEF Remove
    <3> QED BY <1>2, <1>10, <3>1, <3>3 DEF Indexes
  <2>4. ASSUME NEW k \in Docs, ClearExcluded(k) PROVE Undisturbed(d)'
    <3>1. /\ chunks' = [chunks EXCEPT ![k] = NoChunks] /\ disturbed' = disturbed \cup {k}
          /\ UNCHANGED <<doc, ix>>
      BY <2>4 DEF ClearExcluded
    <3>2. chunks'[d] = chunks[d] /\ d \notin disturbed
      BY <1>0, <3>1
    <3> QED BY <1>2, <1>10, <3>1, <3>2 DEF Indexes
  <2>5. ASSUME NEW e \in Edits, NEW t \in Texts, NEW v \in Versions, EditText(e, t, v) PROVE Undisturbed(d)'
    <3>1. /\ SetStatus(<<t, 1>>, "processing") /\ Begins(e, <<t, 1>>) /\ UNCHANGED chunks
          /\ ix' = [ix EXCEPT ![e].pc = "clear", ![e].doc = <<t, 1>>, ![e].ver = v]
      BY <2>5 DEF EditText
    <3>2. e \in Indexers /\ <<t, 1>> \in Docs
      BY DocKinds DEF Indexers
    <3>3. ix'[e].pc = "clear" /\ ix'[e].doc = <<t, 1>> /\ \A k \in Indexers : k # e => ix'[k] = ix[k]
      BY <1>0, <3>1, <3>2 DEF Indexer
    <3> QED BY <1>5, <1>10, <3>1, <3>2, <3>3
  <2> QED BY <1>10, <2>1, <2>2, <2>3, <2>4, <2>5 DEF Ask
<1>11. ASSUME HasRow(d), SetExcluded PROVE Undisturbed(d)'
  <2>1. UNCHANGED <<chunks, ix, disturbed>> /\ (UNCHANGED doc \/ SetStatus(excluding, "excluded"))
    BY <1>11 DEF SetExcluded
  <2>2. doc'[d] = doc[d] \/ doc'[d].status # "completed"
    BY <1>0, <2>1, StatusSet DEF SetStatus
  <2> QED BY <1>2, <1>11, <2>1, <2>2 DEF Indexes
<1>12. ASSUME HasRow(d), Restart PROVE Undisturbed(d)'
  <2>1. UNCHANGED <<doc, chunks, disturbed>> /\ \A k \in Indexers : ix'[k] = AfterRestart(k)
    BY <1>12 DEF Restart, tables
  <2>2. \A k \in Indexers : ~Indexes(k, d)'
    BY <2>1, RestartFits DEF Indexes, Indexing
  <2> QED BY <1>2, <1>12, <2>1, <2>2
<1>13. ASSUME HasRow(d), (\E p \in Pages : SiteChanges(p)) \/ UNCHANGED vars PROVE Undisturbed(d)'
  <2>1. UNCHANGED <<doc, chunks, disturbed, ix>>
    BY <1>13, Zenon DEF SiteChanges, vars, tables, history
  <2> QED BY <1>2, <1>13, <2>1 DEF Indexes
<1>14. ASSUME HasRow(d), NEW i \in Indexers, Work(i) \/ WriteFails(i) \/ CrawlTimesOut(i)
       PROVE  Undisturbed(d)'
  BY <1>4, <1>6, <1>8, <1>9, <1>14, Zenon DEF Work, Keeping
<1> QED BY <1>3, <1>10, <1>11, <1>12, <1>13, <1>14, Zenon DEF Next

-----------------------------------------------------------------------------
(* A page has one document, while crawls do not overlap *)

LEMMA OverlapStays == [Next]_vars /\ overlapped => overlapped'
BY OtherChanges DEF BeginCrawl

\* A crawl comes to work only by its beginning.
LEMMA ComesToWork ==
    ASSUME Shapes, [Next]_vars, NEW c \in Crawls, ix'[c].pc \in AtCrawl
    PROVE  ix[c].pc \in AtCrawl \/ BeginCrawl(c)
<1>0. ix \in [Indexers -> Indexer] /\ c \in Indexers /\ CrawlFits(ix[c])
  BY DEF Shapes, IndexersFit, Fits, Indexers
<1>1. CASE ix'[c] = ix[c]
  BY <1>1
<1>2. ASSUME NEW i \in Indexers, Work(i) \/ WriteFails(i) \/ CrawlTimesOut(i), ix'[c] # ix[c]
      PROVE  ix[c].pc \in AtCrawl \/ BeginCrawl(c)
  <2>1. i = c
    BY <1>0, <1>2, EachMoves DEF Moves
  <2>2. CASE CreateJob(c) \/ Enqueue(c) \/ CompleteRow(c) \/ FailRow(c)
    <3>1. \E pc \in {"created", "waiting", "ended", "threw"} : Goto(c, pc)
      BY <2>2 DEF CreateJob, Enqueue, CompleteRow, FailRow
    <3>2. FailRow(c) => Goto(c, "ended")
      BY DEF FailRow
    <3>3. ~FailRow(c) => ~Goto(c, "threw")
      BY <1>0, <2>2 DEF CreateJob, Enqueue, CompleteRow, Goto, Indexer
    <3>4. \E pc \in {"created", "waiting", "ended"} : Goto(c, pc)
      BY <3>1, <3>2, <3>3
    <3>5. ix'[c].pc \in {"created", "waiting", "ended"}
      BY <1>0, <3>4 DEF Goto, Indexer
    <3> QED BY <3>5 DEF AtCrawl, AtWork
  <2>3. CASE ~(CreateJob(c) \/ Enqueue(c) \/ CompleteRow(c) \/ FailRow(c) \/ BeginCrawl(c))
    <3>1. \/ Clear(c) \/ Insert(c) \/ FinishDocument(c) \/ FailDocument(c) \/ WriteFails(c)
          \/ Fetch(c) \/ LookUp(c) \/ TouchPage(c) \/ TakePage(c) \/ FindOrphans(c)
          \/ DeleteOrphan(c) \/ CrawlTimesOut(c) \/ CreateDocument(c) \/ BeginIngest(c)
          \/ TakeFile(c) \/ Retry(c) \/ FinishJob(c)
      BY <1>2, <2>1, <2>3, Zenon DEF Work
    <3>2. \/ ix[c].pc \in AtCrawl /\ ix'[c].pc \in AtCrawl
          \/ ix[c].pc = "ended" /\ ix'[c].pc = "done"
      BY <1>0, <3>1, StaysAtWork, Zenon
    <3> QED BY <3>2 DEF AtCrawl, AtWork
  <2> QED BY <2>2, <2>3
<1>3. CASE Ask
  <2>1. ASSUME NEW b \in Crawls, NEW mode, StartCrawl(b, mode)
        PROVE  ix'[c] = ix[c] \/ ix'[c].pc = "checked"
    BY <1>0, <2>1 DEF StartCrawl, Indexer
  <2>2. ASSUME NEW f \in Files, Upload(f) PROVE ix'[c] = ix[c]
    BY <1>0, <2>2, KindOf DEF Upload, Goto
  <2>3. ASSUME NEW d \in Docs, DeleteDocument(d) \/ ClearExcluded(d) PROVE ix'[c] = ix[c]
    BY <2>3 DEF DeleteDocument, ClearExcluded
  <2>4. ASSUME NEW e \in Edits, NEW t, NEW v, EditText(e, t, v) PROVE ix'[c] = ix[c]
    BY <1>0, <2>4, KindOf DEF EditText
  <2>5. ix'[c] = ix[c] \/ ix'[c].pc = "checked"
    BY <1>3, <2>1, <2>2, <2>3, <2>4, Zenon DEF Ask
  <2> QED BY <1>1, <2>5 DEF AtCrawl, AtWork
<1>4. CASE Restart
  BY <1>0, <1>4, RestartFits DEF Restart, AtCrawl, AtWork
<1>5. CASE SetExcluded \/ (\E p \in Pages : SiteChanges(p)) \/ UNCHANGED vars
  <2>1. UNCHANGED ix
    BY <1>5, Zenon DEF SetExcluded, SiteChanges, vars
  <2> QED BY <1>1, <2>1
<1> QED BY <1>1, <1>2, <1>3, <1>4, <1>5, Zenon DEF Next

LEMMA StepAtWork ==
    ASSUME Shapes, OneAtWork, [Next]_vars, ~overlapped'
    PROVE  OneAtWork'
<1>0. ix \in [Indexers -> Indexer] /\ \A c \in Crawls : c \in Indexers
  BY DEF Shapes, IndexersFit, Indexers
<1>1. ASSUME NEW b \in Crawls, NEW c \in Crawls, b # c, BeginCrawl(c)
      PROVE  ix'[b].pc \notin AtCrawl
  <2>1. ix'[b] = ix[b]
    BY <1>0, <1>1 DEF BeginCrawl
  <2>2. overlapped' = (overlapped \/ \E k \in Crawls \ {c} : ix[k].pc \in AtCrawl)
    BY <1>1 DEF BeginCrawl, AtCrawl
  <2> QED BY <1>1, <2>1, <2>2
<1>2. ASSUME NEW b \in Crawls, NEW c \in Crawls, ix'[b].pc \in AtCrawl, ix'[c].pc \in AtCrawl
      PROVE  b = c
  <2>1. ix[b].pc \in AtCrawl \/ BeginCrawl(b)
    BY <1>2, ComesToWork
  <2>2. ix[c].pc \in AtCrawl \/ BeginCrawl(c)
    BY <1>2, ComesToWork
  <2> QED BY <1>1, <1>2, <2>1, <2>2 DEF OneAtWork
<1> QED BY <1>2 DEF OneAtWork

\* A crawl that creates the row of a page has found that the page has none.
LEMMA TakesNewPage ==
    ASSUME Shapes, NEW c \in Crawls, TakePage(c), ix[c].doc[2] = 0
    PROVE  ix[c].pc = "take" /\ \E p \in Pages : ix[c].doc = <<p, 0>>
<1>1. ix[c].pc = "take" /\ CrawlFits(ix[c])
  BY DEF TakePage, At, Shapes, IndexersFit, Fits, Indexers
<1>2. ix[c].doc \in NewPages
  BY <1>1, DocKinds DEF CrawlFits
<1> QED BY <1>1, <1>2 DEF NewPages

LEMMA OnlyCopy ==
    ASSUME NEW d \in Docs, NEW x \in Files \cup Texts, Item(d) = x
    PROVE  d = <<x, 1>>
BY IndexSets DEF Docs, Item

LEMMA StepOneRows ==
    ASSUME Shapes, OneRow, NewIsNew, [Next]_vars
    PROVE  OneRow'
<1>1. ASSUME NEW d \in Docs, NEW e \in Docs, Item(d) = Item(e), HasRow(d)', HasRow(e)', ~HasRow(d)
      PROVE  d = e
  <2>1. doc'[d] # doc[d]
    BY <1>1 DEF HasRow
  <2>2. d # e => HasRow(e)
    <3>1. doc \in [Docs -> DocRow]
      BY DEF Shapes
    <3>2. d # e => doc'[e] = doc[e]
      BY <2>1, <3>1, DocStep
    <3> QED BY <1>1, <3>2 DEF HasRow
  <2>3. CASE \E x \in Files \cup Texts : d = <<x, 1>>
    <3>1. PICK x \in Files \cup Texts : d = <<x, 1>>
      BY <2>3
    <3>2. Item(e) = x
      BY <1>1, <3>1 DEF Item
    <3> QED BY <3>1, <3>2, OnlyCopy
  <2>4. ASSUME NEW c \in Crawls, TakePage(c), ix[c].doc[2] = 0, d \in FreeCopies(Item(ix[c].doc))
        PROVE  d = e
    <3>1. PICK p \in Pages : At(c, "take") /\ ix[c].doc = <<p, 0>>
      BY <2>4, TakesNewPage DEF At
    <3>2. CopiesOf(p) = {}
      BY <3>1 DEF NewIsNew
    <3>3. Item(d) = p
      BY <2>4, <3>1 DEF FreeCopies, Item
    <3>4. ~HasRow(e)
      BY <1>1, <3>2, <3>3 DEF CopiesOf
    <3> QED BY <2>2, <3>4
  <2> QED BY <1>1, <2>3, <2>4, RowAppears
<1>2. ASSUME NEW d \in Docs, NEW e \in Docs, Item(d) = Item(e), HasRow(d)', HasRow(e)'
      PROVE  d = e
  <2>1. CASE HasRow(d) /\ HasRow(e)
    BY <1>2, <2>1 DEF OneRow
  <2> QED BY <1>1, <1>2, <2>1
<1> QED BY <1>2 DEF OneRow, Item

\* A crawl is about to create the row of a page: it has just looked for one, or
\* has stood there before the step.
LEMMA TakesNew ==
    ASSUME Shapes, [Next]_vars, NEW c \in Crawls, NEW p \in Pages,
           ix'[c].pc = "take", ix'[c].doc = <<p, 0>>
    PROVE  ix'[c] = ix[c] \/ (UNCHANGED doc /\ CopiesOf(p) = {})
<1>0. ix \in [Indexers -> Indexer] /\ c \in Indexers /\ ix[c] \in Indexer /\ c \notin Files
  BY KindOf DEF Shapes, IndexersFit, Indexers
<1>1. ASSUME NEW i \in Indexers, Work(i) \/ WriteFails(i) \/ CrawlTimesOut(i), ix'[c] # ix[c]
      PROVE  UNCHANGED doc /\ CopiesOf(p) = {}
  <2>1. i = c
    BY <1>0, <1>1, EachMoves DEF Moves
  <2>2. ~Keeping(c)
    BY <1>0, KeepingKeeps DEF Keeps
  <2>3. ~FindOrphans(c)
    BY <1>0 DEF FindOrphans, Indexer
  <2>4. ~TakePage(c)
    BY <1>0 DEF TakePage, Goto, Indexer
  <2>5. ~TakeFile(c)
    BY <1>0, StepsOfFiles DEF TakeFile, At, Shapes
  <2>6. LookUp(c)
    BY <1>1, <2>1, <2>2, <2>3, <2>4, <2>5, Zenon DEF Work, Keeping
  <2>7. PICK r \in Indexer, q \in Pages :
          /\ r.pc # "next" =>
                \/ r.pc = "take" /\ r.doc = <<q, 0>> /\ CopiesOf(q) = {}
                \/ r.doc \in CopiesOf(q) /\ doc[r.doc].status # "excluded"
          /\ ix' = [ix EXCEPT ![c] = r]
    BY <1>0, <2>6, LookUpStep, Zenon
  <2>8. r.pc = "take" /\ r.doc = <<p, 0>>
    BY <1>0, <2>7
  <2>9. <<p, 0>> \notin Docs
    BY DocKinds DEF NewPages
  <2>10. p = q /\ CopiesOf(q) = {}
    BY <2>7, <2>8, <2>9 DEF CopiesOf
  <2> QED BY <2>6, <2>10 DEF LookUp, tables
<1>2. CASE Ask
  <2>1. ASSUME NEW b \in Crawls, NEW mode, StartCrawl(b, mode) PROVE ix'[c] = ix[c]
    BY <1>0, <2>1 DEF StartCrawl, Indexer
  <2>2. ASSUME NEW f \in Files, Upload(f) PROVE ix'[c] = ix[c]
    BY <1>0, <2>2, KindOf DEF Upload, Goto
  <2>3. ASSUME NEW d \in Docs, DeleteDocument(d) \/ ClearExcluded(d) PROVE ix'[c] = ix[c]
    BY <2>3 DEF DeleteDocument, ClearExcluded
  <2>4. ASSUME NEW e \in Edits, NEW t, NEW v, EditText(e, t, v) PROVE ix'[c] = ix[c]
    BY <1>0, <2>4, KindOf DEF EditText
  <2> QED BY <1>2, <2>1, <2>2, <2>3, <2>4, Zenon DEF Ask
<1>3. CASE Restart
  BY <1>0, <1>3, RestartFits DEF Restart
<1>4. CASE SetExcluded \/ (\E q \in Pages : SiteChanges(q)) \/ UNCHANGED vars
  <2>1. UNCHANGED ix
    BY <1>4, Zenon DEF SetExcluded, SiteChanges, vars
  <2> QED BY <2>1
<1> QED BY <1>1, <1>2, <1>3, <1>4, Zenon DEF Next

LEMMA StepNewIsNew ==
    ASSUME Shapes, OneAtWork, NewIsNew, [Next]_vars
    PROVE  NewIsNew'
<1> SUFFICES ASSUME NEW c \in Crawls, NEW p \in Pages, ix'[c].pc = "take", ix'[c].doc = <<p, 0>>,
                    NEW d \in Docs, Item(d) = p, HasRow(d)'
             PROVE  FALSE
  BY DEF NewIsNew, At, CopiesOf, Item
<1>1. CASE UNCHANGED doc /\ CopiesOf(p) = {}
  BY <1>1 DEF CopiesOf, HasRow
<1>2. CASE ix'[c] = ix[c]
  <2>1. ix[c].pc = "take" /\ CopiesOf(p) = {}
    BY <1>2 DEF NewIsNew, At
  <2>2. ~HasRow(d)
    BY <2>1 DEF CopiesOf
  <2>3. \A x \in Files \cup Texts : d # <<x, 1>>
    BY IndexSets DEF Item
  <2>4. PICK b \in Crawls : TakePage(b)
    BY <2>2, <2>3, RowAppears
  <2>5. b = c
    BY <2>1, <2>4 DEF OneAtWork, TakePage, At, AtCrawl, AtWork
  <2>6. ix'[c].pc # "take"
    BY <2>4, <2>5 DEF TakePage, Goto, Shapes, IndexersFit, Indexer, Indexers
  <2> QED BY <2>6
<1> QED BY <1>1, <1>2, TakesNew

LEMMA StepOneRow == Shapes /\ OneRowInv /\ [Next]_vars => OneRowInv'
<1> SUFFICES ASSUME Shapes, OneRowInv, [Next]_vars, ~overlapped'
             PROVE  OneAtWork' /\ OneRow' /\ NewIsNew'
  BY DEF OneRowInv
<1>1. OneAtWork /\ OneRow /\ NewIsNew
  BY OverlapStays DEF OneRowInv
<1> QED BY <1>1, StepAtWork, StepOneRows, StepNewIsNew

LEMMA InitIndexed == Init => ContentInv /\ OneRowInv
<1> SUFFICES ASSUME Init PROVE ContentInv /\ OneRowInv
  OBVIOUS
<1>1. \A i \in Indexers : ix[i].pc = "none"
  BY DEF Init, NewIndexer
<1>2. ASSUME NEW d \in Docs, HasRow(d)
      PROVE  d[2] = 1 /\ doc[d].hash = 1 /\ chunks[d] = ChunksOf(1)
  BY <1>2 DEF Init, HasRow, NoRow
<1>3. ContentInv
  BY <1>1, <1>2 DEF ContentInv, Undisturbed, Indexes, Indexing
<1>4. OneAtWork /\ NewIsNew
  BY <1>1 DEF OneAtWork, NewIsNew, AtCrawl, AtWork, Indexers, At
<1>5. OneRow
  BY <1>2 DEF OneRow, Item, Docs
<1> QED BY <1>3, <1>4, <1>5 DEF OneRowInv

\* The chunks of a completed document are those of one content, each once,
\* unless somebody else has touched the document since its indexing began; and a
\* page has one document, unless two crawls overlapped.
THEOREM IndexedTheorem == Spec => []CompletedIsIndexed
<1> DEFINE Inv == Shapes /\ NoRowYet /\ ContentInv /\ OneRowInv
<1>1. Init => Inv
  BY InitShapes, InitNoRowYet, InitIndexed
<1>2. Inv /\ [Next]_vars => Inv'
  BY StepShapes, StepNoRowYet, StepContent, StepOneRow
<1>3. Inv => CompletedIsIndexed
  <2> SUFFICES ASSUME Inv PROVE CompletedIsIndexed
    OBVIOUS
  <2>1. ASSUME NEW d \in Docs \ disturbed, doc[d].status = "completed"
        PROVE  chunks[d] = ChunksOf(doc[d].hash)
    BY <2>1 DEF ContentInv, HasRow, Undisturbed
  <2>2. overlapped \/ OneRow
    BY DEF OneRowInv
  <2> QED BY <2>1, <2>2 DEF CompletedIsIndexed, OneRow
<1> QED BY <1>1, <1>2, <1>3, PTL DEF Spec
=============================================================================
