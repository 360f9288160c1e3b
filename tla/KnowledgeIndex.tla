--------------------------- MODULE KnowledgeIndex ---------------------------
(***************************************************************************)
(* The knowledge of one source: the pages of its site, which crawls index, *)
(* files, which an ingest job indexes, and texts, which the owner's        *)
(* request indexes itself.  All three clear a document's chunks and insert *)
(* the new ones one by one, without a transaction; meanwhile the owner     *)
(* excludes and deletes documents.                                         *)
(*                                                                         *)
(* A job is split at its awaits.  What a page says is its version; a file  *)
(* or a text has the version it was uploaded or edited with.               *)
(***************************************************************************)
EXTENDS Naturals, FiniteSets

CONSTANTS
    Pages, Files, Texts,  \* what documents are made of
    Crawls, Edits,        \* crawl jobs and edits of a text; a file is its ingest job
    Parts,                \* chunks of a document
    Copies,               \* bound: documents with the same url
    Attempts,             \* of an ingest job
    MaxVersion,           \* bound: versions of a content
    MaxRequests,          \* bound: requests of the owner
    Faults,
    MaxEvents             \* bound: changes of the site and faults together

FaultKinds == {"restart", "write_fails"}

ASSUME IndexSets ==
    /\ Pages \cap Files = {} /\ Pages \cap Texts = {} /\ Files \cap Texts = {}
    /\ Crawls \cap Files = {} /\ Crawls \cap Edits = {} /\ Files \cap Edits = {}

ASSUME IndexBounds ==
    /\ Parts \in Nat \ {0} /\ Copies \in Nat \ {0} /\ Attempts \in Nat \ {0}
    /\ MaxVersion \in Nat \ {0} /\ MaxRequests \in Nat
    /\ Faults \subseteq FaultKinds /\ MaxEvents \in Nat

VARIABLES
    site,        \* version of each page, or Gone
    doc,         \* KnowledgeDocument: status and contentHash
    chunks,      \* KnowledgeChunk: rows of each version and part of a document
    row,         \* IndexingJob.status
    ix,          \* crawls, ingest jobs and edits: the step each has reached
    excluding,   \* excludeDocument has deleted the chunks of this document
    spent,       \* what is used up of each bound
    raced,       \* history: two requests passed assertNoRunningJob together
    overlapped,  \* history: a crawl began while another was at work
    disturbed,   \* history: documents whose chunks another has touched since
                 \* their last indexing began
    late         \* history: who was at work on a document when it was excluded

tables  == <<doc, chunks, row>>
history == <<raced, overlapped, disturbed, late>>
vars    == <<site, tables, ix, excluding, spent, history>>

Gone     == 0
Versions == 1..MaxVersion
Docs     == (Pages \X (1..Copies)) \cup ((Files \cup Texts) \X {1})
NoDoc    == <<"none", 0>>
Item(d)  == d[1]
Indexers == Crawls \cup Files \cup Edits
Jobs     == Crawls \cup Files

\* maxStalledCount of a BullMQ worker
MaxStalled == 1

AtWork   == {"fetch", "next", "touch", "take", "start", "clear", "insert", "finish",
             "broken", "sweep", "end", "erred", "threw", "ended"}
IndexPc  == AtWork \cup {"none", "checked", "rowed", "created", "waiting", "done", "failed", "lost"}
\* between the update to `processing` and the one to `completed` or `failed`
Indexing == {"clear", "insert", "finish", "broken"}

NewIndexer == [pc |-> "none", mode |-> "full", found |-> [p \in Pages |-> Gone],
               todo |-> {}, doc |-> NoDoc, ver |-> 1, part |-> 1, good |-> FALSE,
               orphans |-> {}, tries |-> 0, stalls |-> 0]

TypeOK ==
    /\ site \in [Pages -> {Gone} \cup Versions]
    /\ doc \in [Docs -> [status : {"none", "pending", "processing", "completed", "failed", "excluded"},
                         hash : {0} \cup Versions]]
    /\ chunks \in [Docs -> [Versions \X (1..Parts) -> Nat]]
    /\ \A d \in Docs : doc[d].status = "none" => \A x \in DOMAIN chunks[d] : chunks[d][x] = 0
    /\ row \in [Jobs -> {"none", "queued", "running", "completed", "failed"}]
    /\ \A i \in Indexers :
          /\ ix[i].pc \in IndexPc /\ ix[i].mode \in {"full", "incremental"}
          /\ ix[i].pc \in Indexing => ix[i].doc \in Docs
          /\ ix[i].orphans \subseteq Docs /\ ix[i].todo \subseteq Pages
          /\ ix[i].tries \in 0..Attempts /\ ix[i].stalls \in 0..MaxStalled
    /\ excluding \in Docs \cup {NoDoc}
    /\ raced \in BOOLEAN /\ overlapped \in BOOLEAN /\ disturbed \subseteq Docs
    /\ late \in [Docs -> SUBSET Indexers]

NoChunks == [x \in Versions \X (1..Parts) |-> 0]
ChunksOf(v) == [x \in Versions \X (1..Parts) |-> IF x[1] = v THEN 1 ELSE 0]

NoRow == [status |-> "none", hash |-> 0]
HasRow(d) == doc[d].status # "none"

\* A first crawl has indexed the site, and texts were added.
Init ==
    /\ site = [p \in Pages |-> 1]
    /\ doc = [d \in Docs |-> IF Item(d) \notin Files /\ d[2] = 1
                             THEN [status |-> "completed", hash |-> 1] ELSE NoRow]
    /\ chunks = [d \in Docs |-> IF HasRow(d) THEN ChunksOf(1) ELSE NoChunks]
    /\ row = [j \in Jobs |-> "none"]
    /\ ix = [i \in Indexers |-> NewIndexer]
    /\ excluding = NoDoc
    /\ spent = [b \in {"requests", "events"} |-> 0]
    /\ raced = FALSE /\ overlapped = FALSE /\ disturbed = {}
    /\ late = [d \in Docs |-> {}]

Spend(b, max) == spent[b] < max /\ spent' = [spent EXCEPT ![b] = @ + 1]
Request == Spend("requests", MaxRequests)
Fault(kind) == kind \in Faults /\ Spend("events", MaxEvents)

At(i, pc)   == ix[i].pc = pc
Goto(i, pc) == ix' = [ix EXCEPT ![i].pc = pc]
SetStatus(d, s) == doc' = [doc EXCEPT ![d].status = s]
SetRow(j, s) == row' = [row EXCEPT ![j] = s]

\* who reads or writes document d
Holds(i, d) ==
    \/ ix[i].pc \in Indexing \cup {"touch", "take"} /\ ix[i].doc = d
    \/ d \in ix[i].orphans
    \/ i \in Files /\ i = Item(d) /\ ix[i].pc \notin {"none", "done", "failed", "lost"}

\* an id for a new row; one that somebody still works with is not given again
Unused(d) == ~HasRow(d) /\ excluding # d /\ \A i \in Indexers : ~Holds(i, d)

\* an indexing of d begins
Begins(i, d) ==
    disturbed' = IF \E k \in Indexers \ {i} : ix[k].pc \in Indexing /\ ix[k].doc = d
                 THEN disturbed \cup {d} ELSE disturbed \ {d}

\* the row of document d goes, its chunks with it (onDelete: Cascade)
Remove(d) ==
    /\ doc' = [doc EXCEPT ![d] = NoRow]
    /\ chunks' = [chunks EXCEPT ![d] = NoChunks]
    /\ disturbed' = disturbed \ {d}

SiteChanges(p) ==
    /\ site[p] # Gone /\ Spend("events", MaxEvents)
    /\ \E v \in {Gone} \cup Versions : (v = Gone \/ v > site[p]) /\ site' = [site EXCEPT ![p] = v]
    /\ UNCHANGED <<tables, ix, excluding, history>>

-----------------------------------------------------------------------------
(* Requests: knowledge.service.ts *)

\* *Mutant:* a queued job is not seen
NoStartedJob == \A j \in Jobs : row[j] # "running"

NoRunningJob == \A j \in Jobs : row[j] \notin {"queued", "running"}

\* startCrawl, startReindex up to assertNoRunningJob
StartCrawl(c, mode) ==
    /\ At(c, "none") /\ NoRunningJob /\ Request
    /\ ix' = [ix EXCEPT ![c].pc = "checked", ![c].mode = mode]
    /\ raced' = (raced \/ \E b \in Jobs : At(b, "checked"))
    /\ UNCHANGED <<site, tables, excluding, overlapped, disturbed, late>>

CreateJob(c) ==
    /\ c \in Crawls /\ At(c, "checked")
    /\ SetRow(c, "queued")
    /\ Goto(c, "created")
    /\ UNCHANGED <<site, doc, chunks, excluding, spent, history>>

\* uploadDocument: the job's row
Upload(f) ==
    /\ At(f, "none") /\ Request
    /\ SetRow(f, "queued")
    /\ Goto(f, "rowed")
    /\ raced' = (raced \/ \E c \in Crawls : At(c, "checked"))
    /\ UNCHANGED <<site, doc, chunks, excluding, overlapped, disturbed, late>>

\* uploadDocument: the document's row
CreateDocument(f) ==
    /\ f \in Files /\ At(f, "rowed")
    /\ SetStatus(<<f, 1>>, "pending")
    /\ Goto(f, "created")
    /\ UNCHANGED <<site, chunks, row, excluding, spent, history>>

\* crawlQueue.add, ingestQueue.add
Enqueue(j) ==
    /\ j \in Jobs /\ At(j, "created")
    /\ Goto(j, "waiting")
    /\ UNCHANGED <<site, tables, excluding, spent, history>>

DeleteDocument(d) ==
    /\ HasRow(d) /\ Request
    /\ Remove(d)
    /\ UNCHANGED <<site, row, ix, excluding, raced, overlapped, late>>

\* excludeDocument: the chunks
ClearExcluded(d) ==
    /\ HasRow(d) /\ excluding = NoDoc /\ Request
    /\ chunks' = [chunks EXCEPT ![d] = NoChunks]
    /\ excluding' = d
    /\ disturbed' = disturbed \cup {d}
    /\ UNCHANGED <<site, doc, row, ix, raced, overlapped, late>>

\* excludeDocument: the status, unless the row is gone
SetExcluded ==
    /\ excluding # NoDoc
    /\ excluding' = NoDoc
    /\ IF HasRow(excluding)
       THEN /\ SetStatus(excluding, "excluded")
            /\ late' = [late EXCEPT ![excluding] = {i \in Indexers : Holds(i, excluding)}]
       ELSE UNCHANGED <<doc, late>>
    /\ UNCHANGED <<site, chunks, row, ix, spent, raced, overlapped, disturbed>>

\* addManualText, updateManualText up to the indexing
EditText(e, t, v) ==
    /\ At(e, "none") /\ Request
    /\ HasRow(<<t, 1>>) \/ Unused(<<t, 1>>)
    /\ SetStatus(<<t, 1>>, "processing")
    /\ ix' = [ix EXCEPT ![e].pc = "clear", ![e].doc = <<t, 1>>, ![e].ver = v]
    /\ Begins(e, <<t, 1>>)
    /\ UNCHANGED <<site, chunks, row, excluding, raced, overlapped, late>>

-----------------------------------------------------------------------------
(* indexing-pipeline.service.ts: indexDocumentContent *)

\* *Mutant:* the chunks of the last indexing are left
ClearKeepsChunks(i) ==
    /\ At(i, "clear")
    /\ ix' = [ix EXCEPT ![i].pc = "insert", ![i].part = 1]
    /\ UNCHANGED <<site, tables, excluding, spent, history>>

Clear(i) ==
    LET d == ix[i].doc IN
    /\ At(i, "clear")
    /\ chunks' = [chunks EXCEPT ![d] = NoChunks]
    /\ ix' = [ix EXCEPT ![i].pc = "insert", ![i].part = 1]
    /\ UNCHANGED <<site, doc, row, excluding, spent, history>>

\* one chunk; a document that is gone breaks the foreign key
Insert(i) ==
    LET d == ix[i].doc IN
    /\ At(i, "insert")
    /\ IF HasRow(d)
       THEN /\ chunks' = [chunks EXCEPT ![d][<<ix[i].ver, ix[i].part>>] = @ + 1]
            /\ IF ix[i].part = Parts THEN Goto(i, "finish")
               ELSE ix' = [ix EXCEPT ![i].part = @ + 1]
       ELSE Goto(i, "broken") /\ UNCHANGED chunks
    /\ UNCHANGED <<site, doc, row, excluding, spent, history>>

\* a statement of the indexing fails
WriteFails(i) ==
    /\ Fault("write_fails")
    /\ ix[i].pc \in {"clear", "insert", "finish"}
    /\ Goto(i, "broken")
    /\ UNCHANGED <<site, tables, excluding, history>>

\* where a job or an edit goes on after its document is done, or has failed
Indexed(i, ok) ==
    IF i \in Crawls THEN [ix[i] EXCEPT !.pc = "next", !.good = @ \/ ok]
    ELSE [ix[i] EXCEPT !.pc = IF i \in Edits THEN "done" ELSE IF ok THEN "end" ELSE "erred"]

\* the update to `completed`, whatever the status is by now
FinishDocument(i) ==
    LET d == ix[i].doc IN
    /\ At(i, "finish")
    /\ IF HasRow(d)
       THEN /\ doc' = [doc EXCEPT ![d] = [status |-> "completed", hash |-> ix[i].ver]]
            /\ ix' = [ix EXCEPT ![i] = Indexed(i, TRUE)]
       ELSE Goto(i, "broken") /\ UNCHANGED doc
    /\ UNCHANGED <<site, chunks, row, excluding, spent, history>>

\* the catch: the update to `failed`, which throws when the row is gone
FailDocument(i) ==
    LET d == ix[i].doc IN
    /\ At(i, "broken")
    /\ IF HasRow(d)
       THEN SetStatus(d, "failed") /\ ix' = [ix EXCEPT ![i] = Indexed(i, FALSE)]
       ELSE /\ UNCHANGED doc
            /\ Goto(i, IF i \in Crawls THEN "erred" ELSE IF i \in Files THEN "threw" ELSE "done")
    /\ UNCHANGED <<site, chunks, row, excluding, spent, history>>

-----------------------------------------------------------------------------
(* crawl-site.processor.ts *)

BeginCrawl(c) ==
    /\ c \in Crawls /\ At(c, "waiting")
    /\ SetRow(c, "running")
    /\ ix' = [ix EXCEPT ![c].pc = "fetch", ![c].good = FALSE]
    /\ overlapped' = (overlapped \/ \E b \in Crawls \ {c} : ix[b].pc \in AtWork \ {"ended"})
    /\ UNCHANGED <<site, doc, chunks, excluding, spent, raced, disturbed, late>>

\* crawlSite: what it could not fetch, or skipped, is not among the pages
Fetch(c) ==
    /\ At(c, "fetch")
    /\ \E reached \in SUBSET {p \in Pages : site[p] # Gone} :
          ix' = [ix EXCEPT ![c].pc = IF reached = {} THEN "erred" ELSE "next",
                           ![c].todo = reached,
                           ![c].found = [p \in Pages |-> IF p \in reached THEN site[p] ELSE Gone]]
    /\ UNCHANGED <<site, tables, excluding, spent, history>>

CopiesOf(p)  == {d \in Docs : Item(d) = p /\ HasRow(d)}
FreeCopies(p) == {d \in Docs : Item(d) = p /\ Unused(d)}

\* *Mutant:* the status is not looked at
LookUpAnyStatus(c) ==
    /\ At(c, "next")
    /\ \E p \in ix[c].todo : \E d \in CopiesOf(p) :
          ix' = [ix EXCEPT ![c].pc = "take", ![c].doc = d, ![c].todo = @ \ {p},
                           ![c].ver = ix[c].found[p]]
    /\ UNCHANGED <<site, tables, excluding, spent, history>>

\* findFirst of the next page: an excluded document is passed over, a completed
\* one with the same hash is only touched by an incremental crawl
LookUp(c) ==
    /\ At(c, "next")
    /\ \E p \in ix[c].todo :
          LET next == [ix[c] EXCEPT !.todo = @ \ {p}, !.ver = ix[c].found[p]] IN
          \/ /\ CopiesOf(p) = {}
             /\ ix' = [ix EXCEPT ![c] = [next EXCEPT !.pc = "take", !.doc = <<p, 0>>]]
          \/ \E d \in CopiesOf(p) :
                ix' = [ix EXCEPT ![c] =
                         IF doc[d].status = "excluded" THEN [next EXCEPT !.good = TRUE]
                         ELSE IF ix[c].mode = "incremental" /\ doc[d].status = "completed"
                                   /\ doc[d].hash = ix[c].found[p]
                         THEN [next EXCEPT !.pc = "touch", !.doc = d]
                         ELSE [next EXCEPT !.pc = "take", !.doc = d]]
    /\ UNCHANGED <<site, tables, excluding, spent, history>>

\* jobId and indexedAt of a page that has not changed
TouchPage(c) ==
    /\ At(c, "touch")
    /\ IF HasRow(ix[c].doc) THEN ix' = [ix EXCEPT ![c] = Indexed(c, TRUE)]
       ELSE Goto(c, "erred")
    /\ UNCHANGED <<site, tables, excluding, spent, history>>

\* the update to `processing`, or the row of a page that was not known
TakePage(c) ==
    LET d == ix[c].doc IN
    /\ At(c, "take")
    /\ \/ /\ d[2] # 0 /\ HasRow(d)
          /\ SetStatus(d, "processing")
          /\ Goto(c, "clear") /\ Begins(c, d)
       \/ /\ d[2] # 0 /\ ~HasRow(d)
          /\ Goto(c, "erred") /\ UNCHANGED <<doc, disturbed>>
       \/ /\ d[2] = 0
          /\ \E new \in FreeCopies(Item(d)) :
                /\ SetStatus(new, "processing")
                /\ ix' = [ix EXCEPT ![c].pc = "clear", ![c].doc = new]
                /\ UNCHANGED disturbed
    /\ UNCHANGED <<site, chunks, row, excluding, spent, raced, overlapped, late>>

\* the orphans: documents of pages that were not among the crawled
FindOrphans(c) ==
    /\ At(c, "next") /\ ix[c].todo = {}
    /\ ix' = [ix EXCEPT ![c].pc = "sweep",
                        ![c].orphans = {d \in Docs : /\ Item(d) \in Pages /\ HasRow(d)
                                                     /\ doc[d].status # "excluded"
                                                     /\ ix[c].found[Item(d)] = Gone}]
    /\ UNCHANGED <<site, tables, excluding, spent, history>>

\* one orphan; one that is gone already makes the delete throw
DeleteOrphan(c) ==
    /\ At(c, "sweep")
    /\ \E d \in ix[c].orphans :
          IF HasRow(d)
          THEN Remove(d) /\ ix' = [ix EXCEPT ![c].orphans = @ \ {d}]
          ELSE /\ ix' = [ix EXCEPT ![c].pc = "erred", ![c].orphans = {}]
               /\ UNCHANGED <<doc, chunks, disturbed>>
    /\ UNCHANGED <<site, row, excluding, spent, raced, overlapped, late>>

\* the check of the 20 minutes before each page
CrawlTimesOut(c) ==
    /\ At(c, "next") /\ ix[c].todo # {}
    /\ Goto(c, "erred")
    /\ UNCHANGED <<site, tables, excluding, spent, history>>

-----------------------------------------------------------------------------
(* ingest-document.processor.ts *)

BeginIngest(f) ==
    /\ f \in Files /\ At(f, "waiting")
    /\ SetRow(f, "running")
    /\ Goto(f, "start")
    /\ UNCHANGED <<site, doc, chunks, excluding, spent, history>>

\* the update to `processing` stands before the try
TakeFile(f) ==
    LET d == <<f, 1>> IN
    /\ At(f, "start")
    /\ IF HasRow(d)
       THEN SetStatus(d, "processing") /\ ix' = [ix EXCEPT ![f].pc = "clear", ![f].doc = d] /\ Begins(f, d)
       ELSE Goto(f, "threw") /\ UNCHANGED <<doc, disturbed>>
    /\ UNCHANGED <<site, chunks, row, excluding, spent, raced, overlapped, late>>

-----------------------------------------------------------------------------
(* Both processors *)

\* a crawl has ended: it has failed when none of its pages could be used
CrawlEnds(c, good) == At(c, "sweep") /\ ix[c].orphans = {} /\ ix[c].good = good

\* the row of a job that has come through
CompleteRow(j) ==
    /\ At(j, "end") \/ CrawlEnds(j, TRUE)
    /\ SetRow(j, "completed")
    /\ Goto(j, "ended")
    /\ UNCHANGED <<site, doc, chunks, excluding, spent, history>>

\* the catch: a crawl swallows its error, an ingest throws it again
FailRow(j) ==
    /\ At(j, "erred") \/ CrawlEnds(j, FALSE)
    /\ SetRow(j, "failed")
    /\ Goto(j, IF j \in Crawls THEN "ended" ELSE "threw")
    /\ UNCHANGED <<site, doc, chunks, excluding, spent, history>>

FinishJob(j) ==
    /\ At(j, "ended")
    /\ Goto(j, "done")
    /\ UNCHANGED <<site, tables, excluding, spent, history>>

\* attempts and backoff
Retry(f) ==
    /\ At(f, "threw")
    /\ IF ix[f].tries + 1 < Attempts
       THEN ix' = [ix EXCEPT ![f].pc = "waiting", ![f].tries = @ + 1]
       ELSE Goto(f, "failed")
    /\ UNCHANGED <<site, tables, excluding, spent, history>>

\* Requests are lost; BullMQ recovers a job once, and fails it the second time.
\* No row is corrected.
AfterRestart(i) ==
    CASE ix[i].pc \in {"none", "waiting", "done", "failed", "lost"} -> ix[i]
      [] ix[i].pc \in {"checked", "rowed", "created"} -> [NewIndexer EXCEPT !.pc = "lost"]
      [] ix[i].pc \in AtWork ->
           IF i \in Edits THEN [NewIndexer EXCEPT !.pc = "lost"]
           ELSE IF ix[i].stalls < MaxStalled
           THEN [NewIndexer EXCEPT !.pc = "waiting", !.mode = ix[i].mode,
                                   !.tries = ix[i].tries, !.stalls = ix[i].stalls + 1]
           ELSE [NewIndexer EXCEPT !.pc = "failed", !.stalls = ix[i].stalls]

Restart ==
    /\ Fault("restart")
    /\ ix' = [i \in Indexers |-> AfterRestart(i)]
    /\ excluding' = NoDoc
    /\ late' = [d \in Docs |-> late[d] \cap Files]
    /\ UNCHANGED <<site, tables, raced, overlapped, disturbed>>

-----------------------------------------------------------------------------

Ask ==
    \/ \E c \in Crawls, mode \in {"full", "incremental"} : StartCrawl(c, mode)
    \/ \E f \in Files : Upload(f)
    \/ \E d \in Docs : DeleteDocument(d) \/ ClearExcluded(d)
    \/ \E e \in Edits, t \in Texts, v \in Versions : EditText(e, t, v)

Work(i) ==
    \/ CreateJob(i) \/ CreateDocument(i) \/ Enqueue(i)
    \/ Clear(i) \/ Insert(i) \/ FinishDocument(i) \/ FailDocument(i)
    \/ BeginCrawl(i) \/ Fetch(i) \/ LookUp(i) \/ TouchPage(i) \/ TakePage(i)
    \/ FindOrphans(i) \/ DeleteOrphan(i)
    \/ BeginIngest(i) \/ TakeFile(i)
    \/ CompleteRow(i) \/ FailRow(i) \/ FinishJob(i) \/ Retry(i)

Next ==
    \/ Ask \/ SetExcluded \/ Restart
    \/ \E p \in Pages : SiteChanges(p)
    \/ \E i \in Indexers : Work(i) \/ WriteFails(i) \/ CrawlTimesOut(i)

Spec == Init /\ [][Next]_vars

\* Requests run on, and the workers work.
FairSpec == Spec /\ WF_vars(SetExcluded) /\ \A i \in Indexers : WF_vars(Work(i))

-----------------------------------------------------------------------------

\* assertNoRunningJob: crawls of a source are at work together only if two
\* requests passed the check together, or a restart made the queue run a job
\* again whose row was already finished.
OneCrawlAtATime ==
    overlapped => raced \/ \E c \in Crawls : ix[c].stalls > 0

\* What retrieval reads: the chunks of a completed document are those of one
\* content, each once, and of a page the content whose hash it has, which is
\* why an incremental crawl may skip it; as long as nobody else touched the
\* document since its last indexing began.  A page has one document, unless two
\* crawls overlapped.
CompletedIsIndexed ==
    /\ \A d \in Docs \ disturbed :
          doc[d].status = "completed" => chunks[d] = ChunksOf(doc[d].hash)
    /\ overlapped \/ \A d, e \in Docs :
                        Item(d) = Item(e) /\ HasRow(d) /\ HasRow(e) => d = e

\* "marked excluded, and not taken into account by the next re-indexing": an
\* exclusion ends by a request of the owner, or by a job that had begun with the
\* document before it was excluded; no later crawl undoes it.
ExclusionStays ==
    [][\A d \in Docs :
          doc[d].status = "excluded" /\ doc'[d].status # "excluded" =>
             \/ spent'["requests"] # spent["requests"]
             \/ \E i \in late[d] : ix'[i] # ix[i]]_vars

\* UC-07: a job must not stay "in progress" for ever.
Unfinished(j) == row[j] \in {"queued", "running"}
NoJobHangs == \A j \in Jobs : Unfinished(j) ~> ~Unfinished(j)
=============================================================================
