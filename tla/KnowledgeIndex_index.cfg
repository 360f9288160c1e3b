SPECIFICATION Spec
CONSTANTS
    Pages = {p1, p2}
    Files = {f1}
    Texts = {t1}
    Crawls = {c1, c2}
    Edits = {e1}
    Parts = 2
    Copies = 2
    Attempts = 2
    MaxVersion = 2
    MaxRequests = 2
    Faults = {"restart", "write_fails"}
    MaxEvents = 1
SYMMETRY Symmetry
INVARIANTS
    OneCrawlAtATime
    CompletedIsIndexed
PROPERTY
    ExclusionStays
CHECK_DEADLOCK FALSE
