SPECIFICATION FairSpec
CONSTANTS
    Pages = {p1}
    Files = {f1}
    Texts = {}
    Crawls = {c1}
    Edits = {}
    Parts = 1
    Copies = 1
    Attempts = 3
    MaxVersion = 1
    MaxRequests = 2
    Faults = {}
    MaxEvents = 0
PROPERTY
    NoJobHangs
CHECK_DEADLOCK FALSE
