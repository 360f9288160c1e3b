SPECIFICATION Spec
CONSTANTS
    j1 = j1
    j2 = j2
    Jobs = {j1, j2}
    Concurrency = 3
    MaxAttempts = 3
    Delays <- ShortDelays
    JobAttempts = 2
    MaxMessages = 2
    MaxParallel = 2
    Faults = {"restart", "call_fails"}
    MaxFaults = 1
    MaxSlow = 1
SYMMETRY Symmetry
INVARIANTS
    TypeOK
    FollowUpsBounded
    CompleteLeadIsLeftAlone
CHECK_DEADLOCK FALSE
