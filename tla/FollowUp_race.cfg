SPECIFICATION FairSpec
CONSTANTS
    j1 = j1
    j2 = j2
    Jobs = {j1, j2}
    Concurrency = 3
    MaxAttempts = 2
    Delays <- ShortDelays
    JobAttempts = 2
    MaxMessages = 1
    MaxParallel = 1
    Faults = {}
    MaxFaults = 0
    MaxSlow = 0
PROPERTY
    FollowUpIsSent
CHECK_DEADLOCK FALSE
