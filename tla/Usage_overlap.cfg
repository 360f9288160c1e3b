SPECIFICATION Spec
CONSTANTS
    Tenants = {t1}
    Limit = 2
    Thresholds = {}
    InitialBalance = 0
    Requests = {r1}
    Syncs = {s1, s2}
    LastPeriod = 1
    MaxMessages = 2
    Faults = {}
    MaxFaults = 0
CHECK_DEADLOCK FALSE
PROPERTIES
    CopyKeepsCount
