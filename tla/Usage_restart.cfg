SPECIFICATION FairSpec
CONSTANTS
    Tenants = {t1}
    Limit = 2
    Thresholds = {}
    InitialBalance = 0
    Requests = {r1}
    Syncs = {s1}
    LastPeriod = 1
    MaxMessages = 2
    Faults = {"restart"}
    MaxFaults = 1
CHECK_DEADLOCK FALSE
PROPERTIES
    CountSurvivesRestart
