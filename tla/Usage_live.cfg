SPECIFICATION FairSpec
CONSTANTS
    Tenants = {t1}
    Limit = 2
    Thresholds = {50, 100}
    InitialBalance = 1
    Requests = {r1, r2}
    Syncs = {s1, s2}
    LastPeriod = 1
    MaxMessages = 3
    Faults = {}
    MaxFaults = 0
CHECK_DEADLOCK FALSE
PROPERTIES
    CountReachesPostgres
    ThresholdIsMailed
