SPECIFICATION Spec
CONSTANTS
    Tenants = {t1}
    Limit = 1
    Thresholds = {100}
    InitialBalance = 1
    Requests = {r1, r2}
    Syncs = {s1, s2}
    LastPeriod = 2
    MaxMessages = 4
    Faults = {"restart", "message_error", "sync_error", "notice_error", "redis_loss"}
    MaxFaults = 1
SYMMETRY Symmetry
CHECK_DEADLOCK FALSE
INVARIANTS
    LimitOvershootBounded
    OverdraftBounded
    OverageIsCharged
    NoticeOncePerPeriod
    NoCountForgotten
PROPERTY PostgresNeverGoesBack
