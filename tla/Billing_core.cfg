SPECIFICATION Spec
CONSTANTS
    Tenants = {t1}
    Payments = {p1, p2}
    Tariffs = {month}
    DefaultTariff = month
    NoTariff = NoTariff
    Months <- MCMonths
    Workers = {w1, w2}
    TrialEnd = 0
    RenewAhead = 1
    MaxTime = 3
    Faults = {"crash", "rollback", "call_timeout", "db_error", "db_lost_reply"}
    MaxFaults = 1
SYMMETRY Symmetry
CHECK_DEADLOCK FALSE
INVARIANTS
    TypeOK
    LedgerMatchesPayments
    SubsBackedByCharges
PROPERTIES
    ActiveSubscriptionStays
    ImplementsLedger
