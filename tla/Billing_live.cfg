SPECIFICATION FairSpec
CONSTANTS
    Tenants = {t1}
    Payments = {p1}
    Tariffs = {month}
    DefaultTariff = month
    NoTariff = NoTariff
    Months <- MCMonths
    Workers = {w1, w2}
    TrialEnd = 0
    RenewAhead = 1
    MaxTime = 3
    Faults = {"crash", "rollback"}
    MaxFaults = 1
CHECK_DEADLOCK FALSE
PROPERTIES
    PaidCheckoutIsCredited
    TrialEventuallyExpires
