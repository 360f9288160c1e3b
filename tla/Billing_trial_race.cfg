SPECIFICATION Spec
CONSTANTS
    Tenants = {t1}
    Payments = {p1, p2}
    Tariffs = {month}
    DefaultTariff = month
    NoTariff = NoTariff
    Months <- MCMonths
    Workers = {w1}
    TrialEnd = 0
    RenewAhead = 1
    MaxTime = 2
    Faults = {}
    MaxFaults = 1
SYMMETRY Symmetry
CHECK_DEADLOCK FALSE
PROPERTIES
    TrialExpiresOnlyUnpaid
