SPECIFICATION Spec
CONSTANTS
    Updates = {1, 2}
    FirstVersion = 0
    Requests = {r1, r2}
    Agents = {a1, a2}
    MaxRequests = 2
    Faults = {"restart", "lost", "failing"}
    MaxFaults = 0
INVARIANT TestedCodeIsBuilt
CHECK_DEADLOCK FALSE
