SPECIFICATION Spec
CONSTANTS
    Statuses = {s0, s1, s2}
    FirstStatus = s0
    Editors = {e1}
    Handlers = {h1, h2}
    Concurrency = 3
    Attempts = 2
    MaxTime = 2
    MaxEdits = 1
    MaxTouches = 1
    MaxCrmEdits = 2
    Faults = {"restart", "call_fails", "call_times_out"}
    MaxFaults = 1
SYMMETRY Symmetry
CHECK_DEADLOCK FALSE
PROPERTIES
    CrmChangesInOrder
