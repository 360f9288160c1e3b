SPECIFICATION Spec
CONSTANTS
    Statuses = {s0, s1, s2}
    FirstStatus = s0
    Editors = {e1}
    Handlers = {h1}
    Concurrency = 3
    Attempts = 3
    MaxTime = 3
    MaxEdits = 1
    MaxTouches = 0
    MaxCrmEdits = 1
    Faults = {}
    MaxFaults = 0
SYMMETRY Symmetry
CHECK_DEADLOCK FALSE
PROPERTIES
    LaterChangeWins
