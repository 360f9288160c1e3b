SPECIFICATION Spec
CONSTANTS
    Statuses = {s0, s1}
    FirstStatus = s0
    Editors = {e1}
    Handlers = {h1}
    Concurrency = 3
    Attempts = 3
    MaxTime = 3
    MaxEdits = 0
    MaxTouches = 0
    MaxCrmEdits = 2
    Faults = {}
    MaxFaults = 0
SYMMETRY Symmetry
CHECK_DEADLOCK FALSE
PROPERTIES
    LaterChangeWins
