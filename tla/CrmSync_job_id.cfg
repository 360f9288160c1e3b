SPECIFICATION FairSpec
CONSTANTS
    Statuses = {s0, s1}
    FirstStatus = s0
    Editors = {e1}
    Handlers = {h1}
    Concurrency = 1
    Attempts = 3
    MaxTime = 1
    MaxEdits = 3
    MaxTouches = 0
    MaxCrmEdits = 0
    Faults = {}
    MaxFaults = 0
CHECK_DEADLOCK FALSE
PROPERTIES
    LocalChangeReachesCrm
