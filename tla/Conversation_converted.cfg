SPECIFICATION Spec
CONSTANTS
    Dialogs = {d1}
    Questions = {q1}
    Experiments = {x1}
    Requests = {r1, r2}
    Editors = {e1, e2}
    Threshold = 3
    Keep = 2
    Limit = 4
    MaxMessages = 3
    MaxFollowUps = 1
    MaxEdits = 3
    Faults = {}
    MaxFaults = 0
SYMMETRY Symmetry
INVARIANT ConversionIsCounted
CHECK_DEADLOCK FALSE
