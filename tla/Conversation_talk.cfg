SPECIFICATION Spec
CONSTANTS
    Dialogs = {d1}
    Questions = {q1}
    Experiments = {x1, x2}
    Requests = {r1, r2}
    Editors = {e1, e2}
    Threshold = 3
    Keep = 2
    Limit = 4
    MaxMessages = 2
    MaxFollowUps = 1
    MaxEdits = 3
    Faults = {"restart", "failing"}
    MaxFaults = 1
SYMMETRY Symmetry
INVARIANTS
    RecentMessagesStay
    DeletedIsSummarised
    OneVariant
    ActiveIsEdited
CHECK_DEADLOCK FALSE
