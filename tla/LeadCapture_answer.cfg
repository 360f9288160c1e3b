SPECIFICATION Spec
CONSTANTS
    Visitors = {v1, v2}
    Messages = {m1, m2}
    Phones = {p1}
    NoPhone = NoPhone
    MaxDialogs = 2
    MaxArchived = 0
    Faults = {}
    MaxFaults = 0
SYMMETRY Symmetry
INVARIANT
    AnswerIsRouted
CHECK_DEADLOCK FALSE
