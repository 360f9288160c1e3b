SPECIFICATION Spec
CONSTANTS
    Visitors = {v1, v2}
    Messages = {m1, m2, m3}
    Phones = {p1}
    NoPhone = NoPhone
    MaxDialogs = 3
    MaxArchived = 2
    Faults = {"restart"}
    MaxFaults = 1
SYMMETRY Symmetry
INVARIANTS
    TypeOK
    NumberHasLead
    LinkedHasNoLead
    SameNumberIsRace
CHECK_DEADLOCK FALSE
