SPECIFICATION Spec
CONSTANTS
    amocrm = amocrm
    telegram = telegram
    Channels = {amocrm, telegram}
    CRMs = {amocrm}
    Attempts = 2
    MaxRetries = 1
    MaxConnects = 1
    Faults = {"restart", "answer_lost", "write_fails"}
    MaxFaults = 2
INVARIANTS
    TypeOK
    DuplicatesBounded
PROPERTY
    LoggedIsNotRepeated
CHECK_DEADLOCK FALSE
