SPECIFICATION FairSpec
CONSTANTS
    amocrm = amocrm
    Channels = {amocrm}
    CRMs = {amocrm}
    Attempts = 2
    MaxRetries = 2
    MaxConnects = 0
    Faults = {}
    MaxFaults = 0
PROPERTY
    RetryIsMade
CHECK_DEADLOCK FALSE
