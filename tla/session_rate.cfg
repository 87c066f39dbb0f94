SPECIFICATION Spec
CONSTANTS
    Keys <- MCKeys
    FreshKeys = FALSE
    RegisterOrder <- MCRegisterOrder
    PRESENCE_PERIOD = 1
    REGISTRATION_DATA_DELAY = 2
    PACKETLOSS_DISCONNECT_DELAY = 3
    FaultKinds <- MCReboots
    MaxFaults = 1
PROPERTY NewKeyRateLimited
