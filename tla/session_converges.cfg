SPECIFICATION FairSpec
CONSTANTS
    Keys <- MCFourKeys
    FreshKeys = TRUE
    RegisterOrder <- MCRegisterOrder
    PRESENCE_PERIOD = 1
    REGISTRATION_DATA_DELAY = 2
    PACKETLOSS_DISCONNECT_DELAY = 3
    FaultKinds <- MCAllFaults
    MaxFaults = 2
INVARIANT OneProviderPerType
PROPERTIES Converges ProvidersComplete ImplementsHandshake
