SPECIFICATION FairSpec
CONSTANTS
    Scripts <- MCScripts
    Configurer = "house"
    InitDevices <- MCInitDevices
    OutputId = "hall-0"
    OutputName = "lamp"
    FaultKinds <- MCFaultKinds
    MaxFaults = 2
    InboxLimit = 2
INVARIANTS ConfiguredWhenInitialized NameLeadsToOutput
PROPERTIES KeepsConfiguration GetsConfigured
