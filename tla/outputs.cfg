SPECIFICATION FairSpec
CONSTANTS
    Outputs <- MCOutputSet
    REFRESH_PERIOD = 2
    MaxInFlight = 1
    FaultKinds <- MCFaultKinds
    MaxFaults = 2
INVARIANTS ProviderFollowsController StorageAgrees LastPacketIsCurrent
PROPERTIES InitOkKeepsOutputs RestoresLast FollowsEventually
