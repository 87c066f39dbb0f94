SPECIFICATION FairSpec
CONSTANTS
    MaxDatagrams = 2
    MaxPolls = 2
    FaultKinds <- MCFaultKinds
    MaxFaults = 1
INVARIANTS OnceEach RingHasRoom
PROPERTIES ImplementsRelay ArrivesUpstairs
