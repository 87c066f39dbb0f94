SPECIFICATION FairSpec
CONSTANTS
    SensorsCnt = 2
    Temperature <- MCTemperatures
    MaxCount = 3
    MaxInFlight = 1
    FaultKinds <- MCFaultKinds
    MaxFaults = 2
INVARIANT OneReportUntold
PROPERTIES NoZeroOnceRead SettledIsShown
