SPECIFICATION FairSpec
CONSTANTS
    CounterSize = 3
    MaxChanges = 6
    FaultKinds <- MCAll
    MaxFaults = 2
INVARIANTS NothingMissed NoPhantomChanges ShownLowIsLow
PROPERTIES HealsWithNextChange SettledLevelIsShown
