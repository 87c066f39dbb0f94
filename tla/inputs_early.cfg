SPECIFICATION Spec
CONSTANTS
    CounterSize = 4
    MaxChanges = 2
    FaultKinds <- MCEarly
    MaxFaults = 1
INVARIANT StateIsCurrent
