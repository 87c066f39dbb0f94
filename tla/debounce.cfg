SPECIFICATION DebounceFairSpec
CONSTANTS
    TickSize <- MCTickSize
    DebounceTime <- MCDebounceTime
INVARIANT ToldInTime
PROPERTIES HeldLongEnough ImplementsLine
