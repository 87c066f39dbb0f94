SPECIFICATION FairSpec
CONSTANTS
    Ids <- MCIds
    Longest = 2
    MaxCalls = 4
INVARIANTS OneEntryPerId TimerLeads NothingForgotten
PROPERTY GetsCalled
