SPECIFICATION FairSpec
CONSTANTS
    Codes <- MCCodes
    Repeat = "repeat"
    Nothing = "nothing"
    RepeatTime <- MCRepeatTime
    ReleaseTime <- MCReleaseTime
    MaxFaults = 3
INVARIANT ShownIsHeld
PROPERTIES RepeatNeverPresses HeldStaysPressed EventuallyReleased
