CONSTANTS
    MaxVersion = 2
    MaxClicks = 1
    MaxLost = 1
    Listeners = {"screen", "other"}
    MaxBreaks = 1

SPECIFICATION FairSpec

INVARIANTS
    AcknowledgedIsSeen
    ConnectionIsSound

CHECK_DEADLOCK FALSE

PROPERTY CatchesUp
