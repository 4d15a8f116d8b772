SPECIFICATION FairSpec
CONSTANTS
    w1 = w1
    w2 = w2
    w3 = w3
    a = a
    b = b
    c = c
    Initial = Initial
    Missing = Missing
    Empty = Empty
    Garbage = Garbage
    Nobody = Nobody
    Keys <- TwoKeys
    Writers <- ThreeWriters
    KeysOf <- Contested
    MaxCrashes = 1
INVARIANTS FileIsSound NoLostUpdate
PROPERTY Answered
CHECK_DEADLOCK FALSE
