SPECIFICATION Spec
CONSTANTS
    w1 = w1
    w2 = w2
    w3 = w3
    a = a
    b = b
    c = c
    Initial = Initial
    Missing = Missing
    Empty = Empty
    Garbage = Garbage
    Nobody = Nobody
    Keys <- ThreeKeys
    Writers <- TwoWriters
    KeysOf <- Disjoint
    MaxCrashes = 0
INVARIANT UnmodifiedKeysKept
CHECK_DEADLOCK FALSE
