SPECIFICATION FollowSpec

CONSTANTS
    Ops = {a1, a2, a3, b1, b2}
    Bootstraps = {b1, b2}
    Clicks = {"c"}
    MaxAttempts = 3
    MaxLost = 2
    MaxDialogs = 3
    MaxOthers = 1
    Nobody = "nobody"
    Terminals = {"a", "b"}
    MaxDrops = 3
    s1 = s1
    s2 = s2
    c1 = c1
    Absent = Absent
    Empty = Empty
    Garbage = Garbage
    NoJob = NoJob
    NoSubnet = NoSubnet
    Starters <- MCStarters
    Cancellers <- MCCancellers
    Subnets <- MCSubnets
    Present <- MCPresent
    Bytes = 2
    Bits = 2
    MaxCrashes = 1

INVARIANTS
    SecondNeedsBlindness
    TerminalIsOwn
    ScanIsTrue

PROPERTIES
    EndsAreHeard
    TerminalConnects
    ActiveEnds

CHECK_DEADLOCK FALSE
