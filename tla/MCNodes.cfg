SPECIFICATION FairSpec
CONSTANTS
    r1 = r1
    r2 = r2
    ip1 = ip1
    ip2 = ip2
    NoIP = NoIP
    NoEntry = NoEntry
    NoNode = NoNode
    Requests <- MCRequests
    IPs <- MCIPs
    MaxCrashes = 1
    MaxMisread = 2
INVARIANTS EntriesAreSound AppliedWasAccepted
PROPERTY DeleteIsAnswered
CHECK_DEADLOCK FALSE
