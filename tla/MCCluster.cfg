SPECIFICATION FairSpec
CONSTANTS
    r1 = r1
    r2 = r2
    r3 = r3
    Requests <- MCRequests
    Mixes <- MCMixes
    MaxAttempts <- MCAttempts
    MaxCrashes = 1
INVARIANTS FilesAgree ProgressIsHonest OneBootstrapCompletes
PROPERTY BootstrapEnds
CHECK_DEADLOCK FALSE
