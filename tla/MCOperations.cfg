SPECIFICATION FairSpec
CONSTANTS
    o1 = o1
    o2 = o2
    c1 = c1
    c2 = c2
    NoFile = NoFile
    Empty = Empty
    Garbage = Garbage
    NoRecord = NoRecord
    NoJob = NoJob
    Ops <- MCOps
    Bootstraps <- MCBootstraps
    Cancellers <- OneCanceller
    MaxReports = 1
    MaxCrashes = 1
INVARIANTS RecordsAreSound HonestOutcome
PROPERTIES VerdictStands LifecycleSpec ComesToRest
CHECK_DEADLOCK FALSE
