SPECIFICATION FairSpec
CONSTANTS
    Procs = {p1, p2, p3}
    NoLock = NoLock
    MaxAttempts = 2
    MayOverrun = FALSE
INVARIANTS
    LiveStartupsAreExclusive
    ReleasedLocksAreGone
PROPERTIES
    EveryStartupEnds
CHECK_DEADLOCK FALSE
