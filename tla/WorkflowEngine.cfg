SPECIFICATION FairSpec
CONSTANTS
    a = a
    b = b
    w = w
    z = z
    DoSteps = {a, b}
    Sleeps = {z}
    Waits = {w}
    Programs <- MCPrograms
    Events = {e1}
    None = None
    RetryLimit = 1
    Fatal = {a, b}
    Catches = {a, w}
    MaxRuns = 2
    MaxPauses = 2
    MaxUpsets = 1
INVARIANTS
    
    
    EventsReachWaits
PROPERTIES
    OutputsStable
    
    
CHECK_DEADLOCK FALSE
