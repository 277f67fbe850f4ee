SPECIFICATION FairSpec
CONSTANTS
    Processes = {p1, p2}
    None = None
    MaxRuntimes = 2
    MaxWaiting = 1
    MaxSleeps = 1
INVARIANTS
    EntriesAreTruthful
PROPERTIES
    WaitingSessionsGetTheName
CHECK_DEADLOCK FALSE
