SPECIFICATION TimelySpec
CONSTANTS
    Processes = {p1, p2}
    None = None
    MaxRuntimes = 2
    MaxWaiting = 1
    MaxSleeps = 1
PROPERTIES
    RegisteredSessionsAreListed
CHECK_DEADLOCK FALSE
