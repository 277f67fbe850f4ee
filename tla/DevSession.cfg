SPECIFICATION FairSpec
CONSTANTS
    Requests = {r1}
    None = None
    MaxRetries = 1
    SendRetries = 1
    MaxConfigs = 2
    MaxEdits = 2
    MaxStarting = 1
    MaxLosses = 1
    MaxSendFailures = 1
INVARIANTS
    SettledSessionIsCurrent
    
PROPERTIES
    ProxyNeverGoesBack
    
CHECK_DEADLOCK FALSE
